-------------------------------- MODULE MCFields --------------------------------
(* The fields, options and constants of the runs of FieldProgram. *)
EXTENDS FieldProgram

MCModuli == {<<p, 8>> : p \in {3, 5, 7, 11, 13, 17, 29, 61}} \cup {<<149, 128>>}
P(p, mont) == pf(p, 8, mont)
(* Two limbs, and larger than every denominator of the interpolation. *)
Wide(mont) == pf(149, 128, mont)

(* The fields whose arithmetic is run. *)
Quadratic(mont) == ef(2, P(7, mont), FALSE, <<3>>)
Cubic(mont) == ef(3, P(7, mont), FALSE, <<2>>)
Quartic(base) == ef(4, base, FALSE, <<2>>)
General(mont) == ef(3, P(13, mont), TRUE, <<1, 1, 0>>)
ScalarTowers(mont) == {ef(3, Quadratic(mont), FALSE, <<2>>), ef(2, Cubic(mont), FALSE, <<3>>)}
DenseTower(mont) == ef(2, Quadratic(mont), TRUE, <<1, 1>>)
Forms == BOOLEAN
SmallPrimes == {P(p, mont) : p \in {3, 5, 7}, mont \in Forms}
Primes == {P(p, mont) : p \in {11, 13, 17, 29, 61}, mont \in Forms}
Simple == {Quadratic(mont) : mont \in Forms} \cup {Cubic(mont) : mont \in Forms}
          \cup {Quartic(P(13, mont)) : mont \in Forms} \cup {Quartic(Wide(mont)) : mont \in Forms}
          \cup {General(mont) : mont \in Forms}
ParsedTowers == ScalarTowers(FALSE) \cup {DenseTower(FALSE)}
CreatedTowers == UNION {ScalarTowers(mont) \cup {DenseTower(mont)} : mont \in Forms}

(* Candidates for the verifier alone. *)
Candidates ==
  {ef(n, P(p, mont), FALSE, <<nr>>) : n \in {2, 3}, p \in {7, 13}, mont \in Forms, nr \in 1..6}
  \cup {ef(n, Quadratic(FALSE), FALSE, <<nr>>) : n \in {2, 3}, nr \in 1..6}
  \cup {ef(n, Quadratic(FALSE), TRUE, <<a, 1>>) : n \in {2, 3}, a \in 0..6}

Texts == SmallPrimes \cup Primes \cup Simple \cup ParsedTowers \cup CreatedTowers \cup Candidates
         \cup {t.base : t \in {u \in Simple \cup CreatedTowers \cup Candidates : TRUE}}

Binaries == {"add", "sub", "mul"}
Unaries == {"negate", "double", "square", "inverse", "to_mont", "from_mont"}
Unit(text, origin, inverse, mode, tensor, ops, length) ==
  [text |-> text, origin |-> origin, inverse |-> inverse, mode |-> mode, tensor |-> tensor,
   ops |-> ops, length |-> length]

MCUnits ==
  {Unit(t, "parsed", "bernstein-yang", "inline", "batch", Binaries \cup Unaries \cup Predicates, 2) : t \in SmallPrimes}
  \cup {Unit(t, "parsed", inverse, "inline", "elementwise", {"inverse"}, 1) :
          t \in SmallPrimes \cup Primes, inverse \in {"fermat", "auto"}}
  \cup {Unit(t, "parsed", "auto", "auto", "none", Binaries \cup Unaries \cup Predicates, 1) : t \in Simple}
  \cup {Unit(t, "parsed", inverse, "inline", tensor, {"inverse"}, 1) :
          t \in {Quadratic(TRUE), General(TRUE)}, inverse \in {"bernstein-yang", "fermat"},
          tensor \in {"batch", "elementwise"}}
  \cup {Unit(t, "parsed", "fermat", "inline", "none", Binaries \cup Unaries \cup Predicates, 1) : t \in ParsedTowers}
  \cup {Unit(t, "created", "bernstein-yang", "auto", "none", Binaries \cup Unaries \cup Predicates, 1) : t \in CreatedTowers}
  \cup {Unit(t, "parsed", "auto", "inline", "none", {}, 0) : t \in Candidates}

(* For the run that expects a violation. *)
CmpUnits == {Unit(P(7, TRUE), "parsed", "auto", "auto", "none", Predicates, 2)}

(* All elements of the smallest fields; of the others zero, one, minus one    *)
(* and two elements without a pattern.                                        *)
Sample(t) ==
  LET p == getBasePrimeField(t).p
      n == getDegreeOverPrime(t)
  IN  IF n = 1 THEN IF p <= 7 THEN {<<c>> : c \in 0..p - 1} ELSE {<<c % p>> : c \in {0, 1, 2, 3, 10, 12, 28, 45, 60}}
      ELSE {[i \in 1..n |-> 0], [i \in 1..n |-> IF i = 1 THEN 1 ELSE 0],
            [i \in 1..n |-> IF i = 1 THEN p - 1 ELSE 0],
            [i \in 1..n |-> (i * i + 1) % p], [i \in 1..n |-> (5 * i + i \div 2) % p]}
MCOperands == [t \in Texts |-> Sample(t)]
MCTensors ==
  [t \in Texts |->
    LET elements == IF t.kind = "pf" THEN {<<0>>, <<1>>, <<2>>} ELSE Sample(t)
    IN  UNION {[1..n -> elements] : n \in 1..IF t.kind = "pf" THEN 4 ELSE 3}]
MCKnownModuli == {<<13, 8>>}
MCRuntimeLibrary == [name \in {<< <<13, 8>>, 4, mont>> : mont \in Forms} |-> Quartic(P(13, name[3]))]
=============================================================================
