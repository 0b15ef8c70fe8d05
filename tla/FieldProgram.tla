------------------------------ MODULE FieldProgram ------------------------------
(***************************************************************************)
(* A program over one prime or extension field, lowered to modular         *)
(* arithmetic: every operation works on the value computed so far and a    *)
(* constant, and the inverse of a tensor runs as the loops it is lowered   *)
(* to. A comparison leaves the value as it was.                            *)
(***************************************************************************)
EXTENDS FieldAlgebra

CONSTANTS
  Units,          \* what is compiled: records of a text and the pass options
  Operands,       \* for every text, the prime coefficients of its constants
  Tensors,        \* for every text, the tensors whose elements are inverted
  KnownModuli,    \* the primes that have an alias in the runtime library
  RuntimeLibrary  \* the text of the field behind every name of the library

VARIABLES
  unit,      \* the text of the type, where it comes from, and the options
  type,      \* the type of the value
  accepted,  \* the verifier's verdict on it
  value,     \* the value computed so far
  last,      \* the last operation, its operands and its result
  pending,   \* the last operation has not run yet
  loop,      \* the inverse of a tensor: the loops' tensors and scalars
  left       \* operations that may still follow

vars == <<unit, type, accepted, value, last, pending, loop, left>>

Idle == [phase |-> "idle"]
Nothing == [op |-> "none"]
TypeOf(text, origin) == IF origin = "parsed" THEN parse(text) ELSE getExtensionFieldType(text)
Constants(text, t) == {parseFieldConstant(c, t) : c \in Operands[text]}

Init ==
  /\ unit \in Units
  /\ type = TypeOf(unit.text, unit.origin)
  /\ accepted = (type.kind = "ef" => verify(type))
  /\ value \in Constants(unit.text, type)
  /\ last = Nothing
  /\ pending = FALSE
  /\ loop = Idle
  /\ left = unit.length

-----------------------------------------------------------------------------
(* The options of the pass *)

preferFermatChain(p, w) ==
  \/ unit.inverse = "fermat"
  \/ unit.inverse = "auto" /\ hasInverseChain(p) /\ w <= 64
InverseHandler(prime) == IF preferFermatChain(prime.p, prime.w) THEN "chain" ELSE "run"
ByPower(t) == t.kind = "pf" /\ unit.inverse = "fermat" /\ ~hasInverseChain(t.p)
InverseBy(h, t, a) == IF ByPower(t) THEN pow(h, t, a, t.p - 2) ELSE FieldInverse(h, t, a)
emitScalarInverse(t, a) == InverseBy(InverseHandler(getBasePrimeField(t)), t, a)

(* Costly operations on extensions of known primes call the runtime library, *)
(* by a name that is made of the prime, the degree and the form.             *)
shouldUseFieldAOTRuntime(t, shape) ==
  /\ unit.mode # "inline"
  /\ t.kind = "ef" /\ shape = "same"
  /\ getDegreeOverPrime(t) >= 4 \/ getBasePrimeField(t).w > 64
getFieldAOTFuncName(t) ==
  LET prime == getBasePrimeField(t)
  IN  IF isTower(t) \/ Mod(t) \notin KnownModuli THEN {} ELSE {<<Mod(t), t.degree, prime.mont>>}
emitAOTFuncCall(t, name) == parse(RuntimeLibrary[name])

EmittedType(op, shape, t) ==
  IF op \in {"mul", "square", "inverse"} /\ shouldUseFieldAOTRuntime(t, shape) /\ getFieldAOTFuncName(t) # {}
  THEN emitAOTFuncCall(t, CHOOSE name \in getFieldAOTFuncName(t) : TRUE)
  ELSE t

(* Mutant: the residues are compared as they are stored. *)
compareOnStoredDomain(predicate, t, a, b) == PrimeCompare(predicate, [t EXCEPT !.mont = FALSE], a, b)
(* Comparisons are made on standard residues, coefficient by coefficient. *)
compareOnStdDomain(predicate, t, a, b) ==
  LET std == [t EXCEPT !.mont = FALSE]
      Std(x) == IF t.mont THEN executeFromMontOp(t, x) ELSE x
  IN  PrimeCompare(predicate, std, Std(a), Std(b))
EmittedCmp(predicate, t, a, b) ==
  LET prime == getBasePrimeField(t)
      x == flattenToPrimeCoeffs(a, t)
      y == flattenToPrimeCoeffs(b, t)
      Coefficient(i) == compareOnStdDomain(predicate, prime, x[i], y[i])
  IN  IF predicate = "ne" THEN \E i \in DOMAIN x : Coefficient(i) ELSE \A i \in DOMAIN x : Coefficient(i)

(* The value that the code emitted for an operation computes, over the field *)
(* e that it is emitted for.                                                 *)
EmittedIn(e, op, shape, t, a, b) ==
  CASE op \in {"add", "sub", "mul"} -> Binary("run", op, shape, e, a, b)
    [] op = "inverse" -> emitScalarInverse(e, a)
    [] op \in {"negate", "double", "square"} -> Unary("run", op, e, a)
    [] op \in {"to_mont", "from_mont"} -> convertMont(t, a)
    [] op \in Predicates -> EmittedCmp(op, t, a, b)
Emitted(op, shape, t, a, b) == EmittedIn(EmittedType(op, shape, t), op, shape, t, a, b)

-----------------------------------------------------------------------------
(* One operation *)

Operation(op, shape, b) ==
  /\ accepted /\ left > 0 /\ ~pending /\ loop = Idle
  /\ op \in unit.ops
  /\ last' = [op |-> op, shape |-> shape, type |-> type, a |-> value, b |-> b]
  /\ pending' = TRUE
  /\ left' = left - 1
  /\ UNCHANGED <<unit, type, accepted, value, loop>>

(* The second operand is of the same field, or one of the two is of the base *)
(* field.                                                                    *)
BinaryOperation(op) ==
  \/ \E b \in Constants(unit.text, type) : Operation(op, "same", b)
  \/ /\ type.kind = "ef"
     /\ \E shape \in {"base", "baseLhs"}, b \in Constants(unit.text.base, type.base) : Operation(op, shape, b)

ConvertAdd == BinaryOperation("add")
ConvertSub == BinaryOperation("sub")
ConvertMul == BinaryOperation("mul")
ConvertNegate == Operation("negate", "same", value)
ConvertDouble == Operation("double", "same", value)
ConvertSquare == Operation("square", "same", value)
ConvertInverse == Operation("inverse", "same", value)
ConvertCmp ==
  \E predicate \in Predicates, b \in Constants(unit.text, type) :
    CmpVerified(predicate, type) /\ Operation(predicate, "same", b)

(* The type changes its form; the coefficients are converted over the prime  *)
(* field, which the lowering does for one level of extension by a non-residue. *)
Convertible(t) == t.kind = "pf" \/ (~isTower(t) /\ ~hasGeneralModulus(t))
ConvertToMont == Convertible(type) /\ ~isMontgomery(type) /\ Operation("to_mont", "same", value)
ConvertFromMont == Convertible(type) /\ isMontgomery(type) /\ Operation("from_mont", "same", value)

Outcome(out) ==
  /\ last' = [op |-> last.op, shape |-> last.shape, type |-> type, a |-> last.a, b |-> last.b,
              out |-> out, folded |-> Folded(last.op, last.shape, type, last.a, last.b)]
  /\ value' = IF last.op \in Predicates THEN value ELSE out
Run ==
  /\ pending
  /\ Outcome(Emitted(last.op, last.shape, type, last.a, last.b))
  /\ type' = IF last.op \in {"to_mont", "from_mont"} THEN OtherForm(type) ELSE type
  /\ pending' = FALSE
  /\ UNCHANGED <<unit, accepted, loop, left>>

-----------------------------------------------------------------------------
(* The inverse of the elements of a tensor *)

(* The products and the inverse are operations of the program, lowered in turn. *)
MulOp(a, b) == Mul("run", EmittedType("mul", "same", type), a, b)
InverseOp(a) == emitScalarInverse(EmittedType("inverse", "same", type), a)
CanInvertTensor(how) == unit.tensor = how /\ accepted /\ left > 0 /\ ~pending /\ loop = Idle /\ last = Nothing
Inputs == {[i \in DOMAIN c |-> parseFieldConstant(c[i], type)] : c \in Tensors[unit.text]}

emitElementwiseInverse ==
  /\ CanInvertTensor("elementwise")
  /\ \E input \in Inputs :
       loop' = [phase |-> "elementwise", input |-> input,
                result |-> [i \in DOMAIN input |-> emitScalarInverse(type, input[i])]]
  /\ left' = left - 1
  /\ UNCHANGED <<unit, type, accepted, value, last, pending>>

(* The batch: prefix products forward, one inverse, and the results backward, *)
(* the inverse losing one factor a step.                                      *)
emitBatchInverse ==
  /\ CanInvertTensor("batch")
  /\ \E input \in Inputs :
       loop' = [phase |-> "forward", input |-> input, prefix |-> <<input[1]>>]
  /\ left' = left - 1
  /\ UNCHANGED <<unit, type, accepted, value, last, pending>>
fwdLoop ==
  /\ loop.phase = "forward" /\ Len(loop.prefix) < Len(loop.input)
  /\ LET i == Len(loop.prefix)
     IN  loop' = [loop EXCEPT !.prefix = Append(loop.prefix, MulOp(loop.prefix[i], loop.input[i + 1]))]
  /\ UNCHANGED <<unit, type, accepted, value, last, pending, left>>
invertProduct ==
  /\ loop.phase = "forward" /\ Len(loop.prefix) = Len(loop.input)
  /\ loop' = [phase |-> "backward", input |-> loop.input, prefix |-> loop.prefix,
              inv |-> InverseOp(loop.prefix[Len(loop.input)]), result |-> <<>>]
  /\ UNCHANGED <<unit, type, accepted, value, last, pending, left>>
(* The results found so far are those of the last elements. *)
currIdx == Len(loop.input) - Len(loop.result)
(* Mutant: the inverse loses its factor before the result is made. *)
bwdLoopUpdatesFirst ==
  /\ loop.phase = "backward" /\ currIdx > 1
  /\ loop' = [loop EXCEPT !.result = <<MulOp(MulOp(loop.inv, loop.input[currIdx]), loop.prefix[currIdx - 1])>> \o loop.result,
                          !.inv = MulOp(loop.inv, loop.input[currIdx])]
  /\ UNCHANGED <<unit, type, accepted, value, last, pending, left>>
bwdLoop ==
  /\ loop.phase = "backward" /\ currIdx > 1
  /\ loop' = [loop EXCEPT !.result = <<MulOp(loop.inv, loop.prefix[currIdx - 1])>> \o loop.result,
                          !.inv = MulOp(loop.inv, loop.input[currIdx])]
  /\ UNCHANGED <<unit, type, accepted, value, last, pending, left>>
insertFirst ==
  /\ loop.phase = "backward" /\ currIdx = 1
  /\ loop' = [phase |-> "batch", input |-> loop.input, result |-> <<loop.inv>> \o loop.result]
  /\ UNCHANGED <<unit, type, accepted, value, last, pending, left>>

Next ==
  \/ ConvertAdd \/ ConvertSub \/ ConvertMul
  \/ ConvertNegate \/ ConvertDouble \/ ConvertSquare \/ ConvertInverse
  \/ ConvertCmp \/ ConvertToMont \/ ConvertFromMont \/ Run
  \/ emitElementwiseInverse
  \/ emitBatchInverse \/ fwdLoop \/ invertProduct \/ bwdLoop \/ insertFirst

Spec == Init /\ [][Next]_vars

-----------------------------------------------------------------------------
(* Properties *)

Ran == last # Nothing /\ ~pending

(* What an operation must return, in the ring of the type's text. *)
IsResult(ring, op, shape, a, b, out) ==
  LET rhs == IF shape = "same" THEN b ELSE [i \in 1..ring.degree |-> IF i = 1 THEN b ELSE RingZero(ring.base)]
  IN  CASE op = "add" -> out = RingAdd(ring, a, rhs)
        [] op = "sub" -> out = IF shape = "baseLhs" THEN RingSub(ring, rhs, a) ELSE RingSub(ring, a, rhs)
        [] op = "mul" -> out = RingMul(ring, a, rhs)
        [] op = "negate" -> RingAdd(ring, a, out) = RingZero(ring)
        [] op = "double" -> out = RingAdd(ring, a, a)
        [] op = "square" -> out = RingMul(ring, a, a)
        [] op = "inverse" -> IF a = RingZero(ring) THEN out = a ELSE RingMul(ring, a, out) = RingOfInt(1, ring)
        [] op \in {"to_mont", "from_mont"} -> out = a
        [] op = "eq" -> out = (a = b)
        [] op = "ne" -> out = (a # b)
        [] op = "ult" -> out = (a < b)
        [] op = "ule" -> out = (a <= b)
        [] op = "ugt" -> out = (a > b)
        [] op = "uge" -> out = (a >= b)

(* Whatever the form of the residues, the origin of the type, the algorithm of *)
(* the products and that of the inverse, an operation computes on the ring     *)
(* elements its operands stand for.                                            *)
LoweringRight ==
  Ran => LET bType == IF last.shape = "same" THEN last.type ELSE last.type.base
             out == IF last.op \in Predicates THEN last.out ELSE Meaning(type, last.out)
         IN  IsResult(unit.text, last.op, last.shape, Meaning(last.type, last.a), Meaning(bType, last.b), out)

(* Every value that folding may leave in the place of an operation is the one  *)
(* that the emitted code would have computed, but for an ordered comparison of *)
(* Montgomery constants.                                                       *)
OrderedInMont == last.op \in Predicates \ {"eq", "ne"} /\ isMontgomery(type)
FoldAgrees == Ran /\ ~OrderedInMont => \A folded \in last.folded : folded = last.out
(* The same of ordered comparisons in Montgomery form.                         *)
CmpFoldAgrees == Ran /\ OrderedInMont => \A folded \in last.folded : folded = last.out

(* The loops of the batch keep prefix products, and an inverse of the product  *)
(* of the elements still without a result. So, where no element is zero, every *)
(* result is an inverse; and a zero makes every result of the batch zero,      *)
(* where element by element only its own inverse is.                           *)
IsInverseIn(t, a, b) == RingMul(unit.text, Meaning(t, a), Meaning(t, b)) = RingOfInt(1, unit.text)
HasZero(input) == \E i \in DOMAIN input : input[i] = Zero(type)
BatchHolds ==
  /\ loop.phase \in {"forward", "backward"} =>
       \A k \in 2..Len(loop.prefix) :
         Meaning(type, loop.prefix[k])
           = RingMul(unit.text, Meaning(type, loop.prefix[k - 1]), Meaning(type, loop.input[k]))
  /\ loop.phase = "backward" /\ ~HasZero(loop.input) =>
       /\ IsInverseIn(type, loop.inv, loop.prefix[currIdx])
       /\ \A j \in DOMAIN loop.result : IsInverseIn(type, loop.result[j], loop.input[currIdx + j])
  /\ loop.phase \in {"batch", "elementwise"} =>
       \A i \in DOMAIN loop.input :
         IF loop.phase = "batch" /\ HasZero(loop.input) THEN loop.result[i] = Zero(type)
         ELSE IF loop.input[i] = Zero(type) THEN loop.result[i] = Zero(type)
         ELSE IsInverseIn(type, loop.result[i], loop.input[i])

(* Where the degree is a prime that divides the order of the base's units and  *)
(* the non-residue is a unit, the verifier accepts exactly the binomials       *)
(* without a root in the base ring, which are irreducible; and the type prints *)
(* as the text it was parsed from.                                             *)
RECURSIVE Elements(_)
Elements(ring) == IF ring.kind = "pf" THEN 0..ring.p - 1 ELSE [1..ring.degree -> Elements(ring.base)]
RingPower(ring, a, n) ==
  LET square == RingMul(ring, a, a) IN IF n = 2 THEN square ELSE RingMul(ring, a, square)
EulerApplies(ring) ==
  /\ ring.degree \in {2, 3} /\ ~hasGeneralModulus(ring)
  /\ (Order(ring.base) - 1) % ring.degree = 0
  /\ ModulusOf(ring)[1] # RingZero(ring.base)
VerifierExact ==
  last = Nothing /\ loop = Idle /\ type.kind = "ef" =>
    /\ EulerApplies(unit.text) =>
         (accepted <=> \A a \in Elements(unit.text.base) :
                         RingPower(unit.text.base, a, unit.text.degree) # ModulusOf(unit.text)[1])
    /\ unit.origin = "parsed" => print(type) = unit.text
=============================================================================
