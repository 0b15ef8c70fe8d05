---------------------------- MODULE LazyReduction ----------------------------
(***************************************************************************)
(* The pass mod-arith-to-arith with its lazy-reduction option.             *)
(*                                                                         *)
(* A straight-line function of mod_arith operations is given.  The pass    *)
(* walks it forward and records an upper bound for every value that need   *)
(* not be canonical (buildBoundMap, phase 1), erases the bounds that some  *)
(* consumer cannot use (phase 2), and then rewrites every operation into   *)
(* arith operations (the Convert patterns), leaving out the reductions     *)
(* that the surviving bounds make unnecessary.  The function is then run   *)
(* on canonical arguments.                                                 *)
(*                                                                         *)
(* Emission and execution are one step here: a pattern decides what to     *)
(* emit from the bounds alone, and the step computes the word that the     *)
(* emitted operations yield for the chosen arguments.                      *)
(***************************************************************************)
EXTENDS Integers, Sequences, FiniteSets

CONSTANTS
  Units,  \* what is compiled: a modulus type, the pass's options, the programs
  Menus   \* Menus[u.menu][k]: what the k-th operation of u's body may be

Predicates == {"eq", "ne", "ult", "uge"}
Binary == {"add", "sub", "mul", "montmul", "barrettmul"} \cup Predicates
Unary  == {"double", "square", "montsquare", "negate", "inverse", "montinverse",
           "tomont", "frommont", "bitcast"}

\* An operation on values l and r, the constant l, or the mont_reduce of the
\* words l (low) and r (high).
Operations(u) == [op : Binary \cup Unary, l : Nat, r : Nat]
                 \cup [op : {"const"}, l : 0 .. u.p - 1, r : Nat]
                 \cup [op : {"montreduce"}, l : 0 .. u.wordSize - 1, r : 0 .. u.p - 1]

IsUnit(u) ==
  /\ u.p \in Nat /\ u.p >= 3 /\ u.p % 2 = 1
  /\ u.wordSize \in Nat /\ u.p < u.wordSize
  /\ \E w \in 1 .. u.wordSize : u.wordSize = 2^w
  /\ {u.montgomery, u.singleLimb, u.lazyOption, u.wideModulus} \subseteq BOOLEAN
  /\ u.nArgs \in Nat \ {0} /\ Menus[u.menu] \in Seq(SUBSET Operations(u))

ASSUME UnitsAssumption == \A u \in Units : IsUnit(u)

VARIABLES
  unit,     \* the unit of Units that is compiled
  phase,    \* "build", "bounds", "clamp" or "run"
  ops,      \* the function body; operation k defines value NArgs + k
  cursor,   \* the next operation of a forward walk
  bound,    \* the BoundMap: value -> umax, for some of the values
  pending,  \* candidates of phase 2 not visited yet
  val,      \* the lowered values of arguments and operations
  ref,      \* history: the residues they must stand for
  flags     \* history: "nuw" / "nsw" promises broken so far

vars == <<unit, phase, ops, cursor, bound, pending, val, ref, flags>>

P           == unit.p
WordSize    == unit.wordSize
SingleLimb  == unit.singleLimb  \* montAttr.getNumLimbs() = 1
Montgomery  == unit.montgomery  \* the arguments' modType.isMontgomery()
WideModulus == unit.wideModulus \* at least 64 bits: Barrett, not remui
LazyOption  == unit.lazyOption  \* the pass option lazy-reduction
NArgs       == unit.nArgs       \* arguments, all of one mod_arith type

INSTANCE Reducers

\* isGoldilocksModulus, at any even width: 2^2h - 2^h + 1
Goldilocks == \E half \in 2 .. WordSize : half * half = WordSize /\ P = WordSize - half + 1

\* storageWidth - modulus.getActiveBits() >= 2
TwoSpareBits == 4 * P < WordSize

MaxOps   == Len(Menus[unit.menu])
Values   == 1 .. NArgs + Len(ops)
Def(v)   == ops[v - NArgs]
IsOp(v)  == v > NArgs
Returned == NArgs + Len(ops)

Operands(o) == IF o.op \in Binary THEN <<o.l, o.r>>
               ELSE IF o.op \in Unary THEN <<o.l>> ELSE <<>>

\* modType.isMontgomery() of a value: the type of its definition.
InMontgomeryForm ==
  LET m[v \in Values] ==
        IF ~IsOp(v) THEN Montgomery
        ELSE LET o == Def(v)
             IN  CASE o.op \in {"const", "montreduce"} -> Montgomery
                   [] o.op = "tomont"   -> TRUE
                   [] o.op = "frommont" -> FALSE
                   [] o.op = "bitcast"  -> ~m[o.l]
                   [] OTHER             -> m[o.l]
  IN  m

\* The verifiers, and the forms the conversions refuse.
Verified(o) ==
  /\ \A j \in DOMAIN Operands(o) :
       LET v == Operands(o)[j] IN v \in Values /\ ~(IsOp(v) /\ Def(v).op \in Predicates)
  /\ o.op \in Binary => InMontgomeryForm[o.l] = InMontgomeryForm[o.r]
  /\ o.op \in {"montmul", "montsquare", "frommont", "montinverse"} => InMontgomeryForm[o.l]
  /\ o.op \in {"tomont", "barrettmul"} => ~InMontgomeryForm[o.l]

WMax == WordSize - 1

-----------------------------------------------------------------------------
\* Integer range analysis (ModArithRangeAnalysis and the ops'
\* inferResultRanges): the upper end of each value's range.

USat(x) == IF x > WMax THEN WMax ELSE x

\* (w + 1)-bit arithmetic, then a saturating truncation to w bits.
SubRange(l, r) ==
  LET rhsBound == (r + P) \div P
  IN  USat((l + rhsBound * P) % (2 * WordSize))

\* A constant range of one value is widened so that it is never [0, 0].
Widen(x) == IF x = 0 THEN 1 ELSE x

RangeMax ==
  LET r[v \in Values] ==
        IF ~IsOp(v) THEN P - 1
        ELSE LET o == Def(v)
             IN  CASE o.op = "add"    -> Widen(USat(r[o.l] + r[o.r]))
                   [] o.op = "sub"    -> Widen(SubRange(r[o.l], r[o.r]))
                   [] o.op = "double" -> Widen(USat(2 * r[o.l]))
                   [] o.op = "const"  -> Widen(o.l)
                   [] o.op = "bitcast" -> r[o.l]
                   [] o.op \in {"montmul", "montsquare", "montreduce"} -> 2 * P - 1
                   [] OTHER           -> P - 1
  IN  r

-----------------------------------------------------------------------------
\* Bounds.

\* BoundMapPattern::lookupUmax and lookupKp
LookupUmax(v) == IF v \in DOMAIN bound THEN bound[v] ELSE P - 1
LookupKp(v)   == KpFromUmax(LookupUmax(v))

\* Mutant of ForwardUmax: the lazy difference is bounded without the multiple
\* of p that is added to keep it from going negative.
ForwardUmaxNoCorrection(o, v, range) ==
  LET Umax(x) == IF x \in DOMAIN bound THEN bound[x] ELSE range[x]
  IN  CASE o.op = "add" -> IF Goldilocks THEN WMax
                           ELSE (Umax(o.l) + Umax(o.r)) % Double
        [] o.op = "sub" -> Umax(o.l)
        [] o.op = "double" -> (2 * Umax(o.l)) % Double
        [] o.op \in {"montmul", "montsquare", "montreduce"} -> 2 * P - 1
        [] o.op \in {"mul", "square"} /\ Goldilocks -> P
        [] o.op = "const" -> range[v]
        [] OTHER -> P - 1

\* Phase 1's bound of a value from the bounds of its operands.
ForwardUmax(o, v, range) ==
  LET Umax(x) == IF x \in DOMAIN bound THEN bound[x] ELSE range[x]
      lazySub == (Umax(o.l) + P * KpFromUmax(Umax(o.r))) % Double
  IN  CASE o.op = "add" -> IF Goldilocks THEN WMax
                           ELSE (Umax(o.l) + Umax(o.r)) % Double
        [] o.op = "sub" -> IF lazySub <= WMax THEN lazySub ELSE P - 1
        [] o.op = "double" -> (2 * Umax(o.l)) % Double
        [] o.op \in {"montmul", "montsquare", "montreduce"} -> 2 * P - 1
        [] o.op \in {"mul", "square"} /\ Goldilocks -> WMax
        [] o.op = "const" -> range[v]
        [] OTHER -> P - 1

Users(v) == {k \in 1 .. Len(ops) : \E j \in DOMAIN Operands(ops[k]) :
                                      Operands(ops[k])[j] = v}

\* Uses, not users: an operation that takes v twice counts twice, and so
\* does the return of the last value.
Fanout(v) ==
  Cardinality({u \in (1 .. Len(ops)) \X {1, 2} :
                 /\ u[2] \in DOMAIN Operands(ops[u[1]])
                 /\ Operands(ops[u[1]])[u[2]] = v})
  + (IF v = Returned THEN 1 ELSE 0)

RedcLimit == P * WordSize

\* canAcceptLazy for the user o of v
Accepts(o, v) ==
  LET vMax == bound[v]
      OtherMax == LookupUmax(IF o.l = v THEN o.r ELSE o.l)
      total == (vMax + OtherMax) % Double
  IN  CASE o.op = "square" -> Goldilocks
        [] o.op = "mul" -> Goldilocks /\ ~(IsOp(o.r) /\ Def(o.r).op = "const")
        [] o.op = "add" -> IF Goldilocks THEN total < WordSize + P
                           ELSE total <= WMax
        [] o.op = "sub" ->
             IF o.l = v
             THEN (vMax + P * KpFromUmax(LookupUmax(o.r))) % Double <= WMax
             ELSE (LookupUmax(o.l) + P * KpFromUmax(vMax)) % Double <= WMax
        [] o.op = "double" -> (2 * vMax) % Double <= WMax
        [] o.op = "montmul" -> \/ vMax * OtherMax < RedcLimit
                               \/ vMax * (P - 1) < RedcLimit
        [] o.op = "montsquare" -> vMax * vMax < RedcLimit
        [] OTHER -> FALSE

\* Mutant of AllBenefit: a return accepts anything.
AllBenefitNoReturn(v) == \A k \in Users(v) : Accepts(ops[k], v)

\* Every consumer, the return included, can use the lazy value.
AllBenefit(v) == v # Returned /\ \A k \in Users(v) : Accepts(ops[k], v)

-----------------------------------------------------------------------------
\* Lowering: the patterns.  Each gives the lowered value of an operation and
\* the overflow flags its emitted operations break.

Result(v, broken) == [v |-> v, broken |-> broken]

\* The flags nuw, and nsw when two bits of the storage are unused, on an
\* addition (or a shift left by one: x + x).
AddFlags(x, y) ==
  (IF UnsignedWraps(x + y) THEN {"nuw"} ELSE {})
  \cup (IF TwoSpareBits /\ SignedWraps(x, y) THEN {"nsw"} ELSE {})

\* Mutant of PreReduce: the guard on the operand bounds is dropped.
PreReduceNever(l, r, needed, lhsEnough, rhsEnough) == <<val[l], val[r]>>

\* Which of two lazy operands an operation reduces before it runs: the left
\* one if that alone is enough, else the right one, else both.
PreReduce(l, r, needed, lhsEnough, rhsEnough) ==
  LET lKp == LookupKp(l)
      rKp == LookupKp(r)
      RedL == CanonicalFromExtended(val[l], lKp)
      RedR == CanonicalFromExtended(val[r], rKp)
  IN  CASE ~needed -> <<val[l], val[r]>>
        [] needed /\ lKp > 1 /\ lhsEnough -> <<RedL, val[r]>>
        [] needed /\ ~(lKp > 1 /\ lhsEnough) /\ rKp > 1 /\ rhsEnough ->
             <<val[l], RedR>>
        [] OTHER -> <<RedL, RedR>>

\* The full-width tail of ConvertAdd, canonical result.
AddFullWidth(x, y) == CanonicalFromOverflow(AddSum(x, y), AddCarry(x, y))

\* ConvertAdd
LowerAdd(o, v) ==
  LET lMax == LookupUmax(o.l)
      rMax == LookupUmax(o.r)
      sumMax == (lMax + rMax) % Double
      lazy == LookupKp(v) > 1
      gl64 == FullWidth /\ Goldilocks /\ lazy
      opnd == IF gl64
              THEN CASE sumMax >= WordSize + P /\ KpFromUmax(rMax) > 1 ->
                          <<val[o.l], CanonicalFromExtended(val[o.r], KpFromUmax(rMax))>>
                     [] sumMax >= WordSize + P /\ KpFromUmax(rMax) = 1 ->
                          <<CanonicalFromExtended(val[o.l], KpFromUmax(lMax)), val[o.r]>>
                     [] OTHER -> <<val[o.l], val[o.r]>>
              ELSE PreReduce(o.l, o.r, sumMax > WMax,
                             (P - 1 + rMax) % Double <= WMax,
                             (lMax + P - 1) % Double <= WMax)
      x == opnd[1].word
      y == opnd[2].word
      eps == WordSize - P
  IN  CASE gl64 -> Result(AddOp(AddI(AddSum(x, y),
                                     IF AddCarry(x, y) = 1 THEN eps ELSE 0)), {})
        [] FullWidth /\ ~gl64 -> Result(AddFullWidth(x, y), {})
        [] ~FullWidth /\ lazy -> Result(AddOp(AddI(x, y)), AddFlags(x, y))
        [] OTHER -> Result(CanonicalFromExtended(AddOp(AddI(x, y)),
                             IF sumMax > WMax THEN 2 ELSE KpFromUmax(sumMax)),
                           AddFlags(x, y))

\* ConvertDouble.  For a full-width modulus it creates an AddOp on the
\* original operand, which ConvertAdd lowers next; that op has no bound.
LowerDouble(o, v) ==
  LET inMax == LookupUmax(o.l)
      dblMax == (2 * inMax) % Double
      x == (IF dblMax > WMax THEN CanonicalFromExtended(val[o.l], KpFromUmax(inMax))
            ELSE val[o.l]).word
      opnd == PreReduce(o.l, o.l, dblMax > WMax,
                        (P - 1 + inMax) % Double <= WMax,
                        (P - 1 + inMax) % Double <= WMax)
  IN  CASE FullWidth -> Result(AddFullWidth(opnd[1].word, opnd[2].word), {})
        [] ~FullWidth /\ LookupKp(v) > 1 -> Result(Plain(AddI(x, x)), AddFlags(x, x))
        [] OTHER -> Result(CanonicalFromExtended(Plain(AddI(x, x)),
                             IF dblMax > WMax THEN 2 ELSE KpFromUmax(dblMax)),
                           AddFlags(x, x))

\* ConvertSub
LowerSub(o, v) ==
  LET lMax == LookupUmax(o.l)
      rMax == LookupUmax(o.r)
      rKp  == KpFromUmax(rMax)
      needed == (lMax + P * rKp) % Double > WMax
      lhsEnough == (P - 1 + P * rKp) % Double <= WMax
      opnd == PreReduce(o.l, o.r, needed, lhsEnough, (lMax + P) % Double <= WMax)
      \* rhsKp is reset once the right operand has been reduced
      kp == IF needed /\ ~(LookupKp(o.l) > 1 /\ lhsEnough) THEN 1 ELSE rKp
      x == opnd[1]
      y == opnd[2]
  IN  IF LookupKp(v) > 1 /\ ~FullWidth
      THEN Result(Plain(SubI(AddI(x.word, (P * kp) % WordSize), y.word)), {})
      ELSE Result(CanonicalDiff(CanonicalFromExtended(x, LookupKp(o.l)).word,
                                CanonicalFromExtended(y, kp).word), {})

\* x * R^-1: what one Montgomery reduction takes a product to
RInv == CHOOSE x \in 1 .. P - 1 : (x * WordSize) % P = 1
UnRedc(x) == (x * RInv) % P

\* montAttr.getInvTwoPowers()
TwoAdicity == CHOOSE t \in 1 .. P : (P - 1) % 2^t = 0 /\ (P - 1) % 2^(t + 1) # 0
InvTwoPower(d) == CHOOSE x \in 1 .. P - 1 : (x * 2^d) % P = 1

ByConst(o) == o.op = "mul" /\ IsOp(o.r) /\ Def(o.r).op = "const"
StdRhs(o)  == IF InMontgomeryForm[o.r] THEN UnRedc(Def(o.r).l) ELSE Def(o.r).l
Degrees(o) == {d \in 1 .. TwoAdicity : InvTwoPower(d) \in {StdRhs(o), (P - StdRhs(o)) % P}}
Shortcut(o) == ByConst(o) /\ Degrees(o) # {}
Degree(o)  == CHOOSE d \in Degrees(o) : \A e \in Degrees(o) : d <= e
Negated(o) == (P - StdRhs(o)) % P = InvTwoPower(Degree(o))

\* ConvertMul by a constant 2^-d or -2^-d: shifts instead of a product.
LowerShortcut(o) ==
  LET d == Degree(o)
      x == val[o.l].word
      halved == IF x % 2 = 1 THEN AddI(x \div 2, P \div 2 + 1) ELSE x \div 2
      k == P \div 2^TwoAdicity
      lo == x % 2^d
      loCorrected == IF lo # 0 THEN ShlI(MulI(lo, k), TwoAdicity - d) ELSE P
      minus == SubI(loCorrected, x \div 2^d)
  IN  Plain(IF d = 1 THEN IF Negated(o) THEN SubI(P, halved) ELSE halved
            ELSE IF Negated(o) THEN minus ELSE SubI(P, minus))

\* ConvertMontMul on operands l and r; lazy says whether the result may
\* stay in [0, 2p).
LowerMontMul(l, r, lazy) ==
  LET lMax == LookupUmax(l)
      rMax == LookupUmax(r)
      needed == lMax * rMax >= RedcLimit
      opnd == PreReduce(l, r, needed, (P - 1) * rMax < RedcLimit,
                        lMax * (P - 1) < RedcLimit)
      signed == SingleLimb /\ opnd[1].signed # {} /\ opnd[2].signed # {}
      sameValue == l = r /\ (~needed \/ LookupKp(l) <= 1)
      t == IF signed
           THEN (CHOOSE s \in opnd[1].signed : TRUE) * (CHOOSE s \in opnd[2].signed : TRUE)
           ELSE opnd[1].word * opnd[2].word
  IN  Reduce(t, signed /\ ~sameValue, lazy)

\* ConvertMul
LowerMul(o, v) ==
  LET x == val[o.l].word
      y == val[o.r].word
  IN  CASE Shortcut(o) -> LowerShortcut(o)
        [] ~Shortcut(o) /\ InMontgomeryForm[v] -> LowerMontMul(o.l, o.r, FALSE)
        [] ~Shortcut(o) /\ ~InMontgomeryForm[v] /\ Goldilocks ->
             SolinasReduce(x * y, LookupKp(v) >= 2)
        [] ~Shortcut(o) /\ ~InMontgomeryForm[v] /\ ~Goldilocks ->
             IF \E k \in 1 .. P : 2^k = P + 1 THEN MersenneReduce(x * y)
             ELSE IF WideModulus THEN BarrettReduce(x, y)
             ELSE Plain((x * y) % P)

\* squareExtended: a single-limb input is squared in its signed form.
Squared(x) == IF SingleLimb /\ x.signed # {}
              THEN LET s == CHOOSE s \in x.signed : TRUE IN s * s
              ELSE x.word * x.word

\* ConvertMontSquare
LowerMontSquare(l, lazy) ==
  LET inMax == LookupUmax(l)
      x == IF inMax * inMax >= RedcLimit
           THEN CanonicalFromExtended(val[l], KpFromUmax(inMax)) ELSE val[l]
  IN  Reduce(Squared(x), FALSE, lazy)

\* ConvertSquare
LowerSquare(o, v) ==
  CASE InMontgomeryForm[v] -> LowerMontSquare(o.l, FALSE)
    [] ~InMontgomeryForm[v] /\ Goldilocks -> SolinasReduce(Squared(val[o.l]), LookupKp(v) >= 2)
    [] OTHER -> Plain(Squared(val[o.l]) % P)

\* ConvertNegate
LowerNegate(o) ==
  LET x == CanonicalFromExtended(val[o.l], LookupKp(o.l)).word
  IN  Plain(IF x = 0 THEN x ELSE SubI(P, x))

\* ConvertToMont: a mont_mul by R^2, whose operands and result have no bound.
RSquared == (WordSize * WordSize) % P
LowerToMont(o) == Reduce(val[o.l].word * RSquared, FALSE, FALSE)

\* ConvertFromMont: a mont_reduce with no high word and without a bound.
LowerFromMont(o) == Reduce(val[o.l].word, FALSE, FALSE)

\* ConvertMontReduce, of the integers o.l and o.r
LowerMontReduce(o, v) == Reduce(o.l + o.r * WordSize, FALSE, LookupKp(v) >= 2)

\* The inverter has its own module; it gives 0 for what has no inverse.
TheInverse(candidates) == IF candidates = {} THEN 0 ELSE CHOOSE y \in candidates : TRUE

\* ConvertInverse and ConvertMontInverse
InverseWord(x, mont) ==
  TheInverse({y \in 1 .. P - 1 : (x * y) % P = IF mont THEN RSquared ELSE 1})
LowerInverse(o, v) ==
  Plain(InverseWord(CanonicalFromExtended(val[o.l], LookupKp(o.l)).word, InMontgomeryForm[v]))

Truth(b) == IF b THEN 1 ELSE 0
Compare(predicate, x, y) ==
  Truth(CASE predicate = "eq"  -> x = y
          [] predicate = "ne"  -> x # y
          [] predicate = "ult" -> x < y
          [] predicate = "uge" -> x >= y)

\* ConvertCmp: compares words, whichever form they are in.
LowerCmp(o) ==
  Plain(Compare(o.op, CanonicalFromExtended(val[o.l], LookupKp(o.l)).word,
                      CanonicalFromExtended(val[o.r], LookupKp(o.r)).word))

Lower(o, v) ==
  CASE o.op = "add"        -> LowerAdd(o, v)
    [] o.op = "double"     -> LowerDouble(o, v)
    [] o.op = "sub"        -> LowerSub(o, v)
    [] o.op = "mul"        -> Result(LowerMul(o, v), {})
    [] o.op = "square"     -> Result(LowerSquare(o, v), {})
    [] o.op = "montmul"    -> Result(LowerMontMul(o.l, o.r, LookupKp(v) >= 2), {})
    [] o.op = "montsquare" -> Result(LowerMontSquare(o.l, LookupKp(v) >= 2), {})
    [] o.op = "negate"     -> Result(LowerNegate(o), {})
    [] o.op = "barrettmul" -> Result(BarrettReduce(val[o.l].word, val[o.r].word), {})
    [] o.op = "tomont"     -> Result(LowerToMont(o), {})
    [] o.op = "frommont"   -> Result(LowerFromMont(o), {})
    [] o.op = "montreduce" -> Result(LowerMontReduce(o, v), {})
    [] o.op \in {"inverse", "montinverse"} -> Result(LowerInverse(o, v), {})
    [] o.op \in Predicates -> Result(LowerCmp(o), {})
    [] o.op = "bitcast"    -> Result(val[o.l], {})
    [] o.op = "const"      -> Result(Plain(o.l), {})

\* The residue the operation stands for, from the residues of its operands.
Meaning(o, v) ==
  LET Times(x, y) == IF InMontgomeryForm[v] THEN UnRedc(x * y) ELSE (x * y) % P
      One == IF InMontgomeryForm[v] THEN WordSize % P ELSE 1
  IN  CASE o.op = "add"    -> (ref[o.l] + ref[o.r]) % P
        [] o.op = "double" -> (2 * ref[o.l]) % P
        [] o.op = "sub"    -> (ref[o.l] - ref[o.r]) % P
        [] o.op \in {"mul", "barrettmul"} -> Times(ref[o.l], ref[o.r])
        [] o.op = "montmul" -> UnRedc(ref[o.l] * ref[o.r])
        [] o.op = "square" -> Times(ref[o.l], ref[o.l])
        [] o.op = "montsquare" -> UnRedc(ref[o.l] * ref[o.l])
        [] o.op = "negate" -> (-ref[o.l]) % P
        [] o.op \in {"inverse", "montinverse"} ->
             TheInverse({y \in 1 .. P - 1 : Times(ref[o.l], y) = One})
        [] o.op = "tomont"     -> (ref[o.l] * WordSize) % P
        [] o.op = "frommont"   -> UnRedc(ref[o.l])
        [] o.op = "montreduce" -> UnRedc(o.l + o.r * WordSize)
        [] o.op \in Predicates -> Compare(o.op, ref[o.l], ref[o.r])
        [] o.op = "bitcast"    -> ref[o.l]
        [] o.op = "const"      -> o.l

-----------------------------------------------------------------------------
Empty == [v \in {} |-> 0]

Init == /\ unit \in Units
        /\ phase = "build"
        /\ ops = <<>> /\ cursor = 1
        /\ bound = Empty /\ pending = {}
        /\ val = <<>> /\ ref = <<>> /\ flags = {}

\* The front end appends one more operation on values defined before it.
Emit(o) ==
  /\ phase = "build" /\ Len(ops) < MaxOps
  /\ Verified(o)
  /\ ops' = Append(ops, o)
  /\ UNCHANGED <<unit, phase, cursor, bound, pending, val, ref, flags>>

\* runOnOperation: the bound map is built only under the option.
StartPass ==
  /\ phase = "build" /\ Len(ops) > 0
  /\ phase' = IF LazyOption THEN "bounds" ELSE "clamp"
  /\ UNCHANGED <<unit, ops, cursor, bound, pending, val, ref, flags>>

\* buildBoundMap, phase 1: one operation of the forward walk.
BoundOp ==
  LET v == NArgs + cursor
      umax == ForwardUmax(Def(v), v, RangeMax)
  IN  /\ phase = "bounds" /\ cursor <= Len(ops)
      /\ bound' = IF umax # P - 1
                  THEN [x \in DOMAIN bound \cup {v} |-> IF x = v THEN umax ELSE bound[x]]
                  ELSE bound
      /\ cursor' = cursor + 1
      /\ UNCHANGED <<unit, phase, ops, pending, val, ref, flags>>

\* Phase 2 collects every value that has a bound.
CollectCandidates ==
  /\ phase = "bounds" /\ cursor > Len(ops)
  /\ phase' = "clamp"
  /\ pending' = DOMAIN bound
  /\ UNCHANGED <<unit, ops, cursor, bound, val, ref, flags>>

\* stable_sort by fanout, larger first: ties in program order
NextCandidate ==
  CHOOSE v \in pending : \A u \in pending \ {v} :
     Fanout(v) > Fanout(u) \/ (Fanout(v) = Fanout(u) /\ v < u)

\* Mutant of Erase: a bound of 2p counts as canonical.
EraseFrom3(v) == LookupKp(v) > 2 /\ ~AllBenefit(v)

Erase(v) == LookupKp(v) > 1 /\ ~AllBenefit(v)

Clamp ==
  /\ phase = "clamp" /\ pending # {}
  /\ LET v == NextCandidate
     IN  /\ bound' = IF Erase(v) THEN [x \in DOMAIN bound \ {v} |-> bound[x]] ELSE bound
         /\ pending' = pending \ {v}
  /\ UNCHANGED <<unit, phase, ops, cursor, val, ref, flags>>

\* The caller's contract: canonical arguments.
Call(args) ==
  /\ phase = "clamp" /\ pending = {}
  /\ phase' = "run"
  /\ cursor' = 1
  /\ val' = [k \in 1 .. NArgs |-> Plain(args[k])]
  /\ ref' = args
  /\ UNCHANGED <<unit, ops, bound, pending, flags>>

\* The words the emitted operations of one pattern compute.
LowerOp ==
  /\ phase = "run" /\ cursor <= Len(ops)
  /\ LET v == NArgs + cursor
         res == Lower(Def(v), v)
     IN  /\ val' = Append(val, res.v)
         /\ flags' = flags \cup res.broken
         /\ ref' = Append(ref, Meaning(Def(v), v))
  /\ cursor' = cursor + 1
  /\ UNCHANGED <<unit, phase, ops, bound, pending>>

Finished == phase = "run" /\ cursor > Len(ops)

Terminated == Finished /\ UNCHANGED vars

Next == \/ \E k \in 1 .. MaxOps : k = Len(ops) + 1 /\ \E o \in Menus[unit.menu][k] : Emit(o)
        \/ StartPass \/ BoundOp \/ CollectCandidates \/ Clamp
        \/ \E args \in [1 .. NArgs -> 0 .. P - 1] : Call(args)
        \/ LowerOp \/ Terminated

Spec == Init /\ [][Next]_vars

-----------------------------------------------------------------------------
\* Limits of the pass.  A program that exceeds one gets a bound that has
\* wrapped, trips an assertion of the pass, or meets a case its comments leave
\* open; the properties below are claims about the other programs.

\* The largest number the pass may take for x while it computes bounds.
Reach(x) == IF x \in DOMAIN bound THEN bound[x]
            ELSE IF RangeMax[x] > P - 1 THEN RangeMax[x] ELSE P - 1

\* Bounds are computed in 2w bits and never reach the last of their values.
BoundFits(o) ==
  /\ o.op = "add"    => Reach(o.l) + Reach(o.r) + 1 < Double
  /\ o.op = "double" => 2 * Reach(o.l) + 1 < Double
  /\ o.op = "sub"    => Reach(o.l) + P * KpFromUmax(Reach(o.r)) + 1 < Double

\* The range of a difference is computed in w + 1 bits.
RangeFits(o) ==
  o.op = "sub" => RangeMax[o.l] + ((RangeMax[o.r] + P) \div P) * P < 2 * WordSize

\* MontReducer::reduce asserts that a modulus with the sign bit set is reduced
\* canonically; over such a modulus at most one multiple of p is subtracted,
\* and no signed form is taken of a lazy Goldilocks value; zero times a negated
\* inverse power of two is p.
LoweringFits(o, v) ==
  /\ FullWidth /\ o.op \in {"montmul", "montsquare", "montreduce"} => LookupKp(v) <= 1
  /\ Goldilocks /\ o.op = "add" => LookupKp(o.l) <= 2 /\ LookupKp(o.r) <= 2
  /\ Goldilocks /\ InMontgomeryForm[v] =>
       /\ o.op \in {"mul", "square"} => LookupKp(o.l) <= 1
       /\ o.op = "mul" => LookupKp(o.r) <= 1
  /\ Shortcut(o) => ~Negated(o) \/ val[o.l].word # 0

Fits ==
  /\ LazyOption /\ phase # "build" => \A k \in 1 .. Len(ops) : RangeFits(ops[k])
  /\ phase = "bounds" /\ cursor <= Len(ops) => BoundFits(ops[cursor])
  /\ phase = "run" /\ cursor <= Len(ops) => LoweringFits(ops[cursor], NArgs + cursor)

\* The type invariant of the pass and of the function it runs.
TypeOK ==
  /\ unit \in Units
  /\ phase \in {"build", "bounds", "clamp", "run"}
  /\ Len(ops) <= MaxOps /\ cursor \in 1 .. MaxOps + 1
  /\ DOMAIN bound \subseteq Values /\ \A v \in DOMAIN bound : bound[v] \in 0 .. Double - 1
  /\ pending \subseteq DOMAIN bound
  /\ \A v \in DOMAIN val : val[v].word \in Word /\ ref[v] \in 0 .. P - 1
  /\ flags \subseteq {"nuw", "nsw"}

\* The word computed for a value never exceeds the bound the lowering relied
\* on: the recorded umax, or p - 1 when phase 2 erased it or phase 1 found it
\* canonical.  Every pre-reduction and every skipped reduction of the Convert
\* patterns is decided from these bounds.
BoundSound == \A v \in DOMAIN val : val[v].word <= LookupUmax(v)

\* At every step of the pass the map holds bounds of values that exist, each a
\* number of 2w bits, and what the lowering makes of them stays below them.
Bounded == TypeOK /\ BoundSound

\* A lowered value is congruent to the residue it stands for, whatever
\* reductions were skipped upstream of it and whatever form (canonical, lazy
\* or signed) its operands had.
Congruent == \A v \in DOMAIN val : val[v].word % P = ref[v]

\* ModArithTypes.td: a function return value is the canonical representative.
ReturnCanonical == Finished => val[Returned].word = ref[Returned]

\* The additions and shifts marked nuw never wrap, although their operands
\* may be lazy.
NoUnsignedWrap == "nuw" \notin flags

\* buildBoundMap visits its candidates once and claims that a second pass
\* could erase nothing more.
OnePassSuffices ==
  phase = "run" => \A v \in DOMAIN bound : LookupKp(v) > 1 => AllBenefit(v)
=============================================================================
