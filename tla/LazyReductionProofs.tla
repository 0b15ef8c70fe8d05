------------------------ MODULE LazyReductionProofs -------------------------
(***************************************************************************)
(* For every modulus, word size and program within the limits of the pass  *)
(* (Fits), the lowering of mod_arith with lazy reduction is right: values  *)
(* stay below their bounds, stand for the residues they should, and are    *)
(* canonical when they are returned.                                       *)
(*                                                                         *)
(* First comes what the lowering rests on: the program, the map of bounds  *)
(* and how phases 1 and 2 change it, the words that the emitted reductions *)
(* give.  Then each pattern by itself.  A pattern is right when, from      *)
(* operands that stand for residues (Stands: below their bounds and        *)
(* congruent), its result stands for the residue that the operation means. *)
(* The proof of the pass comes last.                                       *)
(***************************************************************************)
EXTENDS LazyReduction, ArithLemmas

\* The reducers, proved for every odd modulus below the word size.
RP == INSTANCE ReducersProofs

-----------------------------------------------------------------------------
\* The unit that is compiled.

(* What the assumption on the constants says of the unit that is compiled. *)
LEMMA UnitFacts ==
  ASSUME unit \in Units
  PROVE  /\ P \in Nat /\ P >= 3 /\ P % 2 = 1
         /\ WordSize \in Nat /\ P < WordSize
         /\ \E w \in Nat : w >= 1 /\ WordSize = 2^w
         /\ {SingleLimb, Montgomery, LazyOption, WideModulus} \subseteq BOOLEAN
         /\ NArgs \in Nat /\ NArgs >= 1
         /\ Menus[unit.menu] \in Seq(SUBSET Operations(unit))
<1>1. IsUnit(unit)
  BY UnitsAssumption
<1> QED BY <1>1, SMT DEF IsUnit, P, WordSize, SingleLimb, Montgomery, LazyOption, WideModulus, NArgs

(* The modulus of a unit is one the reducers are proved for. *)
LEMMA UnitIsModulus ==
  ASSUME unit \in Units
  PROVE  RP!IsModulus /\ RP!Invertible
<1>1. RP!IsModulus
  BY UnitFacts DEF RP!IsModulus
<1>2. RP!IsOddModulus
  BY <1>1, UnitFacts DEF RP!IsOddModulus
<1> QED BY <1>1, <1>2, RP!OddModulusInvertible

(* Numbers of one and of two words. *)
LEMMA WordFacts ==
  ASSUME unit \in Units
  PROVE  /\ WordSize >= 4 /\ WMax = WordSize - 1 /\ WMax \in Nat
         /\ Double \in Nat /\ 4 * WordSize <= Double /\ Word = 0 .. WMax
<1>1. WordSize \in Nat /\ WordSize >= 4
  BY UnitFacts
<1>2. WordSize * 4 <= WordSize * WordSize /\ WordSize * 4 = 4 * WordSize /\ WordSize * WordSize \in Nat
  BY <1>1, MulMono, SMT
<1> QED BY <1>1, <1>2 DEF WMax, Double, Word

(* kpFromUmax: how many times the modulus a bound of fewer than 2w bits is. *)
LEMMA KpFacts ==
  ASSUME unit \in Units, NEW u \in Nat, u + 1 < Double
  PROVE  /\ KpFromUmax(u) \in Nat /\ KpFromUmax(u) >= 1
         /\ u < P * KpFromUmax(u)
         /\ KpFromUmax(u) > 1 => P * (KpFromUmax(u) - 1) <= u
         /\ KpFromUmax(u) > 1 <=> u >= P
<1>1. P \in Nat /\ P >= 3 /\ Double \in Nat
  BY UnitFacts, WordFacts
<1>2. (u + 1) % Double = u + 1
  <2>1. PICK n \in Nat : n = u + 1
    OBVIOUS
  <2> QED BY <1>1, <2>1, DivSmall
<1>3. CASE u + 1 <= P
  <2>1. KpFromUmax(u) = 1
    BY <1>2, <1>3 DEF KpFromUmax
  <2> QED BY <1>1, <1>3, <2>1
<1>4. CASE u + 1 > P
  <2>1. PICK n \in Nat : n = u + 1 + P - 1
    BY <1>1
  <2>2. KpFromUmax(u) = n \div P
    BY <1>1, <1>2, <1>4, <2>1 DEF KpFromUmax
  <2>3. PICK q \in Int, r \in 0 .. P - 1 : q = n \div P /\ n = P * q + r
    BY <1>1, <2>1, DivModBasics
  <2>4. P * (q - 1) = P * q - P /\ P * q \in Int
    BY <1>1, SMT
  <2>5. q >= 2
    <3>1. SUFFICES ASSUME q <= 1 PROVE FALSE
      BY <2>3
    <3>2. P * q <= P * 1
      BY <1>1, <3>1, MulMono
    <3> QED BY <1>1, <1>4, <2>1, <2>3, <3>2
  <2> QED BY <1>1, <1>4, <2>1, <2>2, <2>3, <2>4, <2>5
<1> QED BY <1>1, <1>3, <1>4

(* A canonical value has a bound of one modulus. *)
LEMMA KpCanonical ==
  ASSUME unit \in Units
  PROVE  KpFromUmax(P - 1) = 1
<1>1. PICK u \in Nat : u = P - 1 /\ u + 1 < Double /\ ~(u >= P)
  BY UnitFacts, WordFacts, SMTT(30)
<1> QED BY <1>1, KpFacts

-----------------------------------------------------------------------------
\* The program: every operation takes values defined before it.

\* Operands are values defined before the operation that takes them.
WiredOps(n, os) ==
  \A k \in 1 .. Len(os) :
    /\ os[k].op \in Binary => os[k].l \in 1 .. n + k - 1 /\ os[k].r \in 1 .. n + k - 1
    /\ os[k].op \in Unary => os[k].l \in 1 .. n + k - 1

\* One value's form, from the forms f of the values before it.
FormStep(base, n, os, f, v) ==
  IF ~(v > n) THEN base
  ELSE LET o == os[v - n]
       IN  CASE o.op \in {"const", "montreduce"} -> base
             [] o.op = "tomont"   -> TRUE
             [] o.op = "frommont" -> FALSE
             [] o.op = "bitcast"  -> ~f[o.l]
             [] OTHER             -> f[o.l]

\* Every value's form; the choice is the fixpoint of the step.
FormOf(base, n, os) == CHOOSE m : m = [v \in 1 .. n + Len(os) |-> FormStep(base, n, os, m, v)]

(* The pass's function is that fixpoint ... *)
LEMMA FormIs == InMontgomeryForm = FormOf(Montgomery, NArgs, ops)
BY Zenon DEF InMontgomeryForm, FormOf, FormStep, Values, IsOp, Def

(* ... before and after a step. *)
LEMMA FormIsNext == InMontgomeryForm' = FormOf(Montgomery', NArgs', ops')
BY Zenon DEF InMontgomeryForm, FormOf, FormStep, Values, IsOp, Def

\* The kinds of operation.
OpTags == Binary \cup Unary \cup {"const", "montreduce"}

(* The step looks at earlier values only. *)
LEMMA FormStepLocal ==
  ASSUME NEW base, NEW n \in Nat, NEW os, Len(os) \in Nat, WiredOps(n, os),
         \A k \in 1 .. Len(os) : os[k].op \in OpTags,
         NEW v \in 1 .. n + Len(os), NEW f, NEW g, \A u \in 1 .. v - 1 : f[u] = g[u]
  PROVE  FormStep(base, n, os, f, v) = FormStep(base, n, os, g, v)
<1>1. CASE ~(v > n)
  BY <1>1 DEF FormStep
<1>2. CASE v > n
  <2>1. PICK k \in 1 .. Len(os) : k = v - n
    BY <1>2
  <2>2. os[k].op \in Unary \cup Binary => f[os[k].l] = g[os[k].l]
    BY <2>1 DEF WiredOps
  <2>3. os[k].op \in {"const", "montreduce"} \/ f[os[k].l] = g[os[k].l]
    BY <2>2 DEF OpTags
  <2> QED BY <1>2, <2>1, <2>3 DEF FormStep
<1> QED BY <1>1, <1>2

(* The recursion of modType.isMontgomery() is well founded. *)
LEMMA FormUnfolds ==
  ASSUME NEW base, NEW n \in Nat, NEW os, Len(os) \in Nat, WiredOps(n, os),
         \A k \in 1 .. Len(os) : os[k].op \in OpTags
  PROVE  \A v \in 1 .. n + Len(os) :
           FormOf(base, n, os)[v] = FormStep(base, n, os, FormOf(base, n, os), v)
<1> DEFINE N == n + Len(os)
           Is(f, m) == f = [v \in 1 .. m |-> FormStep(base, n, os, f, v)]
           Bad == {m \in Nat : m <= N /\ ~ \E f : Is(f, m)}
<1>1. N \in Nat
  OBVIOUS
<1>2. \E f : Is(f, N)
  <2> HIDE DEF Is, N
  <2>1. SUFFICES ASSUME Bad # {} PROVE FALSE
    <3>1. N \in Nat /\ N <= N
      BY <1>1
    <3>2. N \notin Bad => \E f : Is(f, N)
      BY <3>1, Zenon
    <3> QED BY <3>2
  <2>2. PICK m \in Bad : \A y \in Bad : m <= y
    <3>1. Bad \in SUBSET Nat
      OBVIOUS
    <3> HIDE DEF Bad
    <3> QED BY <2>1, <3>1, LeastNatural
  <2> USE DEF Is
  <2>3. m \in Nat /\ m <= N /\ ~ \E f : Is(f, m)
    BY <2>2
  <2>4. CASE m = 0
    <3> DEFINE g == [v \in 1 .. 0 |-> TRUE]
    <3>1. Is(g, m)
      BY <2>4
    <3> QED BY <2>3, <3>1
  <2>5. CASE m > 0
    <3>1. PICK h \in Nat : m = h + 1 /\ ~ (m <= h) /\ h <= N
      <4>1. m - 1 \in Nat /\ m = (m - 1) + 1 /\ ~ (m <= m - 1) /\ m - 1 <= N
        BY <1>1, <2>3, <2>5
      <4> QED BY <4>1
    <3>2. PICK f : Is(f, h)
      BY <2>2, <3>1
    <3> DEFINE last == FormStep(base, n, os, f, m)
               g == [v \in 1 .. m |-> IF v = m THEN last ELSE f[v]]
    <3>3. \A v \in 1 .. h : f[v] = FormStep(base, n, os, f, v)
      BY <3>2
    <3>4. \A v \in 1 .. m : g[v] = FormStep(base, n, os, g, v)
      <4> HIDE DEF last
      <4> TAKE v \in 1 .. m
      <4>1. v \in 1 .. N
        BY <1>1, <2>3
      <4>2. \A u \in 1 .. v - 1 : f[u] = g[u]
        BY <2>3
      <4>3. FormStep(base, n, os, f, v) = FormStep(base, n, os, g, v)
        <5> HIDE DEF g
        <5> QED BY <4>1, <4>2, FormStepLocal DEF N
      <4>4. CASE v = m
        <5>1. g[v] = last
          BY <4>4
        <5> HIDE DEF g
        <5> QED BY <4>3, <4>4, <5>1 DEF last
      <4>5. CASE v # m
        <5>1. v \in 1 .. h /\ g[v] = f[v]
          BY <2>3, <3>1, <4>5
        <5> HIDE DEF g
        <5> QED BY <3>3, <4>3, <5>1
      <4> QED BY <4>4, <4>5
    <3>5. Is(g, m)
      <4> HIDE DEF last
      <4>1. g = [v \in 1 .. m |-> g[v]]
        OBVIOUS
      <4> HIDE DEF g
      <4> QED BY <3>4, <4>1
    <3> QED BY <2>3, <3>5
  <2> QED BY <2>3, <2>4, <2>5
<1>3. Is(FormOf(base, n, os), N)
  <2>1. FormOf(base, n, os) = CHOOSE f : Is(f, N)
    BY Zenon DEF FormOf
  <2> HIDE DEF Is
  <2> QED BY <1>2, <2>1
<1> QED BY <1>3, Zenon

(* A longer program gives the values it shares the same forms. *)
LEMMA FormStable ==
  ASSUME NEW base, NEW n \in Nat, NEW os, Len(os) \in Nat, WiredOps(n, os),
         \A k \in 1 .. Len(os) : os[k].op \in OpTags,
         NEW more, Len(more) \in Nat, WiredOps(n, more),
         \A k \in 1 .. Len(more) : more[k].op \in OpTags,
         Len(os) <= Len(more), \A k \in 1 .. Len(os) : more[k] = os[k],
         NEW v \in 1 .. n + Len(os)
  PROVE  FormOf(base, n, more)[v] = FormOf(base, n, os)[v]
<1> DEFINE f == FormOf(base, n, os)
           g == FormOf(base, n, more)
           Bad == {u \in 1 .. n + Len(os) : f[u] # g[u]}
<1>1. SUFFICES ASSUME Bad # {} PROVE FALSE
  BY DEF Bad
<1>2. PICK u \in Bad : \A y \in Bad : u <= y
  <2>1. Bad \in SUBSET Nat
    OBVIOUS
  <2> HIDE DEF Bad
  <2> QED BY <1>1, <2>1, LeastNatural
<1>3. u \in 1 .. n + Len(os) /\ u \in 1 .. n + Len(more) /\ f[u] # g[u]
  BY <1>2
<1>4. \A y \in 1 .. u - 1 : f[y] = g[y]
  <2> TAKE y \in 1 .. u - 1
  <2>1. y \in 1 .. n + Len(os) /\ ~(u <= y)
    BY <1>3
  <2> QED BY <1>2, <2>1
<1>5. f[u] = FormStep(base, n, os, f, u)
  BY <1>3, FormUnfolds
<1>6. g[u] = FormStep(base, n, more, g, u)
  BY <1>3, FormUnfolds
<1> HIDE DEF f, g, Bad
<1>7. FormStep(base, n, more, g, u) = FormStep(base, n, os, g, u)
  <2>1. PICK l \in Nat : l = Len(os)
    OBVIOUS
  <2>2. u \in 1 .. n + l
    BY <1>3, <2>1
  <2>3. PICK m \in Nat : m = u /\ m <= n + l
    BY ONLY <2>2, n \in Nat, l \in Nat
  <2>4. CASE m > n
    <3>1. PICK j \in Nat : j = m - n /\ j \in 1 .. l
      BY ONLY <2>3, <2>4, n \in Nat, l \in Nat
    <3>2. u - n \in 1 .. Len(os)
      BY <2>3, <2>1, <3>1
    <3>3. more[u - n] = os[u - n]
      BY <3>2
    <3> QED BY <3>3, Zenon DEF FormStep
  <2>5. CASE ~(m > n)
    BY <2>3, <2>5 DEF FormStep
  <2> QED BY <2>4, <2>5
<1>8. FormStep(base, n, os, f, u) = FormStep(base, n, os, g, u)
  BY <1>3, <1>4, FormStepLocal
<1> QED BY <1>3, <1>5, <1>6, <1>7, <1>8

\* A function that the front end can have built.
Program == /\ unit \in Units
           /\ ops \in Seq(Operations(unit)) /\ Len(ops) <= MaxOps
           /\ WiredOps(NArgs, ops)

(* A constant is a residue, and a reduced number has a low and a high word. *)
LEMMA OperationFacts ==
  ASSUME NEW u, NEW o \in Operations(u)
  PROVE  /\ o.op \in OpTags
         /\ o.op = "const" => o.l \in 0 .. u.p - 1
         /\ o.op = "montreduce" => o.l \in 0 .. u.wordSize - 1 /\ o.r \in 0 .. u.p - 1
BY DEF Operations, OpTags, Binary, Unary, Predicates

(* What a built function is made of. *)
LEMMA ProgramFacts ==
  ASSUME Program
  PROVE  /\ Len(ops) \in Nat /\ DOMAIN ops = 1 .. Len(ops) /\ NArgs \in Nat /\ NArgs >= 1
         /\ \A k \in 1 .. Len(ops) :
              /\ ops[k] \in Operations(unit) /\ ops[k].op \in OpTags
              /\ ops[k].op = "const" => ops[k].l \in 0 .. P - 1
              /\ ops[k].op = "montreduce" =>
                   ops[k].l \in 0 .. WordSize - 1 /\ ops[k].r \in 0 .. P - 1
<1>1. unit \in Units /\ NArgs \in Nat /\ NArgs >= 1
  BY UnitFacts DEF Program
<1>2. ops \in Seq(Operations(unit))
  BY DEF Program
<1>3. Len(ops) \in Nat /\ DOMAIN ops = 1 .. Len(ops)
  BY <1>2
<1>4. \A k \in 1 .. Len(ops) : ops[k] \in Operations(unit)
  BY <1>2
<1> HIDE <1>2
<1> QED BY <1>1, <1>3, <1>4, OperationFacts DEF P, WordSize

\* The range of one value, from the ranges f of the values before it.
RangeStep(f, v) ==
  IF ~IsOp(v) THEN P - 1
  ELSE LET o == Def(v)
       IN  CASE o.op = "add"    -> Widen(USat(f[o.l] + f[o.r]))
             [] o.op = "sub"    -> Widen(SubRange(f[o.l], f[o.r]))
             [] o.op = "double" -> Widen(USat(2 * f[o.l]))
             [] o.op = "const"  -> Widen(o.l)
             [] o.op = "bitcast" -> f[o.l]
             [] o.op \in {"montmul", "montsquare", "montreduce"} -> 2 * P - 1
             [] OTHER           -> P - 1

(* The range of a value looks at the ranges of earlier values only. *)
LEMMA RangeStepLocal ==
  ASSUME Program, NEW v \in 1 .. NArgs + Len(ops),
         NEW f, NEW g, \A u \in 1 .. v - 1 : f[u] = g[u]
  PROVE  RangeStep(f, v) = RangeStep(g, v)
<1>1. NArgs \in Nat /\ Len(ops) \in Nat
  BY ProgramFacts
<1>2. CASE ~(v > NArgs)
  BY <1>2 DEF RangeStep, IsOp
<1>3. CASE v > NArgs
  <2>1. PICK k \in 1 .. Len(ops) : k = v - NArgs
    BY <1>1, <1>3
  <2>2. WiredOps(NArgs, ops)
    BY DEF Program
  <2>3. /\ ops[k].op \in Binary => f[ops[k].l] = g[ops[k].l] /\ f[ops[k].r] = g[ops[k].r]
        /\ ops[k].op \in Unary => f[ops[k].l] = g[ops[k].l]
    BY <1>1, <2>1, <2>2, SMTT(30) DEF WiredOps
  <2>4. PICK o : o = ops[k]
    OBVIOUS
  <2>5. /\ o.op \in {"add", "sub"} => f[o.l] = g[o.l] /\ f[o.r] = g[o.r]
        /\ o.op \in {"double", "bitcast"} => f[o.l] = g[o.l]
    BY <2>3, <2>4 DEF Binary, Unary
  <2> QED BY ONLY <1>3, <2>1, <2>4, <2>5 DEF RangeStep, IsOp, Def
<1> QED BY <1>1, <1>2, <1>3

(* The recursion of the range analysis is well founded. *)
LEMMA RangeUnfolds ==
  ASSUME Program
  PROVE  \A v \in Values : RangeMax[v] = RangeStep(RangeMax, v)
<1> DEFINE N == NArgs + Len(ops)
           Is(f, m) == f = [v \in 1 .. m |-> RangeStep(f, v)]
           Bad == {m \in Nat : m <= N /\ ~ \E f : Is(f, m)}
<1>1. N \in Nat
  BY ProgramFacts
<1>2. \E f : Is(f, N)
  <2> HIDE DEF Is, N
  <2>1. SUFFICES ASSUME Bad # {} PROVE FALSE
    <3>1. N \in Nat /\ N <= N
      BY <1>1
    <3>2. N \notin Bad => \E f : Is(f, N)
      BY <3>1, Zenon
    <3> QED BY <3>2
  <2>2. PICK m \in Bad : \A y \in Bad : m <= y
    <3>1. Bad \in SUBSET Nat
      OBVIOUS
    <3> HIDE DEF Bad
    <3> QED BY <2>1, <3>1, LeastNatural
  <2> USE DEF Is
  <2>3. m \in Nat /\ m <= N /\ ~ \E f : Is(f, m)
    BY <2>2
  <2>4. CASE m = 0
    <3> DEFINE g == [v \in 1 .. 0 |-> TRUE]
    <3>1. Is(g, m)
      BY <2>4
    <3> QED BY <2>3, <3>1
  <2>5. CASE m > 0
    <3>1. PICK h \in Nat : m = h + 1 /\ ~ (m <= h) /\ h <= N
      <4>1. m - 1 \in Nat /\ m = (m - 1) + 1 /\ ~ (m <= m - 1) /\ m - 1 <= N
        BY <1>1, <2>3, <2>5
      <4> QED BY <4>1
    <3>2. PICK f : Is(f, h)
      BY <2>2, <3>1
    <3> DEFINE last == RangeStep(f, m)
               g == [v \in 1 .. m |-> IF v = m THEN last ELSE f[v]]
    <3>3. \A v \in 1 .. h : f[v] = RangeStep(f, v)
      BY <3>2
    <3>4. \A v \in 1 .. m : g[v] = RangeStep(g, v)
      <4> HIDE DEF last
      <4> TAKE v \in 1 .. m
      <4>1. v \in 1 .. N
        BY <1>1, <2>3
      <4>2. \A u \in 1 .. v - 1 : f[u] = g[u]
        BY <2>3
      <4>3. RangeStep(f, v) = RangeStep(g, v)
        <5> HIDE DEF g
        <5> QED BY <4>1, <4>2, RangeStepLocal DEF N
      <4>4. CASE v = m
        <5>1. g[v] = last
          BY <4>4
        <5> HIDE DEF g
        <5> QED BY <4>3, <4>4, <5>1 DEF last
      <4>5. CASE v # m
        <5>1. v \in 1 .. h /\ g[v] = f[v]
          BY <2>3, <3>1, <4>5
        <5> HIDE DEF g
        <5> QED BY <3>3, <4>3, <5>1
      <4> QED BY <4>4, <4>5
    <3>5. Is(g, m)
      <4> HIDE DEF last
      <4>1. g = [v \in 1 .. m |-> g[v]]
        OBVIOUS
      <4> HIDE DEF g
      <4> QED BY <3>4, <4>1
    <3> QED BY <2>3, <3>5
  <2> QED BY <2>3, <2>4, <2>5
<1>3. Is(RangeMax, N)
  <2>1. RangeMax = CHOOSE f : Is(f, N)
    BY Zenon DEF RangeMax, RangeStep, Values
  <2> HIDE DEF Is
  <2> QED BY <1>2, <2>1
<1> QED BY <1>3, Zenon DEF Values

(* Range arithmetic saturates at the largest word and is sound below it. *)
LEMMA SaturationFacts ==
  ASSUME unit \in Units
  PROVE  /\ \A x \in Nat : Widen(x) \in Nat /\ x <= Widen(x) /\ (x <= WMax => Widen(x) <= WMax)
         /\ \A x \in Nat : USat(x) \in Nat /\ USat(x) <= WMax /\ (x <= USat(x) \/ USat(x) = WMax)
         /\ \A l, r \in Nat : SubRange(l, r) \in Nat /\ SubRange(l, r) <= WMax
<1>1. P \in Nat /\ P >= 3 /\ WordSize \in Nat /\ WMax = WordSize - 1 /\ WMax >= 3
  BY UnitFacts, WordFacts
<1>2. \A x \in Nat : Widen(x) \in Nat /\ x <= Widen(x) /\ (x <= WMax => Widen(x) <= WMax)
  BY <1>1 DEF Widen
<1>3. \A x \in Nat : USat(x) \in Nat /\ USat(x) <= WMax /\ (x <= USat(x) \/ USat(x) = WMax)
  BY <1>1 DEF USat
<1>4. ASSUME NEW l \in Nat, NEW r \in Nat PROVE SubRange(l, r) \in Nat /\ SubRange(l, r) <= WMax
  <2>1. PICK n \in Nat : n = r + P
    BY <1>1
  <2>2. PICK p \in Nat : p = P /\ p > 0
    BY <1>1
  <2>3. PICK q \in Int : q = n \div p
    BY <2>1, <2>2, DivModBasics
  <2>4. PICK s \in Int : s = l + q * p
    BY <2>2, <2>3
  <2>5. PICK m \in Nat : m = 2 * WordSize /\ m > 0
    BY <1>1
  <2>6. PICK t \in Nat : t = s % m
    BY <2>4, <2>5, DivModBasics
  <2>7. SubRange(l, r) = USat(t)
    BY <2>1, <2>2, <2>3, <2>4, <2>5, <2>6 DEF SubRange
  <2> QED BY <1>3, <2>7
<1> QED BY <1>2, <1>3, <1>4

(* A range end grows past the largest word by less than twice the modulus    *)
(* ...                                                                       *)
LEMMA RangeStepBounds ==
  ASSUME Program, NEW f, NEW v \in Values,
         \A u \in 1 .. v - 1 : f[u] \in Nat /\ f[u] <= 2 * P + WMax
  PROVE  RangeStep(f, v) \in Nat /\ RangeStep(f, v) <= 2 * P + WMax
<1>1. /\ NArgs \in Nat /\ Len(ops) \in Nat /\ Values = 1 .. NArgs + Len(ops)
      /\ P \in Nat /\ P >= 3 /\ WMax \in Nat /\ P <= WMax /\ unit \in Units
  BY ProgramFacts, UnitFacts, WordFacts DEF Values, Program
<1>2. /\ \A x \in Nat : Widen(x) \in Nat /\ x <= Widen(x) /\ (x <= WMax => Widen(x) <= WMax)
      /\ \A x \in Nat : USat(x) \in Nat /\ USat(x) <= WMax
      /\ \A x, z \in Nat : SubRange(x, z) \in Nat /\ SubRange(x, z) <= WMax
  BY <1>1, SaturationFacts
<1>3. CASE ~(v > NArgs)
  BY <1>1, <1>3 DEF RangeStep, IsOp
<1>4. CASE v > NArgs
  <2>1. PICK k \in 1 .. Len(ops) : k = v - NArgs
    BY <1>1, <1>4
  <2>2. PICK o : o = ops[k]
    OBVIOUS
  <2>3. o.op = "const" => o.l \in 0 .. P - 1
    BY <2>2, ProgramFacts
  <2>4. /\ o.op \in {"add", "sub"} => o.l \in 1 .. v - 1 /\ o.r \in 1 .. v - 1
        /\ o.op \in {"double", "bitcast"} => o.l \in 1 .. v - 1
    BY <1>1, <2>1, <2>2 DEF Program, WiredOps, Binary, Unary
  <2>5. PICK y : y = RangeStep(f, v)
    OBVIOUS
  <2>6. CASE o.op = "add"
    <3>1. f[o.l] + f[o.r] \in Nat
      BY <2>4, <2>6, SMTT(30)
    <3>2. y = Widen(USat(f[o.l] + f[o.r]))
      BY <1>4, <2>1, <2>2, <2>5, <2>6 DEF RangeStep, IsOp, Def
    <3>3. y \in Nat /\ y <= WMax
      BY <1>2, <3>1, <3>2
    <3> QED BY <1>1, <2>5, <3>3
  <2>7. CASE o.op = "sub"
    <3>1. f[o.l] \in Nat /\ f[o.r] \in Nat
      BY <2>4, <2>7
    <3>2. y = Widen(SubRange(f[o.l], f[o.r]))
      BY <1>4, <2>1, <2>2, <2>5, <2>7 DEF RangeStep, IsOp, Def
    <3>3. y \in Nat /\ y <= WMax
      BY <1>2, <3>1, <3>2
    <3> QED BY <1>1, <2>5, <3>3
  <2>8. CASE o.op = "double"
    <3>1. 2 * f[o.l] \in Nat
      BY <2>4, <2>8
    <3>2. y = Widen(USat(2 * f[o.l]))
      BY <1>4, <2>1, <2>2, <2>5, <2>8 DEF RangeStep, IsOp, Def
    <3>3. y \in Nat /\ y <= WMax
      BY <1>2, <3>1, <3>2
    <3> QED BY <1>1, <2>5, <3>3
  <2>9. CASE o.op = "const"
    <3>1. y = Widen(o.l)
      BY <1>4, <2>1, <2>2, <2>5, <2>9 DEF RangeStep, IsOp, Def
    <3>2. o.l \in Nat /\ o.l <= WMax
      BY <1>1, <2>3, <2>9
    <3>3. y \in Nat /\ y <= WMax
      BY <1>2, <3>1, <3>2
    <3> QED BY <1>1, <2>5, <3>3
  <2>10. CASE o.op = "bitcast"
    <3>1. y = f[o.l]
      BY <1>4, <2>1, <2>2, <2>5, <2>10 DEF RangeStep, IsOp, Def
    <3> QED BY <2>4, <2>5, <2>10, <3>1
  <2>11. CASE o.op \notin {"add", "sub", "double", "const", "bitcast"}
    <3>1. y = 2 * P - 1 \/ y = P - 1
      BY <1>4, <2>1, <2>2, <2>5, <2>11 DEF RangeStep, IsOp, Def
    <3> QED BY <1>1, <2>5, <3>1
  <2> QED BY <2>6, <2>7, <2>8, <2>9, <2>10, <2>11
<1> QED BY <1>1, <1>3, <1>4 DEF Values

(* ... so every range end is a number of that size. *)
LEMMA RangeBounds ==
  ASSUME Program, NEW v \in Values
  PROVE  RangeMax[v] \in Nat /\ RangeMax[v] <= 2 * P + WMax
<1> DEFINE Good(u) == RangeMax[u] \in Nat /\ RangeMax[u] <= 2 * P + WMax
           Bad == {u \in Values : ~Good(u)}
<1>1. SUFFICES ASSUME Bad # {} PROVE FALSE
  OBVIOUS
<1>2. NArgs \in Nat /\ Len(ops) \in Nat /\ Values = 1 .. NArgs + Len(ops)
  BY ProgramFacts DEF Values
<1>3. PICK u \in Bad : \A y \in Bad : u <= y
  <2>1. Bad \in SUBSET Nat
    BY <1>2
  <2> HIDE DEF Bad
  <2> QED BY <1>1, <2>1, LeastNatural
<1>4. u \in Values /\ ~Good(u)
  BY <1>3
<1>5. \A y \in 1 .. u - 1 : Good(y)
  <2> TAKE y \in 1 .. u - 1
  <2>1. y \in Values /\ ~(u <= y)
    BY <1>2, <1>4
  <2> HIDE DEF Good
  <2> QED BY <1>3, <2>1
<1>6. RangeMax[u] = RangeStep(RangeMax, u)
  BY <1>4, RangeUnfolds
<1>7. RangeStep(RangeMax, u) \in Nat /\ RangeStep(RangeMax, u) <= 2 * P + WMax
  <2>1. PICK f : f = RangeMax
    OBVIOUS
  <2>2. \A y \in 1 .. u - 1 : f[y] \in Nat /\ f[y] <= 2 * P + WMax
    BY <1>5, <2>1
  <2> HIDE DEF Bad, Good
  <2> QED BY <1>4, <2>1, <2>2, RangeStepBounds
<1> QED BY <1>4, <1>6, <1>7

-----------------------------------------------------------------------------
\* The bounds, as facts about a map b.

\* lookupUmax and lookupKp in the map b.
UmaxIn(b, x) == IF x \in DOMAIN b THEN b[x] ELSE P - 1
KpIn(b, x) == KpFromUmax(UmaxIn(b, x))

\* What the words of x are known to stay below when b says nothing of x.
Floor(x) == IF RangeMax[x] > P - 1 THEN P - 1 ELSE RangeMax[x]

\* u is what phase 1 took for x, or x has been erased since.
Source(b, x, u) == u \in Nat /\ u + 1 < Double
                   /\ (x \in DOMAIN b => u = b[x]) /\ (x \notin DOMAIN b => u >= Floor(x))

\* Where the bound of v comes from: the operation that defines v and the
\* numbers phase 1 took for its operands.
BoundFrom(b, v) ==
  LET o == Def(v)
  IN  \/ o.op \in {"add", "mul", "square"} /\ Goldilocks /\ b[v] = WMax
      \/ /\ o.op = "add" /\ ~Goldilocks
         /\ \E s, t \in Nat : Source(b, o.l, s) /\ Source(b, o.r, t) /\ b[v] = s + t
      \/ o.op = "double" /\ \E s \in Nat : Source(b, o.l, s) /\ b[v] = 2 * s
      \/ /\ o.op = "sub" /\ b[v] <= WMax
         /\ \E s, t \in Nat : Source(b, o.l, s) /\ Source(b, o.r, t)
                              /\ b[v] = s + P * KpFromUmax(t)
      \/ o.op \in {"montmul", "montsquare", "montreduce"} /\ b[v] = 2 * P - 1
      \/ o.op = "const" /\ b[v] = RangeMax[v]

\* The sums the lowering forms of bounds stay below 2^2w.
NoWrap(b, o) ==
  /\ o.op = "add" => UmaxIn(b, o.l) + UmaxIn(b, o.r) + 1 < Double
  /\ o.op = "double" => 2 * UmaxIn(b, o.l) + 1 < Double
  /\ o.op = "sub" => UmaxIn(b, o.l) + P * KpIn(b, o.r) + 1 < Double

\* The map after the forward walk has visited n operations.
MapOK(b, n) ==
  /\ DOMAIN b \subseteq NArgs + 1 .. NArgs + n
  /\ \A v \in DOMAIN b : b[v] \in Nat /\ b[v] + 1 < Double /\ BoundFrom(b, v)
  /\ \A k \in 1 .. n : NoWrap(b, ops[k])

\* canAcceptLazy without the wrap at 2^2w
Takes(b, o, v) ==
  CASE o.op = "square" -> Goldilocks
    [] o.op = "mul" -> Goldilocks /\ ~(IsOp(o.r) /\ Def(o.r).op = "const")
    [] o.op = "add" -> UmaxIn(b, o.l) + UmaxIn(b, o.r) <= (IF Goldilocks THEN WMax + P ELSE WMax)
    [] o.op = "sub" -> UmaxIn(b, o.l) + P * KpIn(b, o.r) <= WMax
    [] o.op = "double" -> 2 * UmaxIn(b, o.l) <= WMax
    [] o.op = "montmul" -> \/ b[v] * UmaxIn(b, IF o.l = v THEN o.r ELSE o.l) < RedcLimit
                           \/ b[v] * (P - 1) < RedcLimit
    [] o.op = "montsquare" -> b[v] * b[v] < RedcLimit
    [] OTHER -> FALSE

\* allBenefit in the map b.
Benefits(b, v) == v # Returned /\ \A k \in Users(v) : Takes(b, ops[k], v)

\* Every lazy value but those of S is one that all consumers can use.
Settled(b, S) == \A v \in DOMAIN b \ S : KpIn(b, v) > 1 => Benefits(b, v)

(* The bound of a value is a number of 2w bits, and a value with one         *)
(* multiple of p is canonical.                                               *)
LEMMA UmaxFacts ==
  ASSUME unit \in Units, NEW b, \A v \in DOMAIN b : b[v] \in Nat /\ b[v] + 1 < Double, NEW x
  PROVE  /\ UmaxIn(b, x) \in Nat /\ UmaxIn(b, x) + 1 < Double
         /\ KpIn(b, x) \in Nat /\ KpIn(b, x) >= 1
         /\ KpIn(b, x) > 1 <=> UmaxIn(b, x) >= P
<1>1. UmaxIn(b, x) \in Nat /\ UmaxIn(b, x) + 1 < Double
  BY UnitFacts, WordFacts, SMTT(30) DEF UmaxIn
<1>2. PICK u \in Nat : u = UmaxIn(b, x) /\ u + 1 < Double
  BY <1>1
<1> QED BY <1>2, KpFacts DEF KpIn

\* The map without the value w.
Without(b, w) == [x \in DOMAIN b \ {w} |-> b[x]]

(* To erase a lazy bound lowers the bound of that value and of no other. *)
LEMMA WithoutLowers ==
  ASSUME unit \in Units, NEW b, \A v \in DOMAIN b : b[v] \in Nat /\ b[v] + 1 < Double,
         NEW w \in DOMAIN b, KpIn(b, w) > 1, NEW x
  PROVE  /\ UmaxIn(Without(b, w), x) \in Nat /\ UmaxIn(Without(b, w), x) <= UmaxIn(b, x)
         /\ KpIn(Without(b, w), x) \in Nat /\ KpIn(Without(b, w), x) >= 1
         /\ KpIn(Without(b, w), x) <= KpIn(b, x)
<1>1. P \in Nat /\ P >= 3
  BY UnitFacts
<1>2. CASE x = w
  <2>1. UmaxIn(Without(b, w), x) = P - 1
    BY <1>2 DEF UmaxIn, Without
  <2>2. KpIn(Without(b, w), x) = 1
    BY <2>1, KpCanonical DEF KpIn
  <2>3. UmaxIn(b, w) \in Nat /\ UmaxIn(b, w) >= P /\ KpIn(b, w) \in Nat
    BY UmaxFacts
  <2> QED BY <1>1, <1>2, <2>1, <2>2, <2>3
<1>3. CASE x # w
  <2>1. UmaxIn(Without(b, w), x) = UmaxIn(b, x)
    BY <1>3 DEF UmaxIn, Without
  <2> QED BY <2>1, UmaxFacts DEF KpIn
<1> QED BY <1>2, <1>3

(* A number phase 1 took for an operand is still no less than what the       *)
(* operand reaches after a bound is erased.                                  *)
LEMMA WithoutSource ==
  ASSUME unit \in Units, NEW b, \A v \in DOMAIN b : b[v] \in Nat /\ b[v] + 1 < Double,
         NEW w \in DOMAIN b, KpIn(b, w) > 1, NEW x, NEW u, Source(b, x, u), RangeMax[x] \in Nat
  PROVE  Source(Without(b, w), x, u)
<1>1. P \in Nat /\ P >= 3
  BY UnitFacts
<1>2. CASE x = w
  <2>1. UmaxIn(b, w) >= P /\ UmaxIn(b, w) = b[w] /\ b[w] \in Nat
    BY UmaxFacts DEF UmaxIn
  <2> QED BY <1>1, <1>2, <2>1 DEF Source, Without, Floor
<1>3. CASE x # w
  BY <1>3 DEF Source, Without
<1> QED BY <1>2, <1>3

(* Multiples of p grow with the multiplier. *)
LEMMA MultiplesGrow ==
  ASSUME unit \in Units, NEW s \in Nat, NEW t \in Nat, s <= t
  PROVE  P * s \in Nat /\ P * t \in Nat /\ P * s <= P * t
<1>1. PICK p \in Nat : p = P
  BY UnitFacts
<1>2. p * s \in Nat /\ p * t \in Nat /\ p * s <= p * t
  BY MulMono
<1> QED BY <1>1, <1>2

(* To erase a bound makes no computation of bounds wrap. *)
LEMMA WithoutNoWrap ==
  ASSUME unit \in Units, NEW b, \A v \in DOMAIN b : b[v] \in Nat /\ b[v] + 1 < Double,
         NEW w \in DOMAIN b, KpIn(b, w) > 1, NEW o, NoWrap(b, o)
  PROVE  NoWrap(Without(b, w), o)
<1>1. Double \in Nat
  BY WordFacts
<1>2. PICK s \in Nat, t \in Nat : /\ s = UmaxIn(Without(b, w), o.l) /\ t = UmaxIn(b, o.l) /\ s <= t
  BY WithoutLowers, UmaxFacts
<1>3. PICK x \in Nat, y \in Nat : /\ x = UmaxIn(Without(b, w), o.r) /\ y = UmaxIn(b, o.r) /\ x <= y
  BY WithoutLowers, UmaxFacts
<1>4. PICK i \in Nat, j \in Nat : /\ i = KpIn(Without(b, w), o.r) /\ j = KpIn(b, o.r) /\ i <= j
  BY WithoutLowers, UmaxFacts
<1>5. P * i \in Nat /\ P * j \in Nat /\ P * i <= P * j
  BY <1>4, MultiplesGrow
<1> QED BY <1>1, <1>2, <1>3, <1>4, <1>5 DEF NoWrap

(* An operation that can use a lazy operand still can after the bound of     *)
(* another value is erased: what it compares only gets smaller.              *)
LEMMA WithoutTakes ==
  ASSUME unit \in Units, NEW b, \A v \in DOMAIN b : b[v] \in Nat /\ b[v] + 1 < Double,
         NEW w \in DOMAIN b, KpIn(b, w) > 1, NEW o, NEW v \in DOMAIN b \ {w}, Takes(b, o, v)
  PROVE  Takes(Without(b, w), o, v)
<1> DEFINE c == Without(b, w)
<1>1. WMax \in Nat /\ P \in Nat /\ WordSize \in Nat
  BY UnitFacts, WordFacts
<1>2. PICK s \in Nat, t \in Nat : /\ s = UmaxIn(c, o.l) /\ t = UmaxIn(b, o.l) /\ s <= t
  BY WithoutLowers, UmaxFacts
<1>3. PICK x \in Nat, y \in Nat : /\ x = UmaxIn(c, o.r) /\ y = UmaxIn(b, o.r) /\ x <= y
  BY WithoutLowers, UmaxFacts
<1>4. PICK i \in Nat, j \in Nat : /\ i = KpIn(c, o.r) /\ j = KpIn(b, o.r) /\ i <= j
  BY WithoutLowers, UmaxFacts
<1>5. P * i \in Nat /\ P * j \in Nat /\ P * i <= P * j
  BY <1>4, MultiplesGrow
<1>6. c[v] = b[v] /\ b[v] \in Nat
  BY DEF Without
<1> HIDE DEF c
<1>7. CASE o.op = "add"
  BY <1>1, <1>2, <1>3, <1>7 DEF Takes, c
<1>8. CASE o.op = "sub"
  <2>1. t + P * j <= WMax
    BY <1>2, <1>4, <1>8 DEF Takes
  <2>2. s + P * i <= WMax
    BY <1>1, <1>2, <1>5, <2>1
  <2> QED BY <1>2, <1>4, <1>8, <2>2 DEF Takes, c
<1>9. CASE o.op = "double"
  BY <1>1, <1>2, <1>9 DEF Takes, c
<1>10. CASE o.op = "montmul"
  <2>1. PICK other : other = IF o.l = v THEN o.r ELSE o.l
    OBVIOUS
  <2>2. PICK m \in Nat, n \in Nat : m = UmaxIn(c, other) /\ n = UmaxIn(b, other) /\ m <= n
    BY WithoutLowers, UmaxFacts DEF c
  <2>3. PICK z \in Nat : z = b[v]
    BY <1>6
  <2>4. z * m <= z * n /\ z * m \in Nat /\ z * n \in Nat
    BY <2>2, MulMono
  <2>5. z * n < RedcLimit \/ z * (P - 1) < RedcLimit
    BY <1>10, <2>1, <2>2, <2>3 DEF Takes
  <2>6. RedcLimit \in Nat
    BY <1>1 DEF RedcLimit
  <2>7. z * m < RedcLimit \/ z * (P - 1) < RedcLimit
    BY <2>6, <2>4, <2>5
  <2> QED BY <1>6, <1>10, <2>1, <2>2, <2>3, <2>7 DEF Takes, c
<1>11. CASE o.op = "montsquare"
  BY <1>6, <1>11 DEF Takes, c
<1>12. CASE o.op \notin {"add", "sub", "double", "montmul", "montsquare"}
  BY <1>12 DEF Takes
<1> QED BY <1>7, <1>8, <1>9, <1>10, <1>11, <1>12

(* The operands of an operation are earlier values. *)
LEMMA OperandsExist ==
  ASSUME Program, NEW v \in Values, v > NArgs
  PROVE  /\ Def(v) = ops[v - NArgs] /\ v - NArgs \in 1 .. Len(ops)
         /\ Def(v).op \in OpTags
         /\ Def(v).op \in Binary => /\ Def(v).l \in 1 .. v - 1 /\ Def(v).r \in 1 .. v - 1
                                    /\ Def(v).l \in Values /\ Def(v).r \in Values
         /\ Def(v).op \in Unary => Def(v).l \in 1 .. v - 1 /\ Def(v).l \in Values
<1>1. NArgs \in Nat /\ Len(ops) \in Nat
  BY ProgramFacts
<1>2. PICK k \in 1 .. Len(ops) : k = v - NArgs
  BY <1>1 DEF Values
<1>3. WiredOps(NArgs, ops)
  BY DEF Program
<1> QED BY <1>1, <1>2, <1>3, ProgramFacts DEF Def, WiredOps, Values

(* Erasing a bound keeps the map well formed. *)
LEMMA WithoutMapOK ==
  ASSUME Program, NEW n \in 0 .. Len(ops), NEW b, MapOK(b, n), NEW w \in DOMAIN b, KpIn(b, w) > 1
  PROVE  MapOK(Without(b, w), n)
<1> DEFINE c == Without(b, w)
<1>1. unit \in Units /\ NArgs \in Nat /\ Len(ops) \in Nat
  BY ProgramFacts DEF Program
<1>2. DOMAIN c = DOMAIN b \ {w} /\ \A v \in DOMAIN c : c[v] = b[v]
  BY DEF Without
<1>3. \A v \in DOMAIN b : b[v] \in Nat /\ b[v] + 1 < Double
  BY DEF MapOK
<1>4. \A k \in 1 .. n : NoWrap(c, ops[k])
  <2> TAKE k \in 1 .. n
  <2>1. NoWrap(b, ops[k])
    BY DEF MapOK
  <2> QED BY <1>1, <1>3, <2>1, WithoutNoWrap
<1>5. ASSUME NEW v \in DOMAIN c
      PROVE  BoundFrom(c, v)
  <2>1. BoundFrom(b, v) /\ c[v] = b[v]
    BY <1>2 DEF MapOK
  <2>2. v \in Values /\ v > NArgs
    BY <1>1, <1>2 DEF MapOK, Values
  <2>3. /\ Def(v).op \in {"add", "sub"} => RangeMax[Def(v).l] \in Nat /\ RangeMax[Def(v).r] \in Nat
        /\ Def(v).op = "double" => RangeMax[Def(v).l] \in Nat
    BY <2>2, OperandsExist, RangeBounds DEF Binary, Unary
  <2>4. \A x, u : Source(b, x, u) /\ RangeMax[x] \in Nat => Source(c, x, u)
    BY <1>1, <1>3, WithoutSource
  <2> HIDE DEF c
  <2> QED BY <2>1, <2>3, <2>4 DEF BoundFrom
<1> HIDE DEF c
<1>6. MapOK(c, n)
  BY <1>2, <1>3, <1>4, <1>5 DEF MapOK
<1> QED BY <1>6 DEF c

\* What phase 1 takes for an operand x.
Taken(x) == IF x \in DOMAIN bound THEN bound[x] ELSE RangeMax[x]

(* A number below the last of 2w bits is not cut. *)
LEMMA BoundKept ==
  ASSUME unit \in Units, NEW n \in Nat, n + 1 < Double
  PROVE  n % Double = n
<1>1. PICK d \in Nat : d = Double /\ n < d
  BY WordFacts
<1>2. n % d = n
  BY <1>1, DivSmall
<1> QED BY <1>1, <1>2

(* What phase 1 takes for an operand, and what the lowering will look up,    *)
(* are both within the reach the limits speak of.                            *)
LEMMA TakenFacts ==
  ASSUME Program, NEW n, MapOK(bound, n), NEW x \in Values
  PROVE  /\ Taken(x) \in Nat /\ Source(bound, x, Taken(x)) /\ Taken(x) <= Reach(x)
         /\ UmaxIn(bound, x) \in Nat /\ UmaxIn(bound, x) <= Reach(x)
         /\ Reach(x) \in Nat /\ Reach(x) + 1 < Double
         /\ KpFromUmax(Reach(x)) \in Nat /\ KpIn(bound, x) \in Nat
         /\ KpIn(bound, x) <= KpFromUmax(Reach(x))
         /\ KpFromUmax(Taken(x)) \in Nat /\ KpFromUmax(Taken(x)) <= KpFromUmax(Reach(x))
<1>1. unit \in Units
  BY DEF Program
<1>2. P \in Nat /\ P >= 3 /\ P < WordSize /\ WordSize \in Nat /\ WMax = WordSize - 1
      /\ 4 * WordSize <= Double /\ Double \in Nat
  BY <1>1, UnitFacts, WordFacts
<1>3. PICK m \in Nat : m = RangeMax[x] /\ m + 1 < Double
  BY <1>2, RangeBounds
<1>4. KpFromUmax(P - 1) = 1
  BY <1>1, KpCanonical
<1>5. CASE x \in DOMAIN bound
  <2>1. PICK u \in Nat : u = bound[x] /\ u + 1 < Double
    BY <1>5 DEF MapOK
  <2>2. Taken(x) = u /\ UmaxIn(bound, x) = u /\ Reach(x) = u
    BY <1>5, <2>1 DEF Taken, UmaxIn, Reach
  <2>3. KpFromUmax(u) \in Nat /\ KpFromUmax(u) <= KpFromUmax(u)
    BY <1>1, <2>1, KpFacts
  <2>4. Source(bound, x, u)
    BY <1>5, <2>1 DEF Source
  <2> QED BY <2>1, <2>2, <2>3, <2>4 DEF KpIn
<1>6. CASE x \notin DOMAIN bound
  <2>1. Taken(x) = m /\ UmaxIn(bound, x) = P - 1 /\ Reach(x) = IF m > P - 1 THEN m ELSE P - 1
    BY <1>3, <1>6 DEF Taken, UmaxIn, Reach
  <2>2. PICK u \in Nat : u = Reach(x) /\ u + 1 < Double /\ m <= u /\ P - 1 <= u
    BY <1>2, <1>3, <2>1
  <2>3. /\ KpFromUmax(u) \in Nat /\ KpFromUmax(u) >= 1
        /\ KpFromUmax(m) \in Nat /\ KpFromUmax(m) >= 1
        /\ KpFromUmax(m) > 1 <=> m >= P
    BY <1>1, <1>3, <2>2, KpFacts
  <2>4. KpFromUmax(m) <= KpFromUmax(u)
    <3>1. CASE m > P - 1
      BY <2>1, <2>2, <2>3, <3>1
    <3>2. CASE ~(m > P - 1)
      BY <1>2, <1>3, <2>3, <3>2
    <3> QED BY <3>1, <3>2
  <2>5. Source(bound, x, m)
    BY <1>2, <1>3, <1>6 DEF Source, Floor
  <2> QED BY <1>2, <1>3, <1>4, <2>1, <2>2, <2>3, <2>4, <2>5 DEF KpIn
<1> QED BY <1>5, <1>6

(* Within the limits the bounds of an operation do not wrap. *)
LEMMA FitsNoWrap ==
  ASSUME Program, NEW k \in 1 .. Len(ops), MapOK(bound, k - 1), BoundFits(ops[k])
  PROVE  NoWrap(bound, ops[k])
<1>1. Double \in Nat /\ unit \in Units
  BY WordFacts DEF Program
<1>2. NArgs \in Nat /\ Len(ops) \in Nat /\ NArgs + k \in Values /\ NArgs + k > NArgs
  BY ProgramFacts DEF Values
<1>3. PICK o : o = ops[k] /\ o = Def(NArgs + k)
  BY <1>2, OperandsExist
<1>4. /\ o.op \in {"add", "sub"} => o.l \in Values /\ o.r \in Values
      /\ o.op = "double" => o.l \in Values
  BY <1>2, <1>3, OperandsExist DEF Binary, Unary
<1>5. ASSUME NEW x \in Values
      PROVE  \E s, t, i, j \in Nat : /\ s = UmaxIn(bound, x) /\ t = Reach(x) /\ s <= t
                                     /\ i = KpIn(bound, x) /\ j = KpFromUmax(Reach(x)) /\ i <= j
  BY TakenFacts
<1>6. CASE o.op = "add"
  <2>1. PICK s, t \in Nat : s = UmaxIn(bound, o.l) /\ t = Reach(o.l) /\ s <= t
    BY <1>4, <1>5, <1>6
  <2>2. PICK x, y \in Nat : x = UmaxIn(bound, o.r) /\ y = Reach(o.r) /\ x <= y
    BY <1>4, <1>5, <1>6
  <2>3. t + y + 1 < Double
    BY <1>3, <1>6, <2>1, <2>2 DEF BoundFits
  <2>4. s + x + 1 < Double
    <3>1. PICK D \in Nat : D = Double
      BY <1>1
    <3>2. s <= t /\ x <= y /\ t + y + 1 < D
      BY <2>1, <2>2, <2>3, <3>1
    <3>3. s + x + 1 < D
      BY ONLY <3>2, D \in Nat, s \in Nat, t \in Nat, x \in Nat, y \in Nat
    <3> QED BY ONLY <3>1, <3>3
  <2> QED BY <1>3, <1>6, <2>1, <2>2, <2>4 DEF NoWrap
<1>7. CASE o.op = "double"
  <2>1. PICK s, t \in Nat : s = UmaxIn(bound, o.l) /\ t = Reach(o.l) /\ s <= t
    BY <1>4, <1>5, <1>7
  <2>2. 2 * t + 1 < Double
    BY <1>3, <1>7, <2>1 DEF BoundFits
  <2> QED BY <1>1, <1>3, <1>7, <2>1, <2>2 DEF NoWrap
<1>8. CASE o.op = "sub"
  <2>1. PICK s, t \in Nat : s = UmaxIn(bound, o.l) /\ t = Reach(o.l) /\ s <= t
    BY <1>4, <1>5, <1>8
  <2>2. PICK i, j \in Nat : i = KpIn(bound, o.r) /\ j = KpFromUmax(Reach(o.r)) /\ i <= j
    BY <1>4, <1>5, <1>8
  <2>3. P * i \in Nat /\ P * j \in Nat /\ P * i <= P * j
    BY <1>1, <2>2, MultiplesGrow
  <2>4. t + P * j + 1 < Double
    BY <1>3, <1>8, <2>1, <2>2 DEF BoundFits
  <2>5. s + P * i + 1 < Double
    <3>1. PICK D \in Nat : D = Double
      BY <1>1
    <3>2. PICK a \in Nat : a = P * i
      BY <2>3
    <3>3. PICK b \in Nat : b = P * j
      BY <2>3
    <3>4. s <= t /\ a <= b /\ t + b + 1 < D
      BY <2>1, <2>3, <2>4, <3>1, <3>2, <3>3
    <3>5. s + a + 1 < D
      BY ONLY <3>4, D \in Nat, s \in Nat, t \in Nat, a \in Nat, b \in Nat
    <3> QED BY ONLY <3>1, <3>2, <3>5
  <2> QED BY <1>3, <1>8, <2>1, <2>2, <2>5 DEF NoWrap
<1>9. CASE o.op \notin {"add", "double", "sub"}
  BY <1>3, <1>9 DEF NoWrap
<1> QED BY <1>6, <1>7, <1>8, <1>9

\* The map with a bound u for the value v.
With(b, v, u) == [x \in DOMAIN b \cup {v} |-> IF x = v THEN u ELSE b[x]]

(* ForwardUmax, as phase 1 of buildBoundMap meets it. *)
LEMMA ForwardFacts ==
  ASSUME Program, NEW k \in 1 .. Len(ops), MapOK(bound, k - 1), BoundFits(ops[k]),
         NEW v, v = NArgs + k, NEW u, u = ForwardUmax(Def(v), v, RangeMax), u # P - 1
  PROVE  /\ u \in Nat /\ u + 1 < Double
         /\ BoundFrom(With(bound, v, u), v)
<1> DEFINE c == With(bound, v, u)
<1>1. /\ unit \in Units /\ Double \in Nat /\ WMax \in Nat /\ WMax + 1 < Double
      /\ P \in Nat /\ P >= 3 /\ 2 * P - 1 \in Nat /\ 2 * P < Double
  <2>1. unit \in Units
    BY DEF Program
  <2>2. P \in Nat /\ P >= 3 /\ P < WordSize /\ WordSize \in Nat
    BY <2>1, UnitFacts
  <2>3. WMax = WordSize - 1 /\ Double \in Nat /\ 4 * WordSize <= Double
    BY <2>1, WordFacts
  <2> QED BY <2>1, <2>2, <2>3
<1>2. NArgs \in Nat /\ Len(ops) \in Nat /\ v \in Values /\ v > NArgs
  BY ProgramFacts DEF Values
<1>3. PICK o : o = ops[k] /\ o = Def(v)
  BY <1>2, OperandsExist
<1>4. /\ o.op \in {"add", "sub"} => o.l \in Values \ {v} /\ o.r \in Values \ {v}
      /\ o.op = "double" => o.l \in Values \ {v}
  BY <1>2, <1>3, OperandsExist DEF Binary, Unary
<1>5. ASSUME NEW x \in Values \ {v}
      PROVE  /\ Taken(x) \in Nat /\ KpFromUmax(Taken(x)) \in Nat
             /\ Source(c, x, Taken(x))
             /\ Reach(x) \in Nat /\ Taken(x) <= Reach(x)
             /\ KpFromUmax(Reach(x)) \in Nat /\ KpFromUmax(Taken(x)) <= KpFromUmax(Reach(x))
  <2>1. /\ Taken(x) \in Nat /\ KpFromUmax(Taken(x)) \in Nat
        /\ Source(bound, x, Taken(x))
        /\ Reach(x) \in Nat /\ Taken(x) <= Reach(x)
        /\ KpFromUmax(Reach(x)) \in Nat /\ KpFromUmax(Taken(x)) <= KpFromUmax(Reach(x))
    BY TakenFacts
  <2>2. Source(c, x, Taken(x))
    BY <2>1 DEF Source, With
  <2> QED BY <2>1, <2>2
<1>6. c[v] = u
  BY DEF With
<1>7. RangeMax[v] \in Nat /\ RangeMax[v] + 1 < Double
  <2>1. RangeMax[v] \in Nat /\ RangeMax[v] <= 2 * P + WMax
    BY <1>2, RangeBounds
  <2>2. P \in Nat /\ P < WordSize /\ WordSize \in Nat /\ 4 * WordSize <= Double /\ WMax = WordSize - 1
    BY <1>1, UnitFacts, WordFacts
  <2> QED BY <1>1, <2>1, <2>2
<1> HIDE DEF c
<1>8. CASE o.op = "add" /\ ~Goldilocks
  <2>1. PICK s \in Nat, t \in Nat : s = Taken(o.l) /\ t = Taken(o.r)
    BY <1>4, <1>5, <1>8
  <2>2. s + t + 1 < Double
    <3>1. PICK x \in Nat, y \in Nat : x = Reach(o.l) /\ y = Reach(o.r) /\ s <= x /\ t <= y
      BY <1>4, <1>5, <1>8, <2>1
    <3>2. x + y + 1 < Double
      BY <1>3, <1>8, <3>1 DEF BoundFits
    <3> QED BY <1>1, <3>1, <3>2, SMTT(30)
  <2>3. PICK n \in Nat : n = s + t /\ n + 1 < Double
    BY <2>2
  <2>4. n % Double = n
    BY <1>1, <2>3, BoundKept
  <2>5. u = (s + t) % Double
    BY <1>3, <1>8, <2>1 DEF ForwardUmax, Taken
  <2>6. Source(c, o.l, s) /\ Source(c, o.r, t)
    BY <1>4, <1>5, <1>8, <2>1
  <2>7. u = n /\ u = s + t
    BY <2>3, <2>4, <2>5
  <2>8. BoundFrom(c, v)
    BY <1>3, <1>6, <1>8, <2>1, <2>6, <2>7 DEF BoundFrom
  <2> QED BY <2>3, <2>7, <2>8 DEF c
<1>9. CASE o.op = "double"
  <2>1. PICK s \in Nat : s = Taken(o.l)
    BY <1>4, <1>5, <1>9
  <2>2. 2 * s + 1 < Double
    <3>1. PICK x \in Nat : x = Reach(o.l) /\ s <= x
      BY <1>4, <1>5, <1>9, <2>1
    <3>2. 2 * x + 1 < Double
      BY <1>3, <1>9, <3>1 DEF BoundFits
    <3> QED BY <1>1, <3>1, <3>2
  <2>3. PICK n \in Nat : n = 2 * s /\ n + 1 < Double
    BY <2>2
  <2>4. n % Double = n
    BY <1>1, <2>3, BoundKept
  <2>5. u = (2 * s) % Double
    BY <1>3, <1>9, <2>1 DEF ForwardUmax, Taken
  <2>6. Source(c, o.l, s)
    BY <1>4, <1>5, <1>9, <2>1
  <2>7. u = n /\ u = 2 * s
    BY <2>3, <2>4, <2>5
  <2>8. BoundFrom(c, v)
    BY <1>3, <1>6, <1>9, <2>1, <2>6, <2>7 DEF BoundFrom
  <2> QED BY <2>3, <2>7, <2>8 DEF c
<1>10. CASE o.op = "sub"
  <2>1. PICK s \in Nat, t \in Nat : s = Taken(o.l) /\ t = Taken(o.r)
    BY <1>4, <1>5, <1>10
  <2>2. PICK i \in Nat, j \in Nat : i = KpFromUmax(t) /\ j = KpFromUmax(Reach(o.r)) /\ i <= j
    BY <1>4, <1>5, <1>10, <2>1
  <2>3. P * i \in Nat /\ P * j \in Nat /\ P * i <= P * j
    BY <1>1, <2>2, MultiplesGrow
  <2>4. PICK x \in Nat : x = Reach(o.l) /\ s <= x
    BY <1>4, <1>5, <1>10, <2>1
  <2>5. x + P * j + 1 < Double
    BY <1>3, <1>10, <2>2, <2>4 DEF BoundFits
  <2>6. PICK n \in Nat : n = s + P * i /\ n + 1 < Double
    <3>1. PICK e \in Nat, f \in Nat : e = P * i /\ f = P * j /\ e <= f
      BY <2>3
    <3>2. PICK d \in Nat : d = Double /\ x + f + 1 < d
      BY <1>1, <2>5, <3>1
    <3>3. e <= f /\ s <= x /\ x + f + 1 < d
      BY <2>4, <3>1, <3>2
    <3>4. s + e \in Nat /\ s + e + 1 < d
      BY ONLY <3>3, s \in Nat, e \in Nat, x \in Nat, f \in Nat, d \in Nat
    <3> QED BY <3>1, <3>2, <3>4
  <2>7. n % Double = n
    BY <1>1, <2>6, BoundKept
  <2>8. u = (IF n <= WMax THEN n ELSE P - 1)
    BY <1>3, <1>10, <2>1, <2>2, <2>6, <2>7 DEF ForwardUmax, Taken
  <2>9. u = n /\ n <= WMax
    BY <2>8
  <2>10. Source(c, o.l, s) /\ Source(c, o.r, t)
    BY <1>4, <1>5, <1>10, <2>1
  <2>11. c[v] = s + P * KpFromUmax(t) /\ c[v] <= WMax
    BY <1>6, <2>2, <2>6, <2>9
  <2>12. BoundFrom(c, v)
    BY <1>3, <1>10, <2>1, <2>10, <2>11 DEF BoundFrom
  <2> QED BY <2>6, <2>9, <2>12 DEF c
<1>11. CASE o.op \in {"add", "mul", "square"} /\ Goldilocks
  <2>1. u = WMax
    BY <1>3, <1>11 DEF ForwardUmax
  <2>2. BoundFrom(c, v)
    BY <1>3, <1>6, <1>11, <2>1 DEF BoundFrom
  <2> QED BY <1>1, <2>1, <2>2 DEF c
<1>12. CASE o.op \in {"montmul", "montsquare", "montreduce"}
  <2>1. u = 2 * P - 1
    BY <1>3, <1>12 DEF ForwardUmax
  <2>2. BoundFrom(c, v)
    BY <1>3, <1>6, <1>12, <2>1 DEF BoundFrom
  <2> QED BY <1>1, <2>1, <2>2 DEF c
<1>13. CASE o.op = "const"
  <2>1. u = RangeMax[v]
    BY <1>3, <1>13 DEF ForwardUmax
  <2>2. BoundFrom(c, v)
    BY <1>3, <1>6, <1>13, <2>1 DEF BoundFrom
  <2> QED BY <1>7, <2>1, <2>2 DEF c
<1>14. CASE /\ o.op \notin {"add", "double", "sub", "montmul", "montsquare", "montreduce", "const"}
            /\ ~(o.op \in {"mul", "square"} /\ Goldilocks)
  BY <1>3, <1>14 DEF ForwardUmax
<1> QED BY <1>8, <1>9, <1>10, <1>11, <1>12, <1>13, <1>14

(* One step of the walk: a map for one more operation. *)
LEMMA WalkStep ==
  ASSUME Program, NEW k \in 1 .. Len(ops), MapOK(bound, k - 1), BoundFits(ops[k]),
         NEW v, v = NArgs + k, NEW u, u = ForwardUmax(Def(v), v, RangeMax),
         NEW c, c = IF u # P - 1 THEN With(bound, v, u) ELSE bound
  PROVE  MapOK(c, k)
<1>1. NArgs \in Nat /\ Len(ops) \in Nat
  BY ProgramFacts
<1>2. /\ DOMAIN bound \subseteq NArgs + 1 .. NArgs + (k - 1)
      /\ \A x \in DOMAIN bound : bound[x] \in Nat /\ bound[x] + 1 < Double /\ BoundFrom(bound, x)
      /\ \A j \in 1 .. k - 1 : NoWrap(bound, ops[j])
  BY DEF MapOK
<1>3. \A j \in 1 .. k : NoWrap(bound, ops[j])
  <2>1. NoWrap(bound, ops[k])
    BY FitsNoWrap
  <2>2. \A j \in 1 .. k : j = k \/ j \in 1 .. k - 1
    OBVIOUS
  <2> QED BY <1>2, <2>1, <2>2
<1>4. CASE u = P - 1
  <2>1. DOMAIN bound \subseteq NArgs + 1 .. NArgs + k
    BY <1>1, <1>2
  <2> QED BY <1>2, <1>3, <1>4, <2>1 DEF MapOK
<1>5. CASE u # P - 1
  <2>1. c = With(bound, v, u)
    BY <1>5
  <2>2. /\ DOMAIN c = DOMAIN bound \cup {v} /\ c[v] = u
        /\ \A x : x # v => /\ x \in DOMAIN c <=> x \in DOMAIN bound
                           /\ x \in DOMAIN bound => c[x] = bound[x]
    BY <2>1 DEF With
  <2>3. u \in Nat /\ u + 1 < Double /\ BoundFrom(c, v)
    BY <1>5, <2>1, ForwardFacts
  <2>4. \A x : x # v => UmaxIn(c, x) = UmaxIn(bound, x) /\ KpIn(c, x) = KpIn(bound, x)
    BY <2>2 DEF UmaxIn, KpIn
  <2>5. \A x, s : x # v => (Source(c, x, s) <=> Source(bound, x, s))
    BY <2>2 DEF Source
  <2>6. ASSUME NEW j \in 1 .. k
        PROVE  NoWrap(c, ops[j])
    <3>1. NArgs + j \in Values /\ NArgs + j > NArgs /\ Def(NArgs + j) = ops[j]
      BY <1>1 DEF Values, Def
    <3>2. PICK o : o = ops[j]
      OBVIOUS
    <3>3. /\ o.op \in {"add", "sub"} => o.l # v /\ o.r # v
          /\ o.op = "double" => o.l # v
      BY <1>1, <3>1, <3>2, OperandsExist DEF Binary, Unary
    <3> QED BY <1>3, <2>4, <3>2, <3>3 DEF NoWrap
  <2>7. ASSUME NEW x \in DOMAIN bound
        PROVE  BoundFrom(c, x)
    <3>1. x \in Values /\ x \in Nat /\ v \in Nat /\ x > NArgs /\ x # v /\ x <= v
      BY <1>1, <1>2 DEF Values
    <3>2. \A z \in 1 .. x - 1 : z # v
      BY ONLY <3>1
    <3>3. PICK o : o = Def(x)
      OBVIOUS
    <3>4. /\ o.op \in {"add", "sub"} => o.l \in 1 .. x - 1 /\ o.r \in 1 .. x - 1
          /\ o.op = "double" => o.l \in 1 .. x - 1
      BY <3>1, <3>3, OperandsExist DEF Binary, Unary
    <3>5. /\ o.op \in {"add", "sub"} => o.l # v /\ o.r # v
          /\ o.op = "double" => o.l # v
      BY <3>4, <3>2
    <3>6. BoundFrom(bound, x) /\ c[x] = bound[x]
      BY <1>2, <2>2, <3>1
    <3> QED BY <2>5, <3>3, <3>5, <3>6 DEF BoundFrom
  <2>8. DOMAIN c \subseteq NArgs + 1 .. NArgs + k
    BY <1>1, <1>2, <2>2
  <2>9. \A x \in DOMAIN c : c[x] \in Nat /\ c[x] + 1 < Double /\ BoundFrom(c, x)
    BY <1>2, <2>2, <2>3, <2>7
  <2> QED BY <2>6, <2>8, <2>9 DEF MapOK
<1> QED BY <1>4, <1>5

(* A user takes the value as an operand ... *)
LEMMA UserFacts ==
  ASSUME Program, NEW v, NEW k \in Users(v)
  PROVE  /\ k \in 1 .. Len(ops)
         /\ ops[k].op \in Binary \cup Unary
         /\ ops[k].op \in Unary => ops[k].l = v
         /\ ops[k].op \in Binary => ops[k].l = v \/ ops[k].r = v
<1>1. k \in 1 .. Len(ops) /\ \E j \in DOMAIN Operands(ops[k]) : Operands(ops[k])[j] = v
  BY DEF Users
<1>2. PICK o : o = ops[k]
  OBVIOUS
<1>3. PICK j \in DOMAIN Operands(o) : Operands(o)[j] = v
  BY <1>1, <1>2
<1>4. CASE o.op \in Binary
  <2>1. Operands(o) = <<o.l, o.r>>
    BY <1>4 DEF Operands
  <2>2. v = o.l \/ v = o.r
    BY <1>3, <2>1
  <2> QED BY <1>1, <1>2, <1>4, <2>2 DEF Binary, Unary, Predicates
<1>5. CASE o.op \notin Binary /\ o.op \in Unary
  <2>1. Operands(o) = <<o.l>>
    BY <1>5 DEF Operands
  <2> QED BY <1>1, <1>2, <1>3, <1>5, <2>1
<1>6. CASE o.op \notin Binary /\ o.op \notin Unary
  <2>1. Operands(o) = <<>>
    BY <1>6 DEF Operands
  <2> QED BY <1>3, <2>1
<1> QED BY <1>4, <1>5, <1>6

(* ... and whatever takes it is a user. *)
LEMMA UserIf ==
  ASSUME NEW k \in 1 .. Len(ops), NEW v,
         \/ ops[k].op \in Binary /\ (ops[k].l = v \/ ops[k].r = v)
         \/ ops[k].op \in Unary /\ ops[k].l = v
  PROVE  k \in Users(v)
<1>1. PICK o : o = ops[k]
  OBVIOUS
<1>2. CASE o.op \in Binary /\ o.l = v
  <2>1. Operands(o) = <<o.l, o.r>>
    BY <1>2 DEF Operands
  <2>2. 1 \in DOMAIN Operands(o) /\ Operands(o)[1] = v
    BY <1>2, <2>1
  <2> QED BY <1>1, <2>2 DEF Users
<1>3. CASE o.op \in Binary /\ o.r = v
  <2>1. Operands(o) = <<o.l, o.r>>
    BY <1>3 DEF Operands
  <2>2. 2 \in DOMAIN Operands(o) /\ Operands(o)[2] = v
    BY <1>3, <2>1
  <2> QED BY <1>1, <2>2 DEF Users
<1>4. CASE o.op \in Unary /\ o.l = v /\ o.op \notin Binary
  <2>1. Operands(o) = <<o.l>>
    BY <1>4 DEF Operands
  <2>2. 1 \in DOMAIN Operands(o) /\ Operands(o)[1] = v
    BY <1>4, <2>1
  <2> QED BY <1>1, <2>2 DEF Users
<1> QED BY <1>1, <1>2, <1>3, <1>4 DEF Binary, Unary, Predicates

(* Below 2^2w canAcceptLazy compares the exact numbers. *)
LEMMA AcceptsIs ==
  ASSUME Program, MapOK(bound, Len(ops)), NEW v \in DOMAIN bound, NEW k \in Users(v)
  PROVE  Accepts(ops[k], v) <=> Takes(bound, ops[k], v)
<1>1. PICK o : o = ops[k]
  OBVIOUS
<1>2. /\ o.op \in Binary \cup Unary
      /\ o.op \in Unary => o.l = v
      /\ o.op \in Binary => o.l = v \/ o.r = v
      /\ NoWrap(bound, o)
  BY <1>1, UserFacts DEF MapOK
<1>3. unit \in Units /\ \A x \in DOMAIN bound : bound[x] \in Nat /\ bound[x] + 1 < Double
  BY DEF MapOK, Program
<1>4. \A x : LookupUmax(x) = UmaxIn(bound, x) /\ LookupKp(x) = KpIn(bound, x)
  BY DEF LookupUmax, LookupKp, UmaxIn, KpIn
<1>5. bound[v] = UmaxIn(bound, v)
  BY DEF UmaxIn
<1>6. PICK s \in Nat : s = UmaxIn(bound, o.l)
  BY <1>3, UmaxFacts
<1>7. PICK t \in Nat : t = UmaxIn(bound, o.r)
  BY <1>3, UmaxFacts
<1>8. PICK j \in Nat : j = KpIn(bound, o.r)
  BY <1>3, UmaxFacts
<1>9. P \in Nat /\ WordSize \in Nat /\ WMax = WordSize - 1 /\ Double \in Nat
  BY <1>3, UnitFacts, WordFacts
<1>10. CASE o.op = "add"
  <2>1. s + t + 1 < Double
    BY <1>2, <1>6, <1>7, <1>10 DEF NoWrap
  <2>2. (s + t) % Double = s + t
    <3>1. PICK n \in Nat : n = s + t /\ n + 1 < Double
      BY <2>1
    <3> QED BY <1>3, <3>1, BoundKept
  <2>3. \/ bound[v] = s /\ o.l = v
        \/ bound[v] = t /\ o.r = v
    BY <1>2, <1>5, <1>6, <1>7, <1>10 DEF Binary
  <2>4. PICK m : m = (bound[v] + LookupUmax(IF o.l = v THEN o.r ELSE o.l)) % Double
    OBVIOUS
  <2>5. m = s + t
    <3>1. CASE o.l = v
      BY <1>4, <1>5, <1>6, <1>7, <2>2, <2>4, <3>1
    <3>2. CASE o.l # v
      <4>1. bound[v] = t /\ LookupUmax(o.l) = s /\ t + s = s + t
        BY <1>4, <1>6, <2>3, <3>2
      <4> QED BY <2>2, <2>4, <3>2, <4>1
    <3> QED BY <3>1, <3>2
  <2>6. Accepts(o, v) <=> IF Goldilocks THEN m < WordSize + P ELSE m <= WMax
    BY <1>10, <2>4 DEF Accepts
  <2>7. Takes(bound, o, v) <=> s + t <= (IF Goldilocks THEN WMax + P ELSE WMax)
    BY <1>6, <1>7, <1>10 DEF Takes
  <2> QED BY <1>1, <1>9, <2>5, <2>6, <2>7
<1>11. CASE o.op = "sub"
  <2>1. PICK n \in Nat : n = s + P * j /\ n + 1 < Double
    <3>1. PICK e \in Nat : e = P * j
      BY <1>9
    <3>2. s + e + 1 < Double
      BY <1>2, <1>6, <1>8, <1>11, <3>1 DEF NoWrap
    <3> QED BY <3>1, <3>2
  <2>2. n % Double = n
    BY <1>3, <2>1, BoundKept
  <2>3. Takes(bound, o, v) <=> n <= WMax
    BY <1>6, <1>8, <1>11, <2>1 DEF Takes
  <2>4. KpFromUmax(LookupUmax(o.r)) = j
    BY <1>4, <1>8 DEF LookupKp
  <2>5. CASE o.l = v
    BY <1>1, <1>5, <1>6, <1>11, <2>1, <2>2, <2>3, <2>4, <2>5 DEF Accepts
  <2>6. CASE o.l # v
    <3>1. o.r = v
      BY <1>2, <1>11, <2>6 DEF Binary
    <3>2. KpFromUmax(bound[v]) = j /\ LookupUmax(o.l) = s
      BY <1>4, <1>5, <1>6, <1>8, <3>1 DEF KpIn
    <3> QED BY <1>1, <1>11, <2>1, <2>2, <2>3, <2>6, <3>2 DEF Accepts
  <2> QED BY <2>5, <2>6
<1>12. CASE o.op = "double"
  <2>1. PICK n \in Nat : n = 2 * s /\ n + 1 < Double
    BY <1>2, <1>6, <1>12 DEF NoWrap
  <2>2. n % Double = n
    BY <1>3, <2>1, BoundKept
  <2>3. bound[v] = s
    BY <1>2, <1>5, <1>6, <1>12 DEF Unary
  <2> QED BY <1>1, <1>6, <1>12, <2>1, <2>2, <2>3 DEF Accepts, Takes
<1>13. CASE o.op = "montmul"
  BY <1>1, <1>4, <1>13 DEF Accepts, Takes
<1>14. CASE o.op \notin {"add", "sub", "double", "montmul"}
  BY <1>1, <1>14 DEF Accepts, Takes
<1> QED BY <1>10, <1>11, <1>12, <1>13, <1>14

(* The uses of a value are finitely many, at most two for an operation. *)
LEMMA FanoutBounded ==
  ASSUME Program
  PROVE  \E most \in Nat : \A v : Fanout(v) \in 0 .. most
<1> DEFINE All == (1 .. Len(ops)) \X {1, 2}
           Uses(v) == {u \in All : /\ u[2] \in DOMAIN Operands(ops[u[1]])
                                   /\ Operands(ops[u[1]])[u[2]] = v}
<1>1. IsFiniteSet(All)
  <2>1. Len(ops) \in Int /\ 1 \in Int
    BY ProgramFacts
  <2>2. IsFiniteSet(1 .. Len(ops))
    BY <2>1, FS_Interval
  <2>3. IsFiniteSet({1, 2})
    <3>1. 1 .. 2 = {1, 2}
      OBVIOUS
    <3>2. IsFiniteSet(1 .. 2)
      <4>1. PICK a \in Int, b \in Int : a = 1 /\ b = 2
        OBVIOUS
      <4>2. IsFiniteSet(a .. b)
        BY FS_Interval
      <4> QED BY <4>1, <4>2
    <3> QED BY <3>1, <3>2
  <2> QED BY <2>2, <2>3, FS_Product
<1>2. Cardinality(All) \in Nat
  BY <1>1, FS_CardinalityType
<1>3. ASSUME NEW v
      PROVE  Cardinality(Uses(v)) \in 0 .. Cardinality(All)
  <2>1. Uses(v) \in SUBSET All
    OBVIOUS
  <2> HIDE DEF Uses, All
  <2>2. IsFiniteSet(Uses(v)) /\ Cardinality(Uses(v)) <= Cardinality(All)
    BY <1>1, <2>1, FS_Subset
  <2>3. Cardinality(Uses(v)) \in Nat
    BY <2>2, FS_CardinalityType
  <2> QED BY <1>2, <2>2, <2>3
<1>4. ASSUME NEW v
      PROVE  Fanout(v) \in 0 .. Cardinality(All) + 1
  <2>1. Fanout(v) = Cardinality(Uses(v)) + (IF v = Returned THEN 1 ELSE 0)
    BY DEF Fanout
  <2> HIDE DEF Uses, All
  <2> QED BY <1>2, <1>3, <2>1
<1> HIDE DEF All
<1>5. Cardinality(All) + 1 \in Nat
  BY <1>2
<1> QED BY <1>4, <1>5

(* The sort by fanout has a first candidate. *)
LEMMA CandidateExists ==
  ASSUME Program, pending # {}, pending \subseteq Nat
  PROVE  NextCandidate \in pending
<1>1. PICK most \in Nat : \A v : Fanout(v) \in 0 .. most
  BY FanoutBounded
<1> DEFINE Gaps == {most - Fanout(v) : v \in pending}
<1>2. PICK gap \in Gaps : \A g \in Gaps : gap <= g
  <2>1. Gaps \in SUBSET Nat
    BY <1>1
  <2>2. Gaps # {}
    OBVIOUS
  <2> HIDE DEF Gaps
  <2> QED BY <2>1, <2>2, LeastNatural
<1>3. PICK a \in pending : gap = most - Fanout(a)
  BY <1>2
<1>4. \A u \in pending : Fanout(u) <= Fanout(a)
  <2> TAKE u \in pending
  <2>1. most - Fanout(a) <= most - Fanout(u)
    BY <1>2, <1>3
  <2>2. PICK x \in Nat, y \in Nat : x = Fanout(a) /\ y = Fanout(u)
    BY <1>1
  <2> QED BY <2>1, <2>2
<1> DEFINE Ties == {u \in pending : Fanout(u) = Fanout(a)}
<1>5. PICK v \in Ties : \A u \in Ties : v <= u
  <2>1. Ties \in SUBSET Nat /\ a \in Ties
    BY <1>3
  <2> HIDE DEF Ties
  <2> QED BY <2>1, LeastNatural
<1>6. \A u \in pending \ {v} : Fanout(v) > Fanout(u) \/ (Fanout(v) = Fanout(u) /\ v < u)
  <2> TAKE u \in pending \ {v}
  <2>1. PICK x \in Nat, y \in Nat : x = Fanout(v) /\ y = Fanout(u) /\ y <= x
    BY <1>1, <1>4, <1>5
  <2>2. x = y => u \in Ties
    BY <1>5, <2>1
  <2>3. x = y => v <= u
    BY <1>5, <2>2
  <2>4. u \in Nat /\ v \in Nat /\ u # v
    BY <1>5
  <2> HIDE DEF Ties
  <2> QED BY <2>1, <2>3, <2>4
<1>7. v \in pending
  BY <1>5
<1> HIDE DEF Ties, Gaps
<1>8. \E w : /\ w \in pending
             /\ \A u \in pending \ {w} :
                  Fanout(w) > Fanout(u) \/ (Fanout(w) = Fanout(u) /\ w < u)
  BY <1>6, <1>7
<1> QED BY <1>8, Zenon DEF NextCandidate

(* One candidate of phase 2: what is kept has been accepted by all its users, *)
(* and the bounds erased later only lower what those users compare.           *)
LEMMA ClampStep ==
  ASSUME Program, MapOK(bound, Len(ops)), NEW S, Settled(bound, S), NEW v \in DOMAIN bound,
         NEW c, c = IF Erase(v) THEN Without(bound, v) ELSE bound
  PROVE  MapOK(c, Len(ops)) /\ Settled(c, S \ {v}) /\ DOMAIN c \subseteq DOMAIN bound
         /\ (DOMAIN bound \ {v}) \subseteq DOMAIN c
<1>1. unit \in Units /\ \A x \in DOMAIN bound : bound[x] \in Nat /\ bound[x] + 1 < Double
  BY DEF MapOK, Program
<1>2. LookupKp(v) = KpIn(bound, v)
  BY DEF LookupUmax, LookupKp, UmaxIn, KpIn
<1>3. CASE ~Erase(v)
  <2>1. KpIn(bound, v) > 1 => Benefits(bound, v)
    <3>1. SUFFICES ASSUME KpIn(bound, v) > 1 PROVE Benefits(bound, v)
      OBVIOUS
    <3>2. AllBenefit(v)
      BY <1>2, <1>3, <3>1 DEF Erase
    <3> QED BY <3>2, AcceptsIs DEF AllBenefit, Benefits
  <2>2. Settled(bound, S \ {v})
    BY <2>1 DEF Settled
  <2>3. c = bound
    BY <1>3
  <2> QED BY <2>2, <2>3
<1>4. CASE Erase(v)
  <2>1. KpIn(bound, v) > 1 /\ c = Without(bound, v)
    BY <1>2, <1>4 DEF Erase
  <2>2. DOMAIN c = DOMAIN bound \ {v} /\ \A x \in DOMAIN c : c[x] = bound[x]
    BY <2>1 DEF Without
  <2>3. MapOK(c, Len(ops))
    <3>1. Len(ops) \in 0 .. Len(ops)
      BY ProgramFacts
    <3> QED BY <2>1, <3>1, WithoutMapOK
  <2>4. ASSUME NEW x \in DOMAIN c \ (S \ {v}), KpIn(c, x) > 1
        PROVE  Benefits(c, x)
    <3>1. x \in DOMAIN bound \ S /\ x \in DOMAIN bound \ {v}
      BY <2>2
    <3>2. KpIn(bound, x) > 1
      BY <2>2, <2>4, <3>1 DEF KpIn, UmaxIn
    <3>3. Benefits(bound, x)
      BY <3>1, <3>2 DEF Settled
    <3>4. \A o : Takes(bound, o, x) => Takes(c, o, x)
      BY <1>1, <2>1, <3>1, WithoutTakes
    <3> QED BY <3>3, <3>4 DEF Benefits
  <2>5. Settled(c, S \ {v})
    BY <2>4 DEF Settled
  <2> QED BY <2>2, <2>3, <2>5
<1> QED BY <1>3, <1>4

-----------------------------------------------------------------------------
\* The emitted reductions, for the unit that is compiled.

\* A signed form is the word or the word less p, of a canonical word under a
\* modulus that leaves the sign bit free.
SignedFormRight(v) ==
  \A s \in v.signed : ~ SignBitSet /\ v.word \in 0 .. P - 1 /\ s \in {v.word, v.word - P}

\* A lowered value that is the canonical residue r.
Canonical(v, r) == v \in Lowered /\ v.word = r /\ r \in 0 .. P - 1 /\ SignedFormRight(v)

(* The pass's lowered values and reducers are those of the reducers'         *)
(* theorems.                                                                 *)
LEMMA LoweredHere == Lowered = RP!Lowered
BY DEF Lowered, RP!Lowered, Word, RP!Word

(* The same for signed forms ... *)
LEMMA SignedFormHere == \A v : SignedFormRight(v) <=> RP!SignedFormRight(v)
BY Zenon DEF SignedFormRight, RP!SignedFormRight, SignBitSet, RP!SignBitSet

(* ... for getCanonicalFromExtended ... *)
LEMMA ExtendedHere ==
  \A v, n : CanonicalFromExtended(v, n) = RP!CanonicalFromExtended(v, n)
BY Zenon DEF CanonicalFromExtended, RP!CanonicalFromExtended, MinOp, RP!MinOp,
  Subtractions, RP!Subtractions, Steps, RP!Steps, Signed, RP!Signed, SubI, RP!SubI, MinUI, RP!MinUI

(* ... for its overload on an overflow flag ... *)
LEMMA OverflowHere ==
  \A x, n : CanonicalFromOverflow(x, n) = RP!CanonicalFromOverflow(x, n)
BY Zenon DEF CanonicalFromOverflow, RP!CanonicalFromOverflow, Plain, RP!Plain,
  SubI, RP!SubI, MinUI, RP!MinUI

(* ... for getCanonicalDiff ... *)
LEMMA DiffHere == \A x, y : CanonicalDiff(x, y) = RP!CanonicalDiff(x, y)
BY Zenon DEF CanonicalDiff, RP!CanonicalDiff, Plain, RP!Plain, MinOp, RP!MinOp, SignBitSet, RP!SignBitSet,
  SubI, RP!SubI, MinUI, RP!MinUI, AddI, RP!AddI, Signed, RP!Signed

(* ... for the Montgomery reducer ... *)
LEMMA ReduceHere == \A t, s, l : Reduce(t, s, l) = RP!Reduce(t, s, l)
<1> TAKE t, s, l
<1>1. ReduceSingleLimb(t, s, l) = RP!ReduceSingleLimb(t, s, l)
  BY Zenon DEF ReduceSingleLimb, RP!ReduceSingleLimb, MulI, RP!MulI, Low, RP!Low, High, RP!High,
     NInv, RP!NInv, Word, RP!Word, Signed, RP!Signed, AddOp, RP!AddOp, AddI, RP!AddI, SubI, RP!SubI,
     CanonicalDiff, RP!CanonicalDiff, Plain, RP!Plain, MinOp, RP!MinOp, SignBitSet, RP!SignBitSet,
     MinUI, RP!MinUI
<1>2. ReduceMultiLimb(t, l) = RP!ReduceMultiLimb(t, l)
  BY Zenon DEF ReduceMultiLimb, RP!ReduceMultiLimb, MulI, RP!MulI, Low, RP!Low,
     High, RP!High, NInv, RP!NInv, Word, RP!Word, SignBitSet, RP!SignBitSet, Plain, RP!Plain,
     CanonicalFromOverflow, RP!CanonicalFromOverflow, SubI, RP!SubI, MinUI, RP!MinUI,
     CanonicalFromExtended, RP!CanonicalFromExtended, MinOp, RP!MinOp,
     Subtractions, RP!Subtractions, Steps, RP!Steps, Signed, RP!Signed
<1> QED BY <1>1, <1>2, Zenon DEF Reduce, RP!Reduce

(* ... and for the other three. *)
LEMMA ProductsHere ==
  /\ \A x, y : BarrettReduce(x, y) = RP!BarrettReduce(x, y)
  /\ \A t : MersenneReduce(t) = RP!MersenneReduce(t)
  /\ \A t, l : SolinasReduce(t, l) = RP!SolinasReduce(t, l)
<1>1. \A x, y : BarrettReduce(x, y) = RP!BarrettReduce(x, y)
  BY Zenon DEF BarrettReduce, RP!BarrettReduce, Plain, RP!Plain
<1>2. \A t : MersenneReduce(t) = RP!MersenneReduce(t)
  BY Zenon DEF MersenneReduce, RP!MersenneReduce, Plain, RP!Plain
<1>3. \A t, l : SolinasReduce(t, l) = RP!SolinasReduce(t, l)
  BY ZenonT(40) DEF SolinasReduce, RP!SolinasReduce, Plain, RP!Plain, Word, RP!Word, Low, RP!Low, High, RP!High,
     AddI, RP!AddI, SubI, RP!SubI, MinUI, RP!MinUI, AddCarry, RP!AddCarry, AddSum, RP!AddSum
<1> QED BY <1>1, <1>2, <1>3

\* Every multiple of p that the subtractions for k multiples use fits a word.
MultiplesFit(k) == \A n \in Nat : 2^n < k => P * 2^n < WordSize

(* A bound of a word leaves room for its multiples. *)
LEMMA WordMultiplesFit ==
  ASSUME unit \in Units, NEW u \in Nat, u <= WMax
  PROVE  MultiplesFit(KpFromUmax(u))
<1>1. WordSize \in Nat /\ WMax = WordSize - 1 /\ u + 1 < Double /\ P \in Nat
  <2>1. WordSize \in Nat /\ WordSize >= 4 /\ WMax = WordSize - 1 /\ 4 * WordSize <= Double /\ Double \in Nat /\ P \in Nat
    BY UnitFacts, WordFacts
  <2> QED BY <2>1
<1>2. PICK k \in Nat : k = KpFromUmax(u) /\ (k > 1 => P * (k - 1) <= u)
  BY <1>1, KpFacts
<1>3. ASSUME NEW n \in Nat, 2^n < k
      PROVE  P * 2^n < WordSize
  <2>1. PICK e \in Nat : e = 2^n /\ e >= 1
    BY TwoPowerStep
  <2>2. PICK j \in Nat : j = k - 1 /\ e <= j /\ k > 1
    BY <1>3, <2>1
  <2>3. P * e \in Nat /\ P * j \in Nat /\ P * e <= P * j
    BY <2>2, MultiplesGrow
  <2>4. P * j <= u
    BY <1>2, <2>2
  <2>5. PICK x \in Nat, y \in Nat : x = P * e /\ y = P * j /\ x <= y /\ y <= u
    BY <2>3, <2>4
  <2>6. x < WordSize
    BY <1>1, <2>5
  <2> QED BY <2>1, <2>5, <2>6
<1> QED BY <1>2, <1>3 DEF MultiplesFit

(* So does a bound whose product with a canonical word can be reduced. *)
LEMMA ProductMultiplesFit ==
  ASSUME unit \in Units, NEW u \in Nat, u + 1 < Double, u * (P - 1) < RedcLimit
  PROVE  MultiplesFit(KpFromUmax(u))
<1>1. PICK p \in Nat, q \in Nat : p = P /\ q = P - 1 /\ p >= 3 /\ p % 2 = 1
  BY UnitFacts
<1>2. PICK w \in Nat, W \in Nat : W = WordSize /\ W = 2^w
  BY UnitFacts
<1>3. PICK k \in Nat : k = KpFromUmax(u) /\ (k > 1 => p * (k - 1) <= u)
  BY <1>1, KpFacts
<1>4. u * q < p * W
  BY <1>1, <1>2 DEF RedcLimit
<1>5. ASSUME NEW n \in Nat, 2^n < k
      PROVE  P * 2^n < WordSize
  <2>1. PICK e \in Nat : e = 2^n /\ e >= 1
    BY TwoPowerStep
  <2>2. PICK j \in Nat : j = k - 1 /\ e <= j /\ k > 1
    BY <1>5, <2>1
  <2>3. p * e <= p * j /\ p * e \in Nat /\ p * j \in Nat
    BY <2>2, MulMono
  <2>4. PICK x \in Nat : x = p * e /\ x <= u
    BY <1>3, <2>2, <2>3
  <2>5. q * x <= q * u
    BY <2>4, MulMono
  <2>6. q * u = u * q /\ u * q \in Nat /\ q * x \in Nat /\ p * W \in Nat
    BY SMT
  <2>7. q * x < p * W
    BY <1>4, <2>5, <2>6
  <2>8. PICK z \in Nat : z = e * q
    BY SMT
  <2>9. q * x = p * z
    BY <2>4, <2>8, SMT
  <2>10. z < W
    <3>1. SUFFICES ASSUME W <= z PROVE FALSE
      OBVIOUS
    <3>2. p * W <= p * z /\ p * z \in Nat
      BY <3>1, MulMono
    <3> QED BY <2>6, <2>7, <2>9, <3>2
  <2>11. 2^n * (p - 1) < 2^w
    BY <1>1, <1>2, <2>1, <2>8, <2>10
  <2>12. p * 2^n < 2^w
    BY <1>1, <2>11, TwoPowerRoom
  <2> QED BY <1>1, <1>2, <2>12
<1> QED BY <1>3, <1>5 DEF MultiplesFit

(* getCanonicalFromExtended on k multiples of p. *)
LEMMA ExtendedWord ==
  ASSUME unit \in Units, NEW k \in Nat, k >= 1, MultiplesFit(k),
         NEW x \in Lowered, x.word < P * k
  PROVE  CanonicalFromExtended(x, k).word = x.word % P
<1>1. RP!IsModulus
  BY UnitIsModulus
<1>2. CASE k = 1
  <2>1. CanonicalFromExtended(x, k) = x
    BY <1>2 DEF CanonicalFromExtended
  <2>2. PICK p \in Nat, w \in Nat : p = P /\ w = x.word /\ w < p
    BY <1>2, UnitFacts, WordFacts, SMTT(30) DEF Lowered
  <2>3. w % p = w
    BY <2>2, DivSmall
  <2> QED BY <2>1, <2>2, <2>3
<1>3. CASE k >= 2
  <2>1. \A n \in Nat : 2^n < k => P * 2^n < WordSize
    BY DEF MultiplesFit
  <2>2. x \in RP!Lowered
    BY LoweredHere
  <2>3. RP!CanonicalFromExtended(x, k).word = x.word % P
    BY ONLY <1>1, <1>3, <2>1, <2>2, RP!ExtendedReduces, x.word < P * k, k \in Nat
  <2> QED BY <2>3, ExtendedHere
<1> QED BY <1>2, <1>3

(* ... and of what is left the signed form, when the sign bit is free. *)
LEMMA ExtendedCanonical ==
  ASSUME unit \in Units, NEW k \in Nat, k >= 1, MultiplesFit(k), ~SignBitSet \/ k = 1,
         NEW x \in Lowered, x.word < P * k, SignedFormRight(x)
  PROVE  Canonical(CanonicalFromExtended(x, k), x.word % P)
<1>1. RP!IsModulus
  BY UnitIsModulus
<1>2. CanonicalFromExtended(x, k).word = x.word % P
  BY ExtendedWord
<1>3. PICK p \in Nat, w \in Nat : p = P /\ w = x.word /\ p > 0 /\ p < WordSize
  BY UnitFacts, WordFacts, SMTT(30) DEF Lowered
<1>4. w % p \in 0 .. p - 1
  BY <1>3, DivModBasics
<1>5. CASE k = 1
  <2>1. CanonicalFromExtended(x, k) = x
    BY <1>5 DEF CanonicalFromExtended
  <2> QED BY <1>2, <1>3, <1>4, <2>1 DEF Canonical
<1>6. CASE k >= 2 /\ ~SignBitSet
  <2> DEFINE y == CanonicalFromExtended(x, k)
  <2>1. \A n \in Nat : 2^n < k => P * 2^n < WordSize
    BY DEF MultiplesFit
  <2>2. x \in RP!Lowered
    BY LoweredHere
  <2>3. /\ y.isAdd = FALSE
        /\ y.signed = IF RP!Steps(k) = 1 /\ x.isAdd THEN {RP!Signed(RP!SubI(x.word, P))} ELSE {}
    <3>1. /\ RP!CanonicalFromExtended(x, k).isAdd = FALSE
          /\ RP!CanonicalFromExtended(x, k).signed =
               IF RP!Steps(k) = 1 /\ x.isAdd THEN {RP!Signed(RP!SubI(x.word, P))} ELSE {}
      BY ONLY <1>1, <1>6, <2>1, <2>2, RP!ExtendedReduces, x.word < P * k, k \in Nat
    <3> QED BY <3>1, ExtendedHere
  <2>4. y.word \in Word
    <3>1. PICK r \in 0 .. p - 1 : r = y.word
      BY <1>2, <1>3, <1>4
    <3> HIDE DEF y
    <3> QED BY <1>3, <3>1, UnitFacts DEF Word
  <2>5. y = [word |-> y.word, isAdd |-> y.isAdd, signed |-> y.signed]
    <3>1. ~(k <= 1)
      BY <1>6
    <3>2. y = MinOp(Subtractions(x.word, Steps(k)),
                    IF Steps(k) = 1 /\ x.isAdd THEN {Signed(SubI(x.word, P))} ELSE {})
      BY <3>1, Zenon DEF CanonicalFromExtended
    <3>3. PICK a, s : y = MinOp(a, s)
      BY <3>2, Zenon
    <3> HIDE DEF y
    <3> QED BY <3>3 DEF MinOp
  <2>6. y.signed \subseteq Int
    <3>1. RP!Signed(RP!SubI(x.word, P)) \in Int
      <4>1. PICK W \in Nat, d \in Int : W = WordSize /\ W > 0 /\ d = w - p
        BY <1>3, UnitFacts, WordFacts
      <4>2. PICK s \in Int : s = d % W
        BY <4>1, DivModBasics
      <4>3. RP!SubI(x.word, P) = s
        BY <1>3, <4>1, <4>2 DEF RP!SubI
      <4> QED BY <4>1, <4>2, <4>3 DEF RP!Signed
    <3> HIDE DEF y
    <3> QED BY <2>3, <3>1
  <2> HIDE DEF y
  <2>7. y \in Lowered
    BY <2>3, <2>4, <2>5, <2>6 DEF Lowered
  <2>8. SignedFormRight(y)
    <3>1. CASE k = 2
      <4>1. x.word < 2 * P
        BY <1>3, <3>1
      <4>2. y \in RP!Lowered /\ y.word = x.word % P
            /\ y.signed \subseteq {RP!Signed(RP!SubI(x.word, P))} /\ ~RP!SignBitSet
        BY <1>2, <1>6, <2>3, <2>7, LoweredHere DEF y, SignBitSet, RP!SignBitSet
      <4>3. RP!SignedFormRight(y)
        BY ONLY <1>1, <2>2, <4>1, <4>2, RP!ExtendedSignedForm
      <4> QED BY <4>3, SignedFormHere
    <3>2. CASE k > 2
      <4>1. PICK n \in Nat : RP!Steps(k) = n + 1 /\ k <= 2^(n + 1)
        BY <3>2, RP!StepsFound
      <4>2. RP!Steps(k) # 1
        <5>1. SUFFICES ASSUME n = 0 PROVE FALSE
          BY <4>1
        <5>2. 2^(n + 1) = 2
          BY <5>1, TwoPowerZero
        <5> QED BY <3>2, <4>1, <5>2
      <4> QED BY <2>3, <4>2 DEF SignedFormRight
    <3> QED BY <1>6, <3>1, <3>2
  <2> QED BY <1>2, <1>3, <1>4, <2>7, <2>8 DEF Canonical, y
<1> QED BY <1>5, <1>6

\* A value built by one of the constructors.
IsRecord(y) == \E a, b, c : y = [word |-> a, isAdd |-> b, signed |-> c]

(* The constructors build records of three fields. *)
LEMMA RecordForms ==
  /\ \A x : IsRecord(Plain(x)) /\ IsRecord(AddOp(x))
  /\ \A x, s : IsRecord(MinOp(x, s))
BY Zenon DEF IsRecord, Plain, AddOp, MinOp

(* A record is a lowered value when its fields are of their types. *)
LEMMA LoweredIf ==
  ASSUME unit \in Units, NEW y, IsRecord(y), y.word \in Word, y.isAdd \in BOOLEAN, SignedFormRight(y)
  PROVE  y \in Lowered
<1>1. y = [word |-> y.word, isAdd |-> y.isAdd, signed |-> y.signed]
  BY DEF IsRecord
<1>2. PICK w \in Nat, p \in Nat : w = y.word /\ p = P
  BY UnitFacts, WordFacts, SMTT(30)
<1>3. y.signed \subseteq Int
  BY <1>2 DEF SignedFormRight
<1> QED BY <1>1, <1>3 DEF Lowered

(* A plain word has no signed form. *)
LEMMA PlainFacts ==
  ASSUME unit \in Units, NEW x \in Word
  PROVE  Plain(x) \in Lowered /\ Plain(x).word = x /\ SignedFormRight(Plain(x))
BY DEF Plain, Lowered, SignedFormRight

(* Nor has the sum of an addi. *)
LEMMA AddOpFacts ==
  ASSUME unit \in Units, NEW x \in Word
  PROVE  AddOp(x) \in Lowered /\ AddOp(x).word = x /\ SignedFormRight(AddOp(x))
BY DEF AddOp, Lowered, SignedFormRight

(* A residue fits its word and is canonical. *)
LEMMA CanonicalWord ==
  ASSUME unit \in Units, NEW r \in 0 .. P - 1
  PROVE  r \in Word /\ r \in Nat /\ r <= WMax /\ Canonical(Plain(r), r)
<1>1. r \in Word /\ r \in Nat /\ r <= WMax
  BY UnitFacts, WordFacts, SMTT(30)
<1> QED BY <1>1, PlainFacts DEF Canonical

(* getCanonicalFromExtended(input, overflow) *)
LEMMA OverflowCanonical ==
  ASSUME unit \in Units, NEW v \in 0 .. 2 * P - 1
  PROVE  Canonical(CanonicalFromOverflow(v % WordSize, v \div WordSize), v % P)
<1>1. RP!IsModulus
  BY UnitIsModulus
<1>2. RP!CanonicalFromOverflow(v % WordSize, v \div WordSize) = RP!Plain(v % P)
  BY <1>1, RP!OverflowReduces
<1>3. PICK p \in Nat : p = P /\ p > 0
  BY UnitFacts
<1>4. v % p \in 0 .. p - 1
  BY <1>3, DivModBasics
<1>5. Canonical(Plain(v % P), v % P)
  BY <1>3, <1>4, CanonicalWord
<1>6. RP!Plain(v % P) = Plain(v % P)
  BY DEF RP!Plain, Plain
<1> QED BY <1>2, <1>5, <1>6, OverflowHere

(* getCanonicalDiff *)
LEMMA DiffCanonical ==
  ASSUME unit \in Units, NEW x \in 0 .. P - 1, NEW y \in 0 .. P - 1
  PROVE  Canonical(CanonicalDiff(x, y), (x - y) % P)
<1>1. RP!IsModulus
  BY UnitIsModulus
<1>2. CanonicalDiff(x, y).word = (x - y) % P
  BY <1>1, RP!DiffReduces, DiffHere
<1>3. PICK p \in Nat, d \in Int : p = P /\ p > 0 /\ d = x - y
  BY UnitFacts
<1>4. d % p \in 0 .. p - 1
  BY <1>3, DivModBasics
<1>5. CanonicalDiff(x, y).word \in 0 .. P - 1
  BY <1>2, <1>3, <1>4
<1>6. x \in Int /\ y \in Int /\ RP!CanonicalDiff(x, y).word \in 0 .. P - 1
  BY <1>3, <1>5, DiffHere
<1>7. RP!SignedFormRight(RP!CanonicalDiff(x, y)) /\ RP!CanonicalDiff(x, y).isAdd = FALSE
  BY <1>1, <1>6, RP!DiffSignedForm
<1>8. SignedFormRight(CanonicalDiff(x, y)) /\ CanonicalDiff(x, y).isAdd \in BOOLEAN
  BY <1>7, DiffHere, SignedFormHere
<1>9. IsRecord(CanonicalDiff(x, y))
  BY RecordForms, Zenon DEF CanonicalDiff
<1>10. CanonicalDiff(x, y).word \in Word
  BY <1>5, CanonicalWord
<1>11. CanonicalDiff(x, y) \in Lowered
  BY <1>8, <1>9, <1>10, LoweredIf
<1> QED BY <1>2, <1>5, <1>8, <1>11 DEF Canonical

(* x * R^-1 exists: R is a power of two. *)
LEMMA RInvFacts ==
  ASSUME unit \in Units
  PROVE  RInv \in 1 .. P - 1 /\ RInv \in Nat /\ SameMod(WordSize * RInv, 1, P)
<1>1. PICK p \in Nat : p = P /\ p >= 3 /\ p % 2 = 1
  BY UnitFacts
<1>2. PICK w \in Nat, W \in Nat : W = WordSize /\ W = 2^w
  BY UnitFacts
<1>3. PICK x \in 1 .. p - 1 : SameMod(x * 2^w, 1, p)
  BY <1>1, TwoPowerHasInverse
<1>4. 1 % p = 1
  <2>1. PICK one \in Nat : one = 1 /\ one < p
    BY <1>1
  <2> QED BY <2>1, DivSmall
<1>5. (x * W) % p = 1
  BY <1>2, <1>3, <1>4 DEF SameMod
<1>6. RInv \in 1 .. P - 1 /\ (RInv * WordSize) % P = 1
  <2>1. \E y \in 1 .. P - 1 : (y * WordSize) % P = 1
    BY <1>1, <1>2, <1>5
  <2> QED BY <2>1, Zenon DEF RInv
<1>7. PICK y \in Nat : y = RInv
  BY <1>1, <1>6
<1>8. y * W = W * y
  BY SMT
<1>9. SameMod(W * y, 1, p)
  BY <1>1, <1>2, <1>4, <1>6, <1>7, <1>8 DEF SameMod
<1> QED BY <1>1, <1>2, <1>6, <1>7, <1>9

(* UnRedc takes congruent numbers to one residue. *)
LEMMA UnRedcFacts ==
  ASSUME unit \in Units, NEW t \in Int
  PROVE  /\ UnRedc(t) \in 0 .. P - 1 /\ SameMod(UnRedc(t), t * RInv, P)
         /\ \A x \in Int : SameMod(x, t, P) => UnRedc(x) = UnRedc(t)
         /\ \A x \in Int : SameMod(WordSize * x, t, P) => SameMod(x, UnRedc(t), P)
<1>1. PICK p \in Nat, i \in Nat, W \in Nat : p = P /\ i = RInv /\ p > 0 /\ W = WordSize
  BY UnitFacts, RInvFacts
<1>2. PICK e \in Int : e = t * i
  BY SMT
<1>3. e % p \in 0 .. p - 1 /\ SameMod(e % p, e, p)
  BY <1>1, SameModResidue
<1>4. UnRedc(t) = e % p
  BY <1>1, <1>2 DEF UnRedc
<1>5. ASSUME NEW x \in Int, SameMod(x, t, p)
      PROVE  UnRedc(x) = UnRedc(t)
  <2>1. SameMod(i, i, p)
    BY SameModEquivalence
  <2>2. SameMod(x * i, t * i, p)
    BY ONLY <1>1, <1>5, <2>1, SameModProduct, x \in Int, t \in Int, i \in Nat, p \in Nat, i \in Int
  <2> QED BY <1>1, <2>2 DEF SameMod, UnRedc
<1>6. ASSUME NEW x \in Int, SameMod(W * x, t, p)
      PROVE  SameMod(x, UnRedc(t), p)
  <2>1. SameMod(W * i, 1, p)
    BY <1>1, RInvFacts
  <2>2. i \in Int /\ W \in Int
    OBVIOUS
  <2>3. SameMod(x, i * t, p)
    BY ONLY <1>1, <1>6, <2>1, <2>2, SameModCancel, x \in Int, t \in Int, p \in Nat
  <2>4. i * t = e
    BY <1>2, <2>2
  <2>5. SameMod(e, e % p, p)
    BY <1>3, SameModEquivalence
  <2> QED BY <1>4, <2>3, <2>4, <2>5, SameModEquivalence
<1> QED BY <1>1, <1>2, <1>3, <1>4, <1>5, <1>6

\* The products Montgomery reduction is defined for.
Reducible(t, fromSigned) ==
  IF fromSigned THEN ~SignBitSet /\ -RedcLimit < 2 * t /\ 2 * t < RedcLimit
  ELSE 0 <= t /\ t < RedcLimit

(* MontReducer::reduce: one residue, below 2p or below p. *)
LEMMA MontgomeryHere ==
  ASSUME unit \in Units, NEW t \in Int, NEW fromSigned \in BOOLEAN, Reducible(t, fromSigned),
         fromSigned => SingleLimb, NEW lazy \in BOOLEAN, lazy => ~SignBitSet,
         NEW y, y = Reduce(t, fromSigned, lazy)
  PROVE  /\ y \in Lowered /\ y.word \in 0 .. (IF lazy THEN 2 * P ELSE P) - 1
         /\ SameMod(y.word, UnRedc(t), P) /\ SignedFormRight(y)
<1>1. RP!IsModulus /\ RP!Invertible
  BY UnitIsModulus
<1>2. RP!ReducesFrom(t, fromSigned)
  BY DEF Reducible, RP!ReducesFrom, SignBitSet, RP!SignBitSet, RedcLimit
<1>3. lazy => ~RP!SignBitSet
  BY DEF SignBitSet, RP!SignBitSet
<1>4. y = RP!Reduce(t, fromSigned, lazy)
  BY ReduceHere
<1>5. /\ y.word \in 0 .. (IF lazy THEN 2 * P ELSE P) - 1
      /\ RP!SameMod(WordSize * y.word, t, P)
      /\ RP!SignedFormRight(y)
      /\ y.isAdd \in BOOLEAN
  BY <1>1, <1>2, <1>3, <1>4, RP!MontgomeryReduces
<1>6. PICK p \in Nat, W \in Nat : p = P /\ W = WordSize /\ p >= 3 /\ p < W
  BY UnitFacts
<1>7. PICK w \in Nat : w = y.word
  BY <1>5, <1>6
<1>8. y.word \in Word
  <2>1. CASE lazy
    <3>1. 2 * p < W
      BY <1>6, <2>1 DEF SignBitSet
    <3>2. w \in 0 .. 2 * p - 1
      BY <1>5, <1>6, <1>7, <2>1
    <3>3. w \in 0 .. W - 1
      BY <3>1, <3>2
    <3> QED BY <1>6, <1>7, <3>3 DEF Word
  <2>2. CASE ~lazy
    BY <1>5, <1>6, <1>7, <2>2 DEF Word
  <2> QED BY <2>1, <2>2
<1>9. IsRecord(y)
  <2>1. \A x, n : IsRecord(CanonicalDiff(x, n))
    BY RecordForms, Zenon DEF CanonicalDiff
  <2>2. \A x, n : IsRecord(CanonicalFromOverflow(x, n))
    BY RecordForms, Zenon DEF CanonicalFromOverflow
  <2>3. \A x, n : IsRecord(CanonicalFromExtended(Plain(x), n))
    BY RecordForms, Zenon DEF CanonicalFromExtended
  <2>4. IsRecord(ReduceSingleLimb(t, fromSigned, lazy))
    BY <2>1, RecordForms, Zenon DEF ReduceSingleLimb
  <2>5. IsRecord(ReduceMultiLimb(t, lazy))
    BY <2>2, <2>3, RecordForms, Zenon DEF ReduceMultiLimb
  <2> QED BY <2>4, <2>5, Zenon DEF Reduce
<1>10. SignedFormRight(y)
  BY <1>5, SignedFormHere
<1>11. SameMod(W * w, t, p)
  BY <1>5, <1>6, <1>7 DEF SameMod, RP!SameMod
<1>12. SameMod(w, UnRedc(t), P)
  BY <1>6, <1>11, UnRedcFacts
<1> QED BY <1>5, <1>7, <1>8, <1>9, <1>10, <1>12, LoweredIf

(* A Montgomery reduction that is not lazy is canonical. *)
LEMMA MontgomeryCanonical ==
  ASSUME unit \in Units, NEW t \in Int, NEW fromSigned \in BOOLEAN, Reducible(t, fromSigned),
         fromSigned => SingleLimb
  PROVE  Canonical(Reduce(t, fromSigned, FALSE), UnRedc(t))
<1>1. PICK y : y = Reduce(t, fromSigned, FALSE)
  OBVIOUS
<1>2. y \in Lowered /\ y.word \in 0 .. P - 1 /\ SameMod(y.word, UnRedc(t), P) /\ SignedFormRight(y)
  BY <1>1, MontgomeryHere
<1>3. PICK p \in Nat : p = P /\ p > 0
  BY UnitFacts
<1>4. PICK u \in 0 .. p - 1 : p = P /\ u = UnRedc(t) /\ p > 0
  BY <1>3, UnRedcFacts
<1>5. PICK w \in 0 .. p - 1 : w = y.word
  BY <1>2, <1>4
<1>6. w = u % p
  BY <1>2, <1>4, <1>5, SameModSmall
<1>7. u % p = u
  BY <1>4, DivSmall
<1> QED BY <1>1, <1>2, <1>4, <1>5, <1>6, <1>7 DEF Canonical

(* BarrettReducer::reduce and the plain remainder. *)
LEMMA BarrettCanonical ==
  ASSUME unit \in Units, NEW x \in 0 .. P - 1, NEW y \in 0 .. P - 1
  PROVE  Canonical(BarrettReduce(x, y), (x * y) % P)
<1>1. BarrettReduce(x, y).word = (x * y) % P
  BY UnitIsModulus, ProductsHere, RP!BarrettReduces
<1>2. PICK p \in Nat, n \in Int : p = P /\ p > 0 /\ n = x * y
  BY UnitFacts
<1>3. n % p \in 0 .. p - 1
  BY <1>2, DivModBasics
<1>4. PICK r \in 0 .. P - 1 : r = (x * y) % P
  BY <1>2, <1>3
<1>5. BarrettReduce(x, y) = Plain(BarrettReduce(x, y).word)
  BY DEF BarrettReduce, Plain
<1> QED BY <1>1, <1>4, <1>5, CanonicalWord

(* The Mersenne branch. *)
LEMMA MersenneCanonical ==
  ASSUME unit \in Units, NEW t \in 0 .. (P - 1) * (P - 1)
  PROVE  Canonical(MersenneReduce(t), t % P)
<1>1. MersenneReduce(t).word = t % P
  BY UnitIsModulus, ProductsHere, RP!MersenneReduces
<1>2. PICK p \in Nat, n \in Int : p = P /\ p > 0 /\ n = t
  BY UnitFacts
<1>3. n % p \in 0 .. p - 1
  BY <1>2, DivModBasics
<1>4. PICK r \in 0 .. P - 1 : r = t % P
  BY <1>2, <1>3
<1>5. MersenneReduce(t) = Plain(MersenneReduce(t).word)
  BY DEF MersenneReduce, Plain
<1> QED BY <1>1, <1>4, <1>5, CanonicalWord

(* So is a remainder by p. *)
LEMMA RemainderCanonical ==
  ASSUME unit \in Units, NEW n \in Int
  PROVE  Canonical(Plain(n % P), n % P)
<1>1. PICK p \in Nat : p = P /\ p > 0
  BY UnitFacts
<1>2. n % p \in 0 .. p - 1
  BY <1>1, DivModBasics
<1> QED BY <1>1, <1>2, CanonicalWord

(* A Goldilocks modulus uses the sign bit of its word. *)
LEMMA GoldilocksFacts ==
  ASSUME unit \in Units, Goldilocks
  PROVE  /\ FullWidth /\ SignBitSet
         /\ \E h \in Nat : h >= 2 /\ WordSize = h * h /\ P = WordSize - h + 1
<1>1. PICK W \in Nat, p \in Nat : W = WordSize /\ p = P
  BY UnitFacts
<1>2. PICK h \in 2 .. W : h * h = W /\ p = W - h + 1
  BY <1>1 DEF Goldilocks
<1>3. PICK hh \in Nat : hh = h * h
  BY SMT
<1>4. h * 2 <= h * h
  BY MulMono
<1>5. 2 * p >= W
  BY <1>2, <1>3, <1>4
<1> QED BY <1>1, <1>2, <1>5 DEF FullWidth, SignBitSet

(* SolinasReducer::reduce: any word when lazy. *)
LEMMA SolinasHere ==
  ASSUME unit \in Units, Goldilocks, NEW t \in 0 .. WMax * WMax, NEW lazy \in BOOLEAN,
         NEW y, y = SolinasReduce(t, lazy)
  PROVE  /\ y \in Lowered /\ SignedFormRight(y) /\ SameMod(y.word, t, P)
         /\ ~lazy => Canonical(y, t % P)
<1>1. \E h \in Nat : h >= 2 /\ WordSize = h * h /\ P = WordSize - h + 1
  BY GoldilocksFacts
<1>2. t \in 0 .. (WordSize - 1) * (WordSize - 1)
  BY DEF WMax
<1>3. /\ y.word \in 0 .. (IF lazy THEN WordSize ELSE P) - 1
      /\ y.word % P = t % P
  BY <1>1, <1>2, ProductsHere, RP!SolinasReduces
<1>4. PICK W \in Nat, p \in Nat : W = WordSize /\ p = P /\ p < W /\ p > 0
  BY UnitFacts
<1>5. PICK w \in Word : w = y.word
  BY <1>3, <1>4 DEF Word
<1>6. y = Plain(y.word)
  <2>1. \A x : Plain(x).word = x
    BY DEF Plain
  <2>2. \E x : y = Plain(x)
    BY Zenon DEF SolinasReduce
  <2> QED BY <2>1, <2>2
<1>7. y \in Lowered /\ SignedFormRight(y)
  BY <1>5, <1>6, PlainFacts
<1>8. ~lazy => Canonical(y, t % P)
  <2>1. SUFFICES ASSUME ~lazy PROVE Canonical(y, t % P)
    OBVIOUS
  <2>2. PICK r \in 0 .. p - 1 : r = y.word
    BY <1>3, <1>4, <2>1
  <2>3. r % p = r
    BY <1>4, <2>2, DivSmall
  <2> QED BY <1>3, <1>4, <1>6, <2>2, <2>3, CanonicalWord
<1> QED BY <1>3, <1>7, <1>8 DEF SameMod

-----------------------------------------------------------------------------
\* The run of the lowered function.

\* The lowered value x of v stands for the residue r.
Stands(x, r, v) ==
  /\ x \in Lowered /\ SignedFormRight(x)
  /\ r \in 0 .. P - 1 /\ SameMod(x.word, r, P)
  /\ x.word <= UmaxIn(bound, v)
  /\ LazyOption => x.word <= RangeMax[v] \/ P - 1 <= RangeMax[v]

\* The pass is done with the bounds.
Compiled ==
  /\ Program /\ MapOK(bound, Len(ops)) /\ Settled(bound, {})
  /\ LazyOption => \A k \in 1 .. Len(ops) : RangeFits(ops[k])
  /\ ~LazyOption => DOMAIN bound = {}

\* Operation k is the next one.
Reached(k) ==
  /\ Compiled /\ k \in 1 .. Len(ops)
  /\ \A x \in 1 .. NArgs + k - 1 : Stands(val[x], ref[x], x)

(* Lookups in the final map. *)
LEMMA CompiledFacts ==
  ASSUME Compiled
  PROVE  /\ unit \in Units /\ Program /\ Len(ops) \in Nat /\ NArgs \in Nat /\ NArgs >= 1
         /\ Values = 1 .. NArgs + Len(ops)
         /\ \A x \in DOMAIN bound : bound[x] \in Nat /\ bound[x] + 1 < Double
         /\ \A x : LookupUmax(x) = UmaxIn(bound, x) /\ LookupKp(x) = KpIn(bound, x)
         /\ \A x : KpFromUmax(LookupUmax(x)) = KpIn(bound, x)
         /\ \A x \in DOMAIN bound : LazyOption /\ x \in Values /\ x > NArgs
<1>1. Program /\ unit \in Units /\ Len(ops) \in Nat /\ NArgs \in Nat /\ NArgs >= 1
  BY ProgramFacts DEF Compiled, Program
<1>2. Values = 1 .. NArgs + Len(ops)
  BY DEF Values
<1>3. \A x \in DOMAIN bound : bound[x] \in Nat /\ bound[x] + 1 < Double
  BY DEF Compiled, MapOK
<1>4. \A x : LookupUmax(x) = UmaxIn(bound, x) /\ LookupKp(x) = KpIn(bound, x)
             /\ KpFromUmax(LookupUmax(x)) = KpIn(bound, x)
  BY DEF LookupUmax, LookupKp, UmaxIn, KpIn
<1>5. \A x \in DOMAIN bound : LazyOption /\ x \in Values /\ x > NArgs
  BY <1>1, <1>2 DEF Compiled, MapOK
<1> QED BY <1>1, <1>2, <1>3, <1>4, <1>5

(* The operands of the next operation stand for their residues, and the      *)
(* operation is one of their users.                                          *)
LEMMA ReachedFacts ==
  ASSUME NEW k, Reached(k), NEW v, v = NArgs + k
  PROVE  /\ k \in 1 .. Len(ops) /\ v \in Values /\ v \in Nat /\ v > NArgs
         /\ Def(v) = ops[k] /\ ops[k].op \in OpTags
         /\ NoWrap(bound, ops[k])
         /\ ops[k].op \in Binary =>
              /\ k \in Users(ops[k].l) /\ Stands(val[ops[k].l], ref[ops[k].l], ops[k].l)
              /\ k \in Users(ops[k].r) /\ Stands(val[ops[k].r], ref[ops[k].r], ops[k].r)
              /\ ops[k].l \in Values /\ ops[k].r \in Values
         /\ ops[k].op \in Unary =>
              /\ k \in Users(ops[k].l) /\ Stands(val[ops[k].l], ref[ops[k].l], ops[k].l)
              /\ ops[k].l \in Values
<1>1. Compiled /\ k \in 1 .. Len(ops) /\ \A x \in 1 .. NArgs + k - 1 : Stands(val[x], ref[x], x)
  BY DEF Reached
<1>2. Program /\ Len(ops) \in Nat /\ NArgs \in Nat /\ NArgs >= 1 /\ Values = 1 .. NArgs + Len(ops)
  BY <1>1, CompiledFacts
<1>3. v \in Values /\ v \in Nat /\ v > NArgs /\ v - NArgs = k
  BY <1>1, <1>2
<1>4. /\ Def(v) = ops[k] /\ ops[k].op \in OpTags
      /\ ops[k].op \in Binary => /\ ops[k].l \in 1 .. v - 1 /\ ops[k].r \in 1 .. v - 1
                                 /\ ops[k].l \in Values /\ ops[k].r \in Values
      /\ ops[k].op \in Unary => ops[k].l \in 1 .. v - 1 /\ ops[k].l \in Values
  BY <1>2, <1>3, OperandsExist
<1>5. NoWrap(bound, ops[k])
  BY <1>1 DEF Compiled, MapOK
<1>6. /\ ops[k].op \in Binary => k \in Users(ops[k].l) /\ k \in Users(ops[k].r)
      /\ ops[k].op \in Unary => k \in Users(ops[k].l)
  BY <1>1, UserIf
<1>7. 1 .. v - 1 = 1 .. NArgs + k - 1
  BY <1>1, <1>2
<1> QED BY <1>1, <1>3, <1>4, <1>5, <1>6, <1>7

(* A word stays below whatever bound its value was given. *)
LEMMA StandsBelow ==
  ASSUME Compiled, DOMAIN bound # {}, NEW x \in Values, NEW y, NEW r, Stands(y, r, x),
         NEW u, Source(bound, x, u)
  PROVE  y.word <= u
<1>1. /\ LazyOption /\ y.word \in Nat /\ P \in Nat /\ u \in Nat
      /\ RangeMax[x] \in Nat
  BY CompiledFacts, UnitFacts, WordFacts, RangeBounds DEF Stands, Lowered, Source
<1>2. CASE x \in DOMAIN bound
  BY <1>2 DEF Stands, UmaxIn, Source
<1>3. CASE x \notin DOMAIN bound
  <2>1. y.word <= P - 1 /\ u >= Floor(x)
    BY <1>3 DEF Stands, UmaxIn, Source
  <2>2. y.word <= RangeMax[x] \/ P - 1 <= RangeMax[x]
    BY <1>1 DEF Stands
  <2> QED BY <1>1, <2>1, <2>2 DEF Floor
<1> QED BY <1>2, <1>3

(* A consumer that cannot take a lazy value is given a canonical one. *)
LEMMA Untaken ==
  ASSUME Compiled, NEW x, NEW k \in Users(x), x \in DOMAIN bound => ~Takes(bound, ops[k], x)
  PROVE  KpIn(bound, x) = 1 /\ UmaxIn(bound, x) <= P - 1 /\ UmaxIn(bound, x) \in Nat
<1>1. P \in Nat /\ P >= 3
  BY CompiledFacts, UnitFacts
<1>2. /\ UmaxIn(bound, x) \in Nat /\ KpIn(bound, x) \in Nat /\ KpIn(bound, x) >= 1
      /\ KpIn(bound, x) > 1 <=> UmaxIn(bound, x) >= P
  BY CompiledFacts, UmaxFacts
<1>3. ~(KpIn(bound, x) > 1)
  <2>1. SUFFICES ASSUME KpIn(bound, x) > 1 PROVE FALSE
    OBVIOUS
  <2>2. x \in DOMAIN bound
    BY <1>1, <1>2, <2>1 DEF UmaxIn
  <2>3. Benefits(bound, x)
    BY <2>1, <2>2 DEF Compiled, Settled
  <2> QED BY <2>2, <2>3 DEF Benefits
<1> QED BY <1>1, <1>2, <1>3

(* A value with one multiple of p is canonical, and no reduction of it       *)
(* changes it.                                                               *)
LEMMA CanonicalOperand ==
  ASSUME Compiled, NEW x, KpIn(bound, x) = 1, UmaxIn(bound, x) <= P - 1, NEW y, NEW r, Stands(y, r, x)
  PROVE  /\ Canonical(y, r) /\ y.word = r /\ r \in 0 .. P - 1 /\ y.word \in 0 .. P - 1
         /\ CanonicalFromExtended(y, LookupKp(x)) = y
         /\ CanonicalFromExtended(y, KpIn(bound, x)) = y
         /\ CanonicalFromExtended(y, KpFromUmax(LookupUmax(x))) = y
<1>1. PICK p \in Nat : p = P /\ p > 0
  BY CompiledFacts, UnitFacts
<1>2. PICK w \in Nat : w = y.word
  BY CompiledFacts, WordFacts DEF Stands, Lowered
<1>3. w \in 0 .. p - 1 /\ r \in 0 .. p - 1 /\ r \in Int /\ SameMod(w, r, p)
  <2>1. UmaxIn(bound, x) \in Nat
    BY CompiledFacts, UmaxFacts
  <2> QED BY <1>1, <1>2, <2>1 DEF Stands
<1>4. w = r % p
  BY <1>1, <1>3, SameModSmall
<1>5. r % p = r
  BY <1>1, <1>3, DivSmall
<1>6. \A n : n = 1 => CanonicalFromExtended(y, n) = y
  BY DEF CanonicalFromExtended
<1>7. LookupKp(x) = 1 /\ KpFromUmax(LookupUmax(x)) = 1
  BY CompiledFacts
<1> QED BY <1>1, <1>2, <1>3, <1>4, <1>5, <1>6, <1>7 DEF Canonical, Stands

(* Canonical results stay below every bound of this kind of operation. *)
LEMMA ResultBound ==
  ASSUME NEW k, Reached(k), NEW v, v = NArgs + k, v \in DOMAIN bound,
         ops[k].op \notin {"add", "double", "const"}
  PROVE  /\ bound[v] \in Nat /\ bound[v] >= P /\ KpIn(bound, v) > 1
         /\ ops[k].op \in {"montmul", "montsquare", "montreduce"} => bound[v] = 2 * P - 1
         /\ ops[k].op \in {"mul", "square"} => Goldilocks /\ bound[v] = WMax
<1>1. PICK o : o = ops[k] /\ o = Def(v)
  BY ReachedFacts
<1>2. PICK p \in Nat : p = P /\ p >= 3 /\ p < WordSize /\ WordSize \in Nat /\ p <= WMax /\ WMax \in Nat
  <2>1. Compiled
    BY DEF Reached
  <2>2. unit \in Units
    BY <2>1, CompiledFacts
  <2>3. P \in Nat /\ P >= 3 /\ WordSize \in Nat /\ P < WordSize /\ WMax = WordSize - 1
    BY <2>2, UnitFacts, WordFacts
  <2>4. PICK W \in Nat : W = WordSize
    BY <2>3
  <2> QED BY <2>3, <2>4
<1>3. Compiled /\ BoundFrom(bound, v) /\ bound[v] \in Nat
  BY DEF Reached, Compiled, MapOK
<1>4. CASE o.op = "sub"
  <2>1. PICK s \in Nat, t \in Nat : /\ bound[v] = s + P * KpFromUmax(t) /\ Source(bound, o.r, t)
    BY <1>1, <1>3, <1>4 DEF BoundFrom
  <2>2. PICK j \in Nat : j = KpFromUmax(t) /\ j >= 1
    BY <1>3, <2>1, CompiledFacts, KpFacts DEF Source
  <2>3. p * 1 <= p * j /\ p * j \in Nat
    <3>1. p * 1 <= p * j
      BY <2>2, MulMono
    <3> QED BY <3>1, SMT
  <2>4. bound[v] >= P
    BY <1>2, <2>1, <2>2, <2>3
  <2> QED BY <1>1, <1>3, <1>4, <2>4, CompiledFacts, UmaxFacts DEF UmaxIn
<1>5. CASE o.op # "sub"
  <2>1. \/ o.op \in {"mul", "square"} /\ Goldilocks /\ bound[v] = WMax
        \/ o.op \in {"montmul", "montsquare", "montreduce"} /\ bound[v] = 2 * P - 1
    BY <1>1, <1>3, <1>5 DEF BoundFrom
  <2>2. bound[v] >= P
    BY <1>2, <2>1
  <2> QED BY <1>1, <1>3, <2>1, <2>2, CompiledFacts, UmaxFacts DEF UmaxIn
<1> QED BY <1>4, <1>5

(* So do their ranges. *)
LEMMA ResultRange ==
  ASSUME NEW k, Reached(k), NEW v, v = NArgs + k, LazyOption,
         ops[k].op \notin {"add", "double", "const", "bitcast"}
  PROVE  P - 1 <= RangeMax[v]
<1>1. Compiled
  BY DEF Reached
<1>2. PICK o : o = ops[k] /\ o = Def(v) /\ v \in Values /\ v > NArgs
  BY ReachedFacts
<1>3. PICK p \in Nat, W \in Nat : p = P /\ W = WordSize /\ p >= 3 /\ p < W /\ WMax = W - 1
  BY <1>1, CompiledFacts, UnitFacts, WordFacts
<1>4. RangeMax[v] = RangeStep(RangeMax, v)
  BY <1>1, <1>2, CompiledFacts, RangeUnfolds
<1>5. CASE o.op = "sub"
  <2>1. o.l \in Values /\ o.r \in Values
    BY <1>2, <1>5, ReachedFacts DEF Binary
  <2>2. PICK x \in Nat, y \in Nat : x = RangeMax[o.l] /\ y = RangeMax[o.r]
    BY <1>1, <2>1, CompiledFacts, RangeBounds
  <2>3. RangeMax[v] = Widen(SubRange(x, y))
    BY <1>2, <1>4, <1>5, <2>2 DEF RangeStep, IsOp
  <2>4. PICK n \in Nat : n = y + p
    OBVIOUS
  <2>5. PICK q \in Int, r \in 0 .. p - 1 : q = n \div p /\ n = p * q + r
    BY <1>3, DivModBasics
  <2>6. q >= 1
    <3>1. SUFFICES ASSUME q <= 0 PROVE FALSE
      BY <2>5
    <3>2. p * q <= p * 0
      BY <3>1, MulMono
    <3> QED BY <1>3, <2>4, <2>5, <3>2
  <2>7. PICK m \in Nat : m = q * p /\ m >= p
    <3>1. p * 1 <= p * q
      BY <2>6, MulMono
    <3>2. p * q = q * p /\ p * q \in Int
      BY SMT
    <3> QED BY <1>3, <3>1, <3>2
  <2>8. x + m < 2 * W
    <3>1. RangeFits(o)
      BY <1>1, <1>2, ReachedFacts DEF Compiled
    <3> QED BY <1>3, <1>5, <2>2, <2>4, <2>5, <2>7, <3>1 DEF RangeFits
  <2>9. PICK z \in Nat, d \in Nat : z = x + m /\ d = 2 * W /\ z < d
    BY <2>8
  <2>10. z % d = z
    BY <2>9, DivSmall
  <2>11. SubRange(x, y) = USat(z)
    BY <1>3, <2>4, <2>5, <2>7, <2>9, <2>10 DEF SubRange
  <2>12. USat(z) \in Nat /\ USat(z) >= p
    BY <1>3, <2>7, <2>9 DEF USat
  <2> QED BY <1>3, <2>3, <2>11, <2>12 DEF Widen
<1>6. CASE o.op # "sub"
  <2>1. RangeStep(RangeMax, v) \in {2 * P - 1, P - 1}
    BY <1>2, <1>6 DEF RangeStep, IsOp
  <2> QED BY <1>3, <1>4, <2>1
<1> QED BY <1>5, <1>6

(* A canonical result stands for its residue. *)
LEMMA ResultStands ==
  ASSUME NEW k, Reached(k), NEW v, v = NArgs + k,
         ops[k].op \notin {"add", "double", "const", "bitcast"}, NEW y, NEW r, Canonical(y, r)
  PROVE  Stands(y, r, v)
<1>1. Compiled
  BY DEF Reached
<1>2. PICK p \in Nat : p = P
  BY <1>1, CompiledFacts, UnitFacts
<1>3. PICK n \in 0 .. p - 1 : p = P /\ n = r /\ y.word = n
  BY <1>2 DEF Canonical
<1>4. y.word <= UmaxIn(bound, v)
  <2>1. CASE v \in DOMAIN bound
    BY <1>3, <2>1, ResultBound DEF UmaxIn
  <2>2. CASE v \notin DOMAIN bound
    BY <1>3, <2>2 DEF UmaxIn
  <2> QED BY <2>1, <2>2
<1>5. SameMod(y.word, r, P)
  BY <1>3, SameModEquivalence
<1> QED BY <1>4, <1>5, ResultRange DEF Canonical, Stands

\* What the step of operation k must achieve.
Right(k) ==
  LET res == Lower(ops[k], NArgs + k)
  IN  /\ Stands(res.v, Meaning(ops[k], NArgs + k), NArgs + k)
      /\ res.broken \subseteq {"nsw"}

(* Some unit has been compiled. *)
LEMMA ReachedUnit ==
  ASSUME NEW k, Reached(k)
  PROVE  Compiled /\ unit \in Units
<1>1. Compiled
  BY DEF Reached
<1> QED BY <1>1, CompiledFacts

(* A canonical result of a pattern that promises nothing. *)
LEMMA CanonicalRight ==
  ASSUME NEW k, Reached(k), ops[k].op \notin {"add", "double", "const", "bitcast"},
         NEW x, Lower(ops[k], NArgs + k) = Result(x, {}), Canonical(x, Meaning(ops[k], NArgs + k))
  PROVE  Right(k)
<1>1. Stands(x, Meaning(ops[k], NArgs + k), NArgs + k)
  BY ResultStands
<1> QED BY <1>1 DEF Right, Result

\* The value x is known to be canonical when it is used.
KnownCanonical(x) ==
  /\ Canonical(val[x], ref[x]) /\ val[x].word = ref[x] /\ ref[x] \in 0 .. P - 1
  /\ CanonicalFromExtended(val[x], LookupKp(x)) = val[x]
  /\ LookupKp(x) = 1 /\ LookupUmax(x) <= P - 1 /\ LookupUmax(x) \in Nat

\* The operations that may use a lazy operand.
Takers == {"square", "mul", "add", "sub", "double", "montmul", "montsquare"}

(* An operand whose user takes no lazy value is canonical: phase 2 erased    *)
(* its bound.                                                                *)
LEMMA OperandSettled ==
  ASSUME NEW k, Reached(k), NEW x,
         \/ ops[k].op \in Binary /\ x \in {ops[k].l, ops[k].r}
         \/ ops[k].op \in Unary /\ x = ops[k].l,
         x \in DOMAIN bound => ~Takes(bound, ops[k], x)
  PROVE  KnownCanonical(x)
<1>1. Compiled /\ k \in Users(x) /\ Stands(val[x], ref[x], x)
  BY ReachedFacts DEF Reached
<1>2. KpIn(bound, x) = 1 /\ UmaxIn(bound, x) <= P - 1 /\ UmaxIn(bound, x) \in Nat
  BY <1>1, Untaken
<1>3. LookupKp(x) = 1 /\ LookupUmax(x) = UmaxIn(bound, x)
  BY <1>1, <1>2, CompiledFacts
<1>4. Canonical(val[x], ref[x]) /\ val[x].word = ref[x] /\ ref[x] \in 0 .. P - 1
      /\ CanonicalFromExtended(val[x], LookupKp(x)) = val[x]
  BY <1>1, <1>2, CanonicalOperand
<1> QED BY <1>2, <1>3, <1>4 DEF KnownCanonical

(* No other operation takes one. *)
LEMMA NeverTaken ==
  ASSUME NEW o, o.op \notin Takers, NEW x
  PROVE  ~Takes(bound, o, x)
BY SMTT(30) DEF Takes, Takers

(* Which pattern an operation has, and what it means. *)
LEMMA Patterns ==
  ASSUME NEW o, NEW v
  PROVE  /\ o.op = "negate" => Lower(o, v) = Result(LowerNegate(o), {})
         /\ o.op = "barrettmul" => Lower(o, v) = Result(BarrettReduce(val[o.l].word, val[o.r].word), {})
         /\ o.op = "tomont" => Lower(o, v) = Result(LowerToMont(o), {})
         /\ o.op = "frommont" => Lower(o, v) = Result(LowerFromMont(o), {})
         /\ o.op = "montreduce" => Lower(o, v) = Result(LowerMontReduce(o, v), {})
         /\ o.op \in {"inverse", "montinverse"} => Lower(o, v) = Result(LowerInverse(o, v), {})
         /\ o.op \in Predicates => Lower(o, v) = Result(LowerCmp(o), {})
         /\ o.op = "bitcast" => Lower(o, v) = Result(val[o.l], {})
         /\ o.op = "const" => Lower(o, v) = Result(Plain(o.l), {})
         /\ o.op = "add" => Lower(o, v) = LowerAdd(o, v)
         /\ o.op = "double" => Lower(o, v) = LowerDouble(o, v)
         /\ o.op = "sub" => Lower(o, v) = LowerSub(o, v)
         /\ o.op = "mul" => Lower(o, v) = Result(LowerMul(o, v), {})
         /\ o.op = "square" => Lower(o, v) = Result(LowerSquare(o, v), {})
         /\ o.op = "montmul" =>
              Lower(o, v) = Result(LowerMontMul(o.l, o.r, LookupKp(v) >= 2), {})
         /\ o.op = "montsquare" =>
              Lower(o, v) = Result(LowerMontSquare(o.l, LookupKp(v) >= 2), {})
BY SMTT(30) DEF Lower, Predicates

\* The product and the unit of a value, in its form.
Product(v, x, y) == IF InMontgomeryForm[v] THEN UnRedc(x * y) ELSE (x * y) % P
One(v) == IF InMontgomeryForm[v] THEN WordSize % P ELSE 1

(* The residue of an operation, kind by kind. *)
LEMMA Meanings ==
  ASSUME NEW o, NEW v
  PROVE  /\ o.op = "negate" => Meaning(o, v) = (-ref[o.l]) % P
         /\ o.op \in {"mul", "barrettmul"} => Meaning(o, v) = Product(v, ref[o.l], ref[o.r])
         /\ o.op = "tomont" => Meaning(o, v) = (ref[o.l] * WordSize) % P
         /\ o.op = "frommont" => Meaning(o, v) = UnRedc(ref[o.l])
         /\ o.op = "montreduce" => Meaning(o, v) = UnRedc(o.l + o.r * WordSize)
         /\ o.op \in {"inverse", "montinverse"} =>
              Meaning(o, v) = TheInverse({y \in 1 .. P - 1 : Product(v, ref[o.l], y) = One(v)})
         /\ o.op \in Predicates => Meaning(o, v) = Compare(o.op, ref[o.l], ref[o.r])
         /\ o.op = "bitcast" => Meaning(o, v) = ref[o.l]
         /\ o.op = "const" => Meaning(o, v) = o.l
         /\ o.op = "add" => Meaning(o, v) = (ref[o.l] + ref[o.r]) % P
         /\ o.op = "double" => Meaning(o, v) = (2 * ref[o.l]) % P
         /\ o.op = "sub" => Meaning(o, v) = (ref[o.l] - ref[o.r]) % P
         /\ o.op = "square" => Meaning(o, v) = Product(v, ref[o.l], ref[o.l])
         /\ o.op = "montmul" => Meaning(o, v) = UnRedc(ref[o.l] * ref[o.r])
         /\ o.op = "montsquare" => Meaning(o, v) = UnRedc(ref[o.l] * ref[o.l])
BY DEF Meaning, Predicates, Product, One

(* ConvertNegate. *)
LEMMA NegateRight ==
  ASSUME NEW k, Reached(k), ops[k].op = "negate"
  PROVE  Right(k)
<1>1. PICK o, v : o = ops[k] /\ v = NArgs + k /\ o.op = "negate"
  OBVIOUS
<1>2. KnownCanonical(o.l)
  BY <1>1, OperandSettled, NeverTaken DEF Unary, Takers
<1>3. PICK p \in Nat, W \in Nat : p = P /\ W = WordSize /\ p >= 3 /\ p < W
  <2>1. unit \in Units
    BY ReachedUnit
  <2> QED BY <2>1, UnitFacts
<1>4. PICK x \in 0 .. p - 1 : x = ref[o.l] /\ x = val[o.l].word
  BY <1>2, <1>3 DEF KnownCanonical
<1>5. LowerNegate(o) = Plain(IF x = 0 THEN x ELSE SubI(P, x))
  BY <1>2, <1>4 DEF LowerNegate, KnownCanonical
<1>6. PICK r \in 0 .. p - 1 : r = (-x) % p
  BY <1>3, SameModResidue
<1>7. r = IF x = 0 THEN 0 ELSE p - x
  <2>1. CASE x = 0
    <3>1. -x = p * 0 + 0
      BY <2>1, <1>3
    <3> QED BY <1>3, <1>6, <2>1, <3>1, DivModUnique
  <2>2. CASE x # 0
    <3>1. PICK n \in Int, d \in 0 .. p - 1 : n = -x /\ d = p - x /\ n = p * (-1) + d
      BY <1>3, <2>2
    <3>2. n % p = d
      BY <1>3, <3>1, DivModUnique
    <3> QED BY <1>6, <2>2, <3>1, <3>2
  <2> QED BY <2>1, <2>2
<1>8. x # 0 => SubI(P, x) = p - x
  <2>1. SUFFICES ASSUME x # 0 PROVE SubI(P, x) = p - x
    OBVIOUS
  <2>2. PICK d \in Nat : d = p - x /\ d < W
    BY <1>3
  <2>3. d % W = d
    BY <2>2, DivSmall
  <2> QED BY <1>3, <2>2, <2>3 DEF SubI
<1>9. LowerNegate(o) = Plain(r)
  BY <1>5, <1>7, <1>8
<1>10. Canonical(Plain(r), r)
  <2>1. unit \in Units
    BY ReachedUnit
  <2> QED BY <1>3, <2>1, CanonicalWord
<1>11. Lower(o, v) = Result(Plain(r), {})
  BY <1>1, <1>9, Patterns
<1>12. Meaning(o, v) = r
  BY <1>1, <1>3, <1>4, <1>6, Meanings, ZenonT(40)
<1> QED BY <1>1, <1>10, <1>11, <1>12, CanonicalRight

(* ConvertCmp. *)
LEMMA CmpRight ==
  ASSUME NEW k, Reached(k), ops[k].op \in Predicates
  PROVE  Right(k)
<1>1. PICK o, v : o = ops[k] /\ v = NArgs + k /\ o.op \in Predicates
  OBVIOUS
<1>2. KnownCanonical(o.l) /\ KnownCanonical(o.r)
  <2>1. o.op \in Binary /\ o.op \notin Takers
    BY <1>1 DEF Binary, Predicates, Takers
  <2> QED BY <1>1, <2>1, OperandSettled, NeverTaken
<1>3. LowerCmp(o) = Plain(Compare(o.op, ref[o.l], ref[o.r]))
  BY <1>2 DEF LowerCmp, KnownCanonical
<1>4. Lower(o, v) = Result(LowerCmp(o), {})
  BY <1>1, Patterns
<1>5. Meaning(o, v) = Compare(o.op, ref[o.l], ref[o.r])
  BY <1>1, Meanings
<1>6. PICK r \in {0, 1} : r = Compare(o.op, ref[o.l], ref[o.r])
  BY DEF Compare, Truth
<1>7. Canonical(Plain(r), r)
  <2>1. unit \in Units
    BY ReachedUnit
  <2>2. r \in 0 .. P - 1
    BY <1>6, <2>1, UnitFacts
  <2> QED BY <2>1, <2>2, CanonicalWord
<1>8. o.op \notin {"add", "double", "const", "bitcast"}
  BY <1>1 DEF Predicates
<1> QED BY <1>1, <1>3, <1>4, <1>5, <1>6, <1>7, <1>8, CanonicalRight

(* The numbers of the unit. *)
LEMMA ModulusFacts ==
  ASSUME NEW k, Reached(k)
  PROVE  \E p \in Nat, W \in Nat : /\ p = P /\ W = WordSize /\ p >= 3 /\ p < W
                                   /\ WMax = W - 1 /\ RedcLimit = p * W
<1>1. unit \in Units
  BY ReachedUnit
<1>2. P \in Nat /\ WordSize \in Nat /\ P >= 3 /\ P < WordSize
  BY <1>1, UnitFacts
<1> QED BY <1>2 DEF WMax, RedcLimit

(* Products of canonical words can be reduced. *)
LEMMA ProductReducible ==
  ASSUME NEW p \in Nat, NEW W \in Nat, p < W, NEW x \in 0 .. p - 1, NEW y \in 0 .. W - 1
  PROVE  x * y \in Nat /\ x * y < p * W
<1>1. x * y <= x * W
  BY MulMono
<1>2. PICK a \in Nat, n \in Nat : n = W /\ a = x * W
  BY SMT
<1>3. n * x <= n * (p - 1)
  BY <1>2, MulMono
<1>4. n * x = a /\ n * (p - 1) = p * n - n
  BY ONLY <1>2, x \in Int, p \in Nat, SMT
<1>5. x * y \in Nat /\ p * n \in Nat /\ n > 0
  BY <1>2, SMT
<1> QED BY <1>1, <1>2, <1>3, <1>4, <1>5

(* A reduction of an unsigned number is canonical. *)
LEMMA RedcCanonical ==
  ASSUME unit \in Units, NEW t \in Nat, t < RedcLimit
  PROVE  Canonical(Reduce(t, FALSE, FALSE), UnRedc(t))
<1>1. PICK s \in BOOLEAN : s = FALSE
  OBVIOUS
<1>2. Reducible(t, s)
  BY <1>1 DEF Reducible
<1>3. (s => SingleLimb) /\ t \in Int
  BY <1>1
<1>4. Canonical(Reduce(t, s, FALSE), UnRedc(t))
  BY ONLY <1>2, <1>3, MontgomeryCanonical, unit \in Units
<1> QED BY <1>1, <1>4

(* The Barrett multiplication. *)
LEMMA BarrettmulRight ==
  ASSUME NEW k, Reached(k), ops[k].op = "barrettmul", ~InMontgomeryForm[NArgs + k]
  PROVE  Right(k)
<1>1. PICK o, v : o = ops[k] /\ v = NArgs + k /\ o.op = "barrettmul"
  OBVIOUS
<1>2. KnownCanonical(o.l) /\ KnownCanonical(o.r)
  BY <1>1, OperandSettled, NeverTaken DEF Binary, Takers
<1>3. PICK x \in 0 .. P - 1, y \in 0 .. P - 1 : /\ x = ref[o.l] /\ x = val[o.l].word
                                                 /\ y = ref[o.r] /\ y = val[o.r].word
  BY <1>2 DEF KnownCanonical
<1>4. unit \in Units
  BY ReachedUnit
<1>5. Canonical(BarrettReduce(x, y), (x * y) % P)
  BY <1>4, BarrettCanonical
<1>6. Lower(o, v) = Result(BarrettReduce(x, y), {}) /\ Meaning(o, v) = (x * y) % P
  <2>1. Lower(o, v) = Result(BarrettReduce(val[o.l].word, val[o.r].word), {})
        /\ Meaning(o, v) = Product(v, ref[o.l], ref[o.r])
    BY <1>1, Patterns, Meanings
  <2>2. Product(v, x, y) = (x * y) % P
    BY <1>1 DEF Product
  <2> QED BY <1>3, <2>1, <2>2
<1> QED BY <1>1, <1>5, <1>6, CanonicalRight

(* ConvertToMont: the product with R squared, reduced, is the product with   *)
(* R.                                                                        *)
LEMMA TomontRight ==
  ASSUME NEW k, Reached(k), ops[k].op = "tomont"
  PROVE  Right(k)
<1>1. PICK o, v : o = ops[k] /\ v = NArgs + k /\ o.op = "tomont"
  OBVIOUS
<1>2. KnownCanonical(o.l)
  BY <1>1, OperandSettled, NeverTaken DEF Unary, Takers
<1>3. PICK p \in Nat, W \in Nat : p = P /\ W = WordSize /\ p >= 3 /\ p < W /\ RedcLimit = p * W
  BY ModulusFacts
<1>4. PICK x \in 0 .. p - 1 : x = ref[o.l] /\ x = val[o.l].word
  BY <1>2, <1>3 DEF KnownCanonical
<1>5. unit \in Units
  BY ReachedUnit
<1>6. PICK ww \in Nat : ww = W * W
  BY SMT
<1>7. PICK q \in 0 .. p - 1 : q = RSquared /\ SameMod(q, ww, p)
  <2>1. ww % p \in 0 .. p - 1 /\ SameMod(ww % p, ww, p)
    <3>1. ww \in Int /\ p > 0
      BY <1>3
    <3> QED BY ONLY <3>1, p \in Nat, SameModResidue
  <2>2. RSquared = ww % p
    BY <1>3, <1>6 DEF RSquared
  <2> QED BY <2>1, <2>2
<1>8. PICK t \in Nat : t = x * q /\ t < RedcLimit
  <2>1. q \in 0 .. W - 1
    BY <1>3
  <2> QED BY <1>3, <2>1, ProductReducible
<1>9. Canonical(Reduce(t, FALSE, FALSE), UnRedc(t))
  BY <1>5, <1>8, RedcCanonical
<1>10. PICK e \in Nat : e = x * W
  BY SMT
<1>11. UnRedc(t) = e % p
  <2>1. SameMod(x * ww, x * q, p)
    <3>1. SameMod(x, x, p) /\ SameMod(ww, q, p)
      BY <1>7, SameModEquivalence
    <3>2. x \in Int /\ ww \in Int /\ q \in Int /\ p \in Nat /\ p > 0
      BY <1>3
    <3> QED BY ONLY <3>1, <3>2, SameModProduct
  <2>2. W * e = x * ww
    <3>1. W * (x * W) = x * (W * W)
      BY SMT
    <3> QED BY <1>6, <1>10, <3>1
  <2>3. SameMod(W * e, t, p)
    BY <1>8, <2>1, <2>2
  <2>4. SameMod(e, UnRedc(t), P)
    <3>1. SameMod(WordSize * e, t, P)
      BY <1>3, <2>3
    <3>2. e \in Int /\ t \in Int
      OBVIOUS
    <3> QED BY ONLY <1>5, <3>1, <3>2, UnRedcFacts
  <2>5. PICK u \in 0 .. p - 1 : u = UnRedc(t)
    BY <1>3, <1>5, UnRedcFacts
  <2>6. SameMod(u, e, p)
    BY <1>3, <2>4, <2>5, SameModEquivalence
  <2>7. u = e % p
    BY <1>3, <2>6, SameModSmall
  <2> QED BY <2>5, <2>7
<1>12. Lower(o, v) = Result(Reduce(t, FALSE, FALSE), {})
  BY <1>1, <1>4, <1>7, <1>8, Patterns, ZenonT(40) DEF LowerToMont
<1>13. Meaning(o, v) = e % p
  BY <1>1, <1>3, <1>4, <1>10, Meanings, ZenonT(40)
<1> QED BY <1>1, <1>9, <1>11, <1>12, <1>13, CanonicalRight

(* ConvertFromMont. *)
LEMMA FrommontRight ==
  ASSUME NEW k, Reached(k), ops[k].op = "frommont"
  PROVE  Right(k)
<1>1. PICK o, v : o = ops[k] /\ v = NArgs + k /\ o.op = "frommont"
  OBVIOUS
<1>2. KnownCanonical(o.l)
  BY <1>1, OperandSettled, NeverTaken DEF Unary, Takers
<1>3. PICK p \in Nat, W \in Nat : p = P /\ W = WordSize /\ p >= 3 /\ p < W /\ RedcLimit = p * W
  BY ModulusFacts
<1>4. PICK x \in 0 .. p - 1 : x = ref[o.l] /\ x = val[o.l].word
  BY <1>2, <1>3 DEF KnownCanonical
<1>5. x \in Nat /\ x < RedcLimit
  <2>1. p * 1 <= p * W
    BY <1>3, MulMono
  <2>2. PICK m \in Nat : m = p * W
    BY SMT
  <2> QED BY <1>3, <2>1, <2>2
<1>6. Canonical(Reduce(x, FALSE, FALSE), UnRedc(x))
  <2>1. unit \in Units
    BY ReachedUnit
  <2> QED BY <1>5, <2>1, RedcCanonical
<1>7. Lower(o, v) = Result(Reduce(x, FALSE, FALSE), {}) /\ Meaning(o, v) = UnRedc(x)
  <2>1. Lower(o, v) = Result(LowerFromMont(o), {}) /\ Meaning(o, v) = UnRedc(ref[o.l])
    BY <1>1, Patterns, Meanings
  <2>2. LowerFromMont(o) = Reduce(x, FALSE, FALSE)
    BY <1>4 DEF LowerFromMont
  <2> QED BY <1>4, <2>1, <2>2
<1> QED BY <1>1, <1>6, <1>7, CanonicalRight

(* A Montgomery reduction whose result may stay below 2p. *)
LEMMA MontgomeryRight ==
  ASSUME NEW k, Reached(k), ops[k].op \in {"montmul", "montsquare", "montreduce"},
         FullWidth => LookupKp(NArgs + k) <= 1,
         NEW t \in Int, NEW fromSigned \in BOOLEAN, Reducible(t, fromSigned), fromSigned => SingleLimb,
         Lower(ops[k], NArgs + k) = Result(Reduce(t, fromSigned, LookupKp(NArgs + k) >= 2), {}),
         Meaning(ops[k], NArgs + k) = UnRedc(t)
  PROVE  Right(k)
<1>1. unit \in Units /\ Compiled
  BY ReachedUnit
<1>2. PICK v : v = NArgs + k
  OBVIOUS
<1>3. PICK n \in Nat : n = LookupKp(v) /\ n = KpIn(bound, v)
  BY <1>1, CompiledFacts, UmaxFacts
<1>4. PICK lazy \in BOOLEAN : lazy = (LookupKp(v) >= 2) /\ (lazy <=> n >= 2)
  <2>1. (LookupKp(v) >= 2) \in BOOLEAN
    BY <1>3
  <2> QED BY <1>3, <2>1, Zenon
<1>5. CASE ~lazy
  <2>1. Lower(ops[k], v) = Result(Reduce(t, fromSigned, FALSE), {})
    <3>1. lazy = FALSE
      BY <1>5
    <3>2. (LookupKp(v) >= 2) = FALSE
      BY <1>4, <3>1, Zenon
    <3> QED BY <1>2, <3>2, Zenon
  <2>2. Canonical(Reduce(t, fromSigned, FALSE), UnRedc(t))
    BY <1>1, MontgomeryCanonical
  <2> QED BY <1>2, <2>1, <2>2, CanonicalRight
<1>6. CASE lazy
  <2>1. Lower(ops[k], v) = Result(Reduce(t, fromSigned, lazy), {})
    BY <1>2, <1>3, <1>4
  <2>2. ~SignBitSet
    BY <1>2, <1>3, <1>4, <1>6 DEF FullWidth
  <2>3. PICK y : y = Reduce(t, fromSigned, lazy)
    OBVIOUS
  <2>4. /\ y \in Lowered /\ y.word \in 0 .. 2 * P - 1
        /\ SameMod(y.word, UnRedc(t), P) /\ SignedFormRight(y)
    BY <1>1, <1>6, <2>2, <2>3, MontgomeryHere
  <2>5. v \in DOMAIN bound
    <3>1. SUFFICES ASSUME v \notin DOMAIN bound PROVE FALSE
      OBVIOUS
    <3>2. UmaxIn(bound, v) = P - 1
      BY <3>1 DEF UmaxIn
    <3>3. KpIn(bound, v) = 1
      BY <1>1, <3>2, KpCanonical DEF KpIn
    <3> QED BY <1>3, <1>4, <1>6, <3>3
  <2>6. bound[v] = 2 * P - 1
    BY <1>2, <2>5, ResultBound
  <2>7. y.word <= UmaxIn(bound, v)
    BY <2>4, <2>5, <2>6, <1>1, UnitFacts DEF UmaxIn
  <2>8. LazyOption => P - 1 <= RangeMax[v]
    BY <1>2, ResultRange
  <2>9. UnRedc(t) \in 0 .. P - 1
    BY <1>1, UnRedcFacts
  <2>10. Stands(y, UnRedc(t), v)
    BY <2>4, <2>7, <2>8, <2>9 DEF Stands
  <2> QED BY <1>2, <2>1, <2>3, <2>10 DEF Right, Result
<1> QED BY <1>5, <1>6

(* ConvertMontReduce; a lazy result stays below 2p. *)
LEMMA MontreduceRight ==
  ASSUME NEW k, Reached(k), ops[k].op = "montreduce", FullWidth => LookupKp(NArgs + k) <= 1
  PROVE  Right(k)
<1>1. PICK o, v : o = ops[k] /\ v = NArgs + k /\ o.op = "montreduce"
  OBVIOUS
<1>2. PICK p \in Nat, W \in Nat : p = P /\ W = WordSize /\ p >= 3 /\ p < W /\ RedcLimit = p * W
  BY ModulusFacts
<1>3. PICK l \in 0 .. W - 1, h \in 0 .. p - 1 : l = o.l /\ h = o.r
  <2>1. Program /\ k \in 1 .. Len(ops)
    BY ReachedUnit, CompiledFacts DEF Reached
  <2> QED BY <1>1, <1>2, <2>1, ProgramFacts
<1>4. PICK t \in Nat : t = l + h * W
  BY SMT
<1>5. t < RedcLimit
  <2>1. W * h <= W * (p - 1)
    BY <1>2, MulMono
  <2>2. W * h = h * W /\ W * (p - 1) = p * W - W
    BY SMT
  <2>3. PICK a \in Nat, b \in Nat : a = h * W /\ b = p * W
    BY SMT
  <2>4. a <= b - W
    BY <2>1, <2>2, <2>3
  <2> QED BY <1>2, <1>4, <2>3, <2>4
<1>6. /\ Lower(o, v) = Result(Reduce(t, FALSE, LookupKp(v) >= 2), {})
      /\ Meaning(o, v) = UnRedc(t)
  BY <1>1, <1>2, <1>3, <1>4, Patterns, Meanings DEF LowerMontReduce
<1>7. PICK s \in BOOLEAN : s = FALSE
  OBVIOUS
<1>8. Reducible(t, s)
  BY <1>5, <1>7 DEF Reducible
<1>9. Lower(ops[k], NArgs + k) = Result(Reduce(t, s, LookupKp(NArgs + k) >= 2), {})
  BY <1>1, <1>6, <1>7, Zenon
<1> QED BY <1>1, <1>6, <1>7, <1>8, <1>9, MontgomeryRight

(* ConvertBitcast passes its operand on: no bitcast takes a lazy one. *)
LEMMA BitcastRight ==
  ASSUME NEW k, Reached(k), ops[k].op = "bitcast"
  PROVE  Right(k)
<1>1. Compiled
  BY ReachedUnit
<1>2. PICK o, v : o = ops[k] /\ v = NArgs + k /\ o.op = "bitcast"
  OBVIOUS
<1>3. KnownCanonical(o.l)
  BY <1>2, OperandSettled, NeverTaken DEF Unary, Takers
<1>4. v \in Values /\ v > NArgs /\ Def(v) = o /\ Stands(val[o.l], ref[o.l], o.l)
  BY <1>2, ReachedFacts DEF Unary
<1>5. v \notin DOMAIN bound
  <2>1. SUFFICES ASSUME v \in DOMAIN bound PROVE FALSE
    OBVIOUS
  <2>2. BoundFrom(bound, v)
    BY <1>1, <2>1 DEF Compiled, MapOK
  <2> QED BY <1>2, <1>4, <2>2 DEF BoundFrom
<1>6. RangeMax[v] = RangeMax[o.l]
  <2>1. RangeMax[v] = RangeStep(RangeMax, v)
    BY <1>1, <1>4, CompiledFacts, RangeUnfolds
  <2> QED BY <1>2, <1>4, <2>1 DEF RangeStep, IsOp
<1>7. Stands(val[o.l], ref[o.l], v)
  <2>1. val[o.l].word <= UmaxIn(bound, v)
    BY <1>3, <1>5 DEF UmaxIn, KnownCanonical
  <2> QED BY <1>4, <1>6, <2>1 DEF Stands
<1>8. Lower(o, v) = Result(val[o.l], {}) /\ Meaning(o, v) = ref[o.l]
  BY <1>2, Patterns, Meanings
<1> QED BY <1>2, <1>7, <1>8 DEF Right, Result

(* ConvertConstant. *)
LEMMA ConstRight ==
  ASSUME NEW k, Reached(k), ops[k].op = "const"
  PROVE  Right(k)
<1>1. Compiled /\ unit \in Units
  BY ReachedUnit
<1>2. PICK o, v : o = ops[k] /\ v = NArgs + k /\ o.op = "const"
  OBVIOUS
<1>3. v \in Values /\ v > NArgs /\ Def(v) = o
  BY <1>2, ReachedFacts
<1>4. PICK c \in 0 .. P - 1 : c = o.l
  <2>1. Program /\ k \in 1 .. Len(ops)
    BY <1>1, CompiledFacts DEF Reached
  <2> QED BY <1>2, <2>1, ProgramFacts
<1>5. c \in Nat /\ Canonical(Plain(c), c)
  BY <1>1, CanonicalWord
<1>6. RangeMax[v] = Widen(c)
  <2>1. RangeMax[v] = RangeStep(RangeMax, v)
    BY <1>1, <1>3, CompiledFacts, RangeUnfolds
  <2> QED BY <1>2, <1>3, <1>4, <2>1 DEF RangeStep, IsOp
<1>7. c <= RangeMax[v]
  BY <1>5, <1>6 DEF Widen
<1>8. c <= UmaxIn(bound, v)
  <2>1. CASE v \in DOMAIN bound
    <3>1. BoundFrom(bound, v)
      BY <1>1, <2>1 DEF Compiled, MapOK
    <3>2. bound[v] = RangeMax[v]
      BY <1>2, <1>3, <3>1 DEF BoundFrom
    <3> QED BY <1>7, <2>1, <3>2 DEF UmaxIn
  <2>2. CASE v \notin DOMAIN bound
    BY <2>2 DEF UmaxIn
  <2> QED BY <2>1, <2>2
<1>9. Stands(Plain(c), c, v)
  BY <1>5, <1>7, <1>8, SameModEquivalence DEF Stands, Canonical
<1>10. Lower(o, v) = Result(Plain(c), {}) /\ Meaning(o, v) = c
  BY <1>2, <1>4, Patterns, Meanings
<1> QED BY <1>2, <1>9, <1>10 DEF Right, Result

(* In Montgomery form t * R^-1 is the representative of one when t is R^2. *)
LEMMA MontgomeryOne ==
  ASSUME unit \in Units, NEW t \in Int
  PROVE  UnRedc(t) = WordSize % P <=> t % P = RSquared
<1>1. PICK p \in Nat, W \in Nat : p = P /\ W = WordSize /\ p > 0
  BY UnitFacts
<1>2. PICK i \in Nat : i = RInv /\ SameMod(W * i, 1, p)
  BY <1>1, RInvFacts
<1>3. PICK ww \in Nat : ww = W * W /\ RSquared = ww % p
  <2>1. PICK ww \in Nat : ww = W * W
    BY SMT
  <2> QED BY <1>1, <2>1 DEF RSquared
<1>4. PICK u \in Int : u = UnRedc(t) /\ u \in 0 .. p - 1
  BY <1>1, UnRedcFacts
<1>5. ASSUME SameMod(ww, t, p) PROVE u = W % p
  <2>1. SameMod(WordSize * W, t, P)
    BY <1>1, <1>3, <1>5
  <2>2. W \in Int
    OBVIOUS
  <2>3. SameMod(W, UnRedc(t), P)
    BY ONLY <2>1, <2>2, UnRedcFacts, unit \in Units, t \in Int
  <2>4. SameMod(u, W, p)
    BY <1>1, <1>4, <2>3, SameModEquivalence
  <2> QED BY ONLY <1>1, <1>4, <2>2, <2>4, SameModSmall, p \in Nat
<1>6. ASSUME u = W % p PROVE SameMod(ww, t, p)
  <2>1. PICK ti \in Int : ti = t * i
    BY SMT
  <2>2. SameMod(u, ti, p)
    BY <1>1, <1>2, <1>4, <2>1, UnRedcFacts
  <2>3. SameMod(u, W, p)
    <3>1. W \in Int /\ p > 0
      BY <1>1
    <3>2. SameMod(W % p, W, p)
      BY ONLY <3>1, SameModResidue, p \in Nat
    <3> QED BY <1>6, <3>2
  <2>4. SameMod(ti, W, p)
    BY <2>2, <2>3, SameModEquivalence
  <2>5. i * t = ti /\ i * W = W * i
    BY <2>1, SMT
  <2>6. SameMod(i * W, 1, p) /\ SameMod(i * t, W, p)
    BY <1>2, <2>4, <2>5
  <2>7. SameMod(t, W * W, p)
    <3>1. i \in Int /\ W \in Int /\ p > 0
      BY <1>1
    <3> QED BY ONLY <2>6, <3>1, SameModCancel, p \in Nat, t \in Int
  <2> QED BY <1>3, <2>7, SameModEquivalence
<1> QED BY <1>1, <1>3, <1>4, <1>5, <1>6 DEF SameMod

(* ConvertInverse and ConvertMontInverse, whose operand is reduced first. *)
LEMMA InverseRight ==
  ASSUME NEW k, Reached(k), ops[k].op \in {"inverse", "montinverse"}
  PROVE  Right(k)
<1>1. unit \in Units
  BY ReachedUnit
<1>2. PICK o, v : o = ops[k] /\ v = NArgs + k /\ o.op \in {"inverse", "montinverse"}
  OBVIOUS
<1>3. KnownCanonical(o.l)
  BY <1>2, OperandSettled, NeverTaken DEF Unary, Takers
<1>4. PICK p \in Nat : p = P /\ p > 0
  BY <1>1, UnitFacts
<1>5. PICK x \in 0 .. p - 1 : p = P /\ p > 0 /\ x = ref[o.l] /\ x = val[o.l].word
  BY <1>3, <1>4 DEF KnownCanonical
<1> DEFINE mont == InMontgomeryForm[v]
           A == {y \in 1 .. P - 1 : (x * y) % P = IF mont THEN RSquared ELSE 1}
           B == {y \in 1 .. P - 1 : Product(v, x, y) = One(v)}
<1>6. A = B
  <2>1. ASSUME NEW y \in 1 .. P - 1
        PROVE  (x * y) % P = (IF mont THEN RSquared ELSE 1) <=> Product(v, x, y) = One(v)
    <3>1. PICK t \in Int : t = x * y
      BY <1>5
    <3>2. CASE mont
      <4>1. UnRedc(t) = WordSize % P <=> t % P = RSquared
        BY <1>1, MontgomeryOne
      <4> QED BY <3>1, <3>2, <4>1 DEF Product, One
    <3>3. CASE ~mont
      BY <3>3 DEF Product, One
    <3> QED BY <3>2, <3>3
  <2> HIDE DEF mont
  <2> QED BY <2>1, Zenon
<1>7. TheInverse(B) \in 0 .. P - 1
  <2>1. CASE B = {}
    <3>1. TheInverse(B) = 0
      BY <2>1, Zenon DEF TheInverse
    <3> QED BY <1>5, <3>1
  <2>2. CASE B # {}
    <3>1. PICK y : y \in B
      BY <2>2
    <3>2. (CHOOSE z \in B : TRUE) \in B
      BY <3>1, Zenon
    <3>3. TheInverse(B) = CHOOSE z \in B : TRUE
      BY <2>2, Zenon DEF TheInverse
    <3>4. TheInverse(B) \in 1 .. P - 1
      BY <3>2, <3>3
    <3> QED BY <1>5, <3>4
  <2> QED BY <2>1, <2>2
<1>8. LowerInverse(o, v) = Plain(TheInverse(A))
  <2>1. CanonicalFromExtended(val[o.l], LookupKp(o.l)).word = x
    BY <1>3, <1>5 DEF KnownCanonical
  <2>2. LowerInverse(o, v) = Plain(InverseWord(x, mont))
    BY <2>1, Zenon DEF LowerInverse
  <2> QED BY <2>2, Zenon DEF InverseWord
<1>9. Lower(o, v) = Result(Plain(TheInverse(B)), {})
  <2>1. Lower(o, v) = Result(LowerInverse(o, v), {})
    BY <1>2, Patterns
  <2> HIDE DEF A, B
  <2> QED BY <1>6, <1>8, <2>1
<1>10. Meaning(o, v) = TheInverse(B)
  <2>1. Meaning(o, v) = TheInverse({y \in 1 .. P - 1 : Product(v, ref[o.l], y) = One(v)})
    BY <1>2, Meanings
  <2>2. x = ref[o.l]
    BY <1>5
  <2> QED BY <2>1, <2>2, Zenon
<1>11. PICK b : b = TheInverse(B)
  OBVIOUS
<1> HIDE DEF A, B
<1>12. Canonical(Plain(b), b)
  BY <1>1, <1>7, <1>11, CanonicalWord
<1>13. ops[k].op \notin {"add", "double", "const", "bitcast"}
  BY <1>2
<1> QED BY <1>2, <1>9, <1>10, <1>11, <1>12, <1>13, CanonicalRight

\* The number a pattern multiplies to: signed forms if both factors have one.
BothSigned(x, y) == SingleLimb /\ x.signed # {} /\ y.signed # {}
\* The product of two values: of their signed forms when both have one.
Factored(x, y) ==
  IF BothSigned(x, y)
  THEN (CHOOSE s \in x.signed : TRUE) * (CHOOSE s \in y.signed : TRUE)
  ELSE x.word * y.word

\* A word that is congruent to r.
Factor(x, r) == x.word \in Nat /\ r \in 0 .. P - 1 /\ SameMod(x.word, r, P)

(* A signed form is congruent to its residue and no larger than p. *)
LEMMA SignedValue ==
  ASSUME unit \in Units, NEW x, NEW r, Factor(x, r), SignedFormRight(x), x.signed # {}
  PROVE  \E s \in Int : /\ s = (CHOOSE z \in x.signed : TRUE) /\ ~SignBitSet
                        /\ -P <= s /\ s <= P /\ SameMod(s, r, P)
<1>1. PICK p \in Nat, w \in Nat : p = P /\ p > 0 /\ w = x.word
  BY UnitFacts DEF Factor
<1>2. PICK s : s = (CHOOSE z \in x.signed : TRUE) /\ s \in x.signed
  <2>1. (CHOOSE z \in x.signed : TRUE) \in x.signed
    BY Zenon
  <2> QED BY <2>1
<1>3. ~SignBitSet /\ w \in 0 .. p - 1 /\ s \in {w, w - p}
  BY <1>1, <1>2 DEF SignedFormRight
<1>4. PICK n \in Int : n = s /\ -p <= n /\ n <= p
  BY <1>1, <1>3
<1>5. SameMod(n, w, p)
  <2>1. CASE n = w
    BY <2>1, SameModEquivalence
  <2>2. CASE n = w - p
    <3>1. n = w + p * (-1)
      BY <2>2, SMT
    <3>2. w \in Int /\ -1 \in Int
      OBVIOUS
    <3> QED BY ONLY <1>1, <3>1, <3>2, SameModIf, p \in Nat, n \in Int
  <2> QED BY <1>3, <1>4, <2>1, <2>2
<1>6. SameMod(n, r, p)
  BY <1>1, <1>5, SameModEquivalence DEF Factor
<1> QED BY <1>1, <1>2, <1>3, <1>4, <1>6

(* The product of two numbers within p of zero is within p * p of it. *)
LEMMA BoundedProduct ==
  ASSUME NEW p \in Nat, NEW a \in Int, NEW b \in Int, -p <= a, a <= p, -p <= b, b <= p
  PROVE  -(p * p) <= a * b /\ a * b <= p * p /\ a * a >= 0
<1>1. PICK c \in Nat, d \in Nat : (a = c \/ a = -c) /\ (b = d \/ b = -d) /\ c <= p /\ d <= p
  <2>1. PICK c \in Nat : (a = c \/ a = -c) /\ c <= p
    <3>1. CASE a >= 0
      BY <3>1
    <3>2. CASE a < 0
      <4>1. -a \in Nat /\ a = -(-a) /\ -a <= p
        BY <3>2
      <4> QED BY <4>1
    <3> QED BY <3>1, <3>2
  <2>2. PICK d \in Nat : (b = d \/ b = -d) /\ d <= p
    <3>1. CASE b >= 0
      BY <3>1
    <3>2. CASE b < 0
      <4>1. -b \in Nat /\ b = -(-b) /\ -b <= p
        BY <3>2
      <4> QED BY <4>1
    <3> QED BY <3>1, <3>2
  <2> QED BY <2>1, <2>2
<1>2. c * d <= c * p /\ p * c <= p * p
  BY <1>1, MulMono
<1>3. PICK e \in Nat, m \in Nat : e = c * d /\ m = c * p
  BY SMT
<1>4. PICK q \in Nat : q = p * p
  BY SMT
<1>5. c * p = p * c
  BY SMT
<1>6. e <= q
  BY <1>2, <1>3, <1>4, <1>5
<1>7. a * b = e \/ a * b = -e
  <2>1. CASE a = c /\ b = d
    BY <1>3, <2>1
  <2>2. CASE a = c /\ b = -d
    BY <1>3, <2>2, SMT
  <2>3. CASE a = -c /\ b = d
    BY <1>3, <2>3, SMT
  <2>4. CASE a = -c /\ b = -d
    BY <1>3, <2>4, SMT
  <2> QED BY <1>1, <2>1, <2>2, <2>3, <2>4
<1>8. a * a >= 0
  BY SMT
<1> QED BY <1>4, <1>6, <1>7, <1>8

\* Their product can be reduced, and to the right residue.
Multiplies(x, y, a, b, same) ==
  /\ Factored(x, y) \in Int
  /\ \E s \in BOOLEAN : /\ s = (BothSigned(x, y) /\ ~same)
                        /\ Reducible(Factored(x, y), s) /\ (s => SingleLimb)
  /\ UnRedc(Factored(x, y)) = UnRedc(a * b)
  /\ SameMod(Factored(x, y), a * b, P)

(* The product of two such factors can be reduced. *)
LEMMA FactorsReduce ==
  ASSUME NEW k, Reached(k), NEW x, NEW y, NEW a, NEW b, Factor(x, a), Factor(y, b),
         x.signed # {} /\ y.signed # {} => SignedFormRight(x) /\ SignedFormRight(y),
         NEW same \in BOOLEAN, same => x = y, x.word * y.word < RedcLimit
  PROVE  Multiplies(x, y, a, b, same)
<1>1. unit \in Units
  BY ReachedUnit
<1>2. PICK p \in Nat, W \in Nat : p = P /\ W = WordSize /\ p >= 3 /\ p < W /\ RedcLimit = p * W
  BY ModulusFacts
<1>3. PICK i \in Int, j \in Int : i = a /\ j = b
  BY <1>2 DEF Factor
<1>4. PICK ij \in Int : ij = i * j
  BY SMT
<1>5. ASSUME NEW m \in Int, NEW n \in Int, SameMod(m, i, p), SameMod(n, j, p), NEW t \in Int, t = m * n
      PROVE  UnRedc(t) = UnRedc(a * b) /\ SameMod(t, a * b, P)
  <2>1. SameMod(m * n, i * j, p)
    <3>1. p > 0
      BY <1>2
    <3> QED BY ONLY <1>5, <3>1, SameModProduct, p \in Nat, i \in Int, j \in Int
  <2>2. SameMod(t, ij, P)
    BY <1>2, <1>4, <1>5, <2>1
  <2>3. UnRedc(t) = UnRedc(ij)
    BY ONLY <1>1, <1>5, <2>2, UnRedcFacts, ij \in Int
  <2> QED BY <1>3, <1>4, <2>2, <2>3
<1>6. CASE BothSigned(x, y)
  <2>1. SignedFormRight(x) /\ SignedFormRight(y)
    BY <1>6 DEF BothSigned
  <2>2. PICK m \in Int : /\ m = (CHOOSE z \in x.signed : TRUE) /\ ~SignBitSet
                         /\ -P <= m /\ m <= P /\ SameMod(m, a, P)
    <3>1. x.signed # {}
      BY <1>6 DEF BothSigned
    <3> QED BY ONLY <1>1, <2>1, <3>1, Factor(x, a), SignedValue
  <2>3. PICK n \in Int : /\ n = (CHOOSE z \in y.signed : TRUE)
                         /\ -P <= n /\ n <= P /\ SameMod(n, b, P)
    <3>1. y.signed # {}
      BY <1>6 DEF BothSigned
    <3>2. PICK n \in Int : /\ n = (CHOOSE z \in y.signed : TRUE) /\ ~SignBitSet
                           /\ -P <= n /\ n <= P /\ SameMod(n, b, P)
      BY ONLY <1>1, <2>1, <3>1, Factor(y, b), SignedValue
    <3> QED BY <3>2
  <2>4. PICK t \in Int, q \in Int : t = m * n /\ q = p * p
    BY SMT
  <2>5. -q <= t /\ t <= q /\ m * m >= 0
    BY <1>2, <2>2, <2>3, <2>4, BoundedProduct
  <2>6. Factored(x, y) = t
    BY <1>6, <2>2, <2>3, <2>4, Zenon DEF Factored
  <2>7. PICK L \in Nat : L = p * W /\ 2 * q < L
    <3>1. PICK L \in Nat, d \in Nat : L = p * W /\ d = 2 * p
      BY SMT
    <3>2. d + 1 <= W
      BY <1>2, <2>2, <3>1 DEF SignBitSet
    <3>3. p * (d + 1) <= p * W
      BY <3>2, MulMono
    <3>4. p * (d + 1) = 2 * q + p
      BY <2>4, <3>1, SMT
    <3> QED BY <1>2, <3>1, <3>3, <3>4
  <2>8. PICK s \in BOOLEAN : s = (BothSigned(x, y) /\ ~same) /\ (s <=> ~same)
    BY <1>6
  <2>9. Reducible(t, s)
    <3>1. CASE s
      BY <1>2, <2>2, <2>5, <2>7, <3>1 DEF Reducible
    <3>2. CASE ~s
      <4>1. m = n
        BY <2>2, <2>3, <2>8, <3>2
      <4>2. 0 <= t
        BY <2>4, <2>5, <4>1
      <4> QED BY <1>2, <2>5, <2>7, <3>2, <4>2 DEF Reducible
    <3> QED BY <3>1, <3>2
  <2>10. SingleLimb
    BY <1>6 DEF BothSigned
  <2>11. UnRedc(t) = UnRedc(a * b) /\ SameMod(t, a * b, P)
    BY <1>2, <1>3, <1>5, <2>2, <2>3, <2>4
  <2> QED BY <2>6, <2>8, <2>9, <2>10, <2>11 DEF Multiplies
<1>7. CASE ~BothSigned(x, y)
  <2>1. PICK m \in Nat, n \in Nat : m = x.word /\ n = y.word
    BY DEF Factor
  <2>2. PICK t \in Nat : t = m * n
    BY SMT
  <2>3. Factored(x, y) = t
    BY <1>7, <2>1, <2>2 DEF Factored
  <2>4. t < RedcLimit
    BY <2>1, <2>2
  <2>5. PICK s \in BOOLEAN : s = (BothSigned(x, y) /\ ~same) /\ ~s
    BY <1>7
  <2>6. Reducible(t, s)
    BY <2>4, <2>5 DEF Reducible
  <2>7. UnRedc(t) = UnRedc(a * b) /\ SameMod(t, a * b, P)
    BY <1>2, <1>3, <1>5, <2>1, <2>2 DEF Factor
  <2>8. /\ Factored(x, y) \in Int /\ Reducible(Factored(x, y), s)
        /\ UnRedc(Factored(x, y)) = UnRedc(a * b) /\ SameMod(Factored(x, y), a * b, P)
    BY <2>3, <2>6, <2>7
  <2>9. s => SingleLimb
    BY <2>5
  <2> QED BY <2>5, <2>8, <2>9, Zenon DEF Multiplies
<1> QED BY <1>6, <1>7

(* Products grow with their factors. *)
LEMMA ProductGrows ==
  ASSUME NEW a \in Nat, NEW b \in Nat, NEW u \in Nat, NEW v \in Nat, a <= u, b <= v
  PROVE  a * b \in Nat /\ u * v \in Nat /\ a * b <= u * v
<1>1. a * b <= a * v /\ v * a <= v * u
  BY MulMono
<1>2. PICK c \in Nat, d \in Nat : c = a * v /\ d = u * v
  BY SMT
<1>3. v * a = a * v /\ v * u = u * v /\ a * b \in Nat
  BY SMT
<1> QED BY <1>1, <1>2, <1>3

(* A value that stands for a residue, as a factor of a product. *)
LEMMA StandsFactor ==
  ASSUME NEW k, Reached(k), NEW v, NEW x, NEW r, Stands(x, r, v)
  PROVE  /\ Factor(x, r) /\ x.word <= LookupUmax(v) /\ LookupUmax(v) \in Nat /\ LookupUmax(v) + 1 < Double
         /\ LookupKp(v) = KpFromUmax(LookupUmax(v)) /\ x.word < P * LookupKp(v)
         /\ LookupKp(v) \in Nat /\ LookupKp(v) >= 1
         /\ LookupKp(v) > 1 <=> LookupUmax(v) >= P
         /\ x.word <= WMax
<1>1. Compiled /\ unit \in Units
  BY ReachedUnit
<1>2. x.word \in Nat /\ x.word <= WMax /\ Factor(x, r)
  BY <1>1, WordFacts DEF Stands, Lowered, Factor
<1>3. PICK u \in Nat : u = LookupUmax(v) /\ u = UmaxIn(bound, v) /\ u + 1 < Double
  BY <1>1, CompiledFacts, UmaxFacts
<1>4. PICK n \in Nat : /\ n = KpFromUmax(u) /\ n >= 1 /\ u < P * n
                       /\ n > 1 <=> u >= P
  BY <1>1, <1>3, KpFacts
<1>5. x.word <= u
  BY <1>3 DEF Stands
<1>6. PICK p \in Nat : p = P
  BY <1>1, UnitFacts
<1>7. PICK m \in Nat : m = p * n
  BY SMT
<1>8. x.word < p * n
  BY <1>2, <1>3, <1>4, <1>5, <1>6, <1>7
<1>9. LookupKp(v) = n
  BY <1>3, <1>4 DEF LookupKp
<1> QED BY <1>2, <1>3, <1>4, <1>5, <1>6, <1>8, <1>9

(* ConvertMontMul, once the operands it reduced are named. *)
LEMMA MontMulIs ==
  ASSUME NEW l, NEW r, NEW lazy, NEW x, NEW y,
         PreReduce(l, r, LookupUmax(l) * LookupUmax(r) >= RedcLimit,
                   (P - 1) * LookupUmax(r) < RedcLimit, LookupUmax(l) * (P - 1) < RedcLimit) = <<x, y>>,
         NEW same, same = (l = r /\ (~(LookupUmax(l) * LookupUmax(r) >= RedcLimit) \/ LookupKp(l) <= 1))
  PROVE  LowerMontMul(l, r, lazy) = Reduce(Factored(x, y), BothSigned(x, y) /\ ~same, lazy)
<1> DEFINE opnd == PreReduce(l, r, LookupUmax(l) * LookupUmax(r) >= RedcLimit,
                   (P - 1) * LookupUmax(r) < RedcLimit, LookupUmax(l) * (P - 1) < RedcLimit)
<1>1. opnd[1] = x /\ opnd[2] = y
  <2>1. <<x, y>>[1] = x /\ <<x, y>>[2] = y
    OBVIOUS
  <2>2. opnd = <<x, y>>
    BY Zenon
  <2> HIDE DEF opnd
  <2> QED BY <2>1, <2>2
<1> DEFINE both == l = r /\ (~(LookupUmax(l) * LookupUmax(r) >= RedcLimit) \/ LookupKp(l) <= 1)
<1>2. LowerMontMul(l, r, lazy) =
        Reduce(Factored(opnd[1], opnd[2]), BothSigned(opnd[1], opnd[2]) /\ ~both, lazy)
  BY Zenon DEF LowerMontMul, Factored, BothSigned
<1>3. same = both
  OBVIOUS
<1> HIDE DEF opnd, both
<1>4. PICK a, b, c : a = opnd[1] /\ b = opnd[2] /\ c = both
                     /\ LowerMontMul(l, r, lazy) = Reduce(Factored(a, b), BothSigned(a, b) /\ ~c, lazy)
  BY <1>2, Zenon
<1>5. a = x /\ b = y /\ c = same
  BY <1>1, <1>3, <1>4
<1>6. Factored(a, b) = Factored(x, y)
  BY <1>5
<1>7. (BothSigned(a, b) /\ ~c) = (BothSigned(x, y) /\ ~same)
  BY <1>5
<1> QED BY ONLY <1>4, <1>6, <1>7

(* ConvertMontMul: at most the left operand has to be reduced first. *)
LEMMA MontgomeryProduct ==
  ASSUME NEW k, Reached(k), NEW l, NEW r, Stands(val[l], ref[l], l), Stands(val[r], ref[r], r),
         LookupUmax(l) * LookupUmax(r) >= RedcLimit =>
           /\ LookupKp(l) > 1
           /\ LookupUmax(l) * (P - 1) < RedcLimit /\ (P - 1) * LookupUmax(r) < RedcLimit,
         NEW lazy
  PROVE  \E t \in Int, s \in BOOLEAN :
           /\ LowerMontMul(l, r, lazy) = Reduce(t, s, lazy)
           /\ Reducible(t, s) /\ (s => SingleLimb) /\ UnRedc(t) = UnRedc(ref[l] * ref[r])
<1>1. unit \in Units
  BY ReachedUnit
<1>2. /\ Factor(val[l], ref[l])
      /\ val[l].word <= LookupUmax(l) /\ LookupUmax(l) \in Nat
      /\ LookupUmax(l) + 1 < Double /\ LookupKp(l) = KpFromUmax(LookupUmax(l))
      /\ val[l].word < P * LookupKp(l) /\ LookupKp(l) \in Nat /\ LookupKp(l) >= 1
  BY StandsFactor
<1>3. Factor(val[r], ref[r]) /\ val[r].word <= LookupUmax(r) /\ LookupUmax(r) \in Nat
  BY StandsFactor
<1>4. SignedFormRight(val[l]) /\ SignedFormRight(val[r]) /\ val[l] \in Lowered /\ val[r] \in Lowered
  BY DEF Stands
<1> DEFINE needed == LookupUmax(l) * LookupUmax(r) >= RedcLimit
           both == l = r /\ (~needed \/ LookupKp(l) <= 1)
<1>5. PICK same \in BOOLEAN : same = both
  OBVIOUS
<1>6. PICK p \in Nat, W \in Nat : p = P /\ W = WordSize /\ p >= 3 /\ p < W /\ RedcLimit = p * W
  BY ModulusFacts
<1>7. RedcLimit \in Nat
  <2>1. p * W \in Nat
    BY SMT
  <2> QED BY <1>6, <2>1
<1>8. \E x, y : /\ PreReduce(l, r, needed, (P - 1) * LookupUmax(r) < RedcLimit,
                             LookupUmax(l) * (P - 1) < RedcLimit) = <<x, y>>
                /\ Factor(x, ref[l]) /\ Factor(y, ref[r])
                /\ x.signed # {} /\ y.signed # {} => SignedFormRight(x) /\ SignedFormRight(y)
                /\ same => x = y
                /\ x.word * y.word < RedcLimit
  <2>1. CASE ~needed
    <3>1. PreReduce(l, r, needed, (P - 1) * LookupUmax(r) < RedcLimit,
                    LookupUmax(l) * (P - 1) < RedcLimit) = <<val[l], val[r]>>
      BY <2>1 DEF PreReduce
    <3>2. val[l].word * val[r].word < RedcLimit
      <4>1. PICK a \in Nat, b \in Nat, u \in Nat, w \in Nat :
              a = val[l].word /\ b = val[r].word /\ u = LookupUmax(l) /\ w = LookupUmax(r) /\ a <= u /\ b <= w
        BY <1>2, <1>3 DEF Factor
      <4>2. a * b \in Nat /\ u * w \in Nat /\ a * b <= u * w
        BY <4>1, ProductGrows
      <4>3. ~(u * w >= RedcLimit)
        BY <2>1, <4>1
      <4>4. PICK c \in Nat, d \in Nat : c = a * b /\ d = u * w
        BY <4>2
      <4> QED BY <1>7, <4>1, <4>2, <4>3, <4>4
    <3>3. same => val[l] = val[r]
      BY <1>5
    <3> QED BY <1>2, <1>3, <1>4, <3>1, <3>2, <3>3
  <2>2. CASE needed
    <3> DEFINE x == CanonicalFromExtended(val[l], LookupKp(l))
               y == val[r]
    <3>1. LookupKp(l) > 1 /\ LookupUmax(l) * (P - 1) < RedcLimit /\ (P - 1) * LookupUmax(r) < RedcLimit
      BY <2>2
    <3>2. PreReduce(l, r, needed, (P - 1) * LookupUmax(r) < RedcLimit,
                    LookupUmax(l) * (P - 1) < RedcLimit) = <<x, y>>
      BY <2>2, <3>1 DEF PreReduce
    <3>3. MultiplesFit(LookupKp(l))
      BY <1>1, <1>2, <3>1, ProductMultiplesFit
    <3>4. x.word = val[l].word % P
      BY <1>1, <1>2, <1>4, <3>3, ExtendedWord
    <3>5. PICK a \in Nat, b \in Nat, u \in Nat : a = val[l].word /\ b = val[r].word /\ u = LookupUmax(r) /\ b <= u
      BY <1>2, <1>3 DEF Factor
    <3>6. PICK n \in 0 .. p - 1 : n = x.word /\ SameMod(n, a, p)
      <4>1. a \in Int /\ p > 0
        BY <1>6
      <4>2. a % p \in 0 .. p - 1 /\ SameMod(a % p, a, p)
        BY ONLY <4>1, SameModResidue, p \in Nat
      <4> QED BY <1>6, <3>4, <3>5, <4>2
    <3>7. Factor(x, ref[l])
      <4>1. SameMod(n, ref[l], P)
        BY <1>2, <1>6, <3>5, <3>6, SameModEquivalence DEF Factor
      <4> HIDE DEF x
      <4> QED BY <1>2, <3>6, <4>1 DEF Factor
    <3>8. y.signed # {} => SignedFormRight(x) /\ SignedFormRight(y)
      <4>1. SUFFICES ASSUME y.signed # {} PROVE SignedFormRight(x) /\ SignedFormRight(y)
        OBVIOUS
      <4>2. ~SignBitSet /\ SignedFormRight(y)
        BY <1>4, <4>1 DEF SignedFormRight
      <4>3. Canonical(x, val[l].word % P)
        BY <1>1, <1>2, <1>4, <3>3, <4>2, ExtendedCanonical
      <4> QED BY <4>2, <4>3 DEF Canonical
    <3>9. ~same
      <4>1. ~both
        BY <1>2, <2>2, <3>1
      <4> QED BY <1>5, <4>1
    <3>10. x.word * y.word < RedcLimit
      <4>1. PICK q \in Nat : q = p - 1
        BY <1>6
      <4>2. n * b \in Nat /\ q * u \in Nat /\ n * b <= q * u
        <5>1. n \in Nat /\ n <= q
          BY <1>6, <4>1
        <5> QED BY <3>5, <5>1, ProductGrows
      <4>3. q * u < RedcLimit
        BY <1>6, <3>1, <3>5, <4>1
      <4>4. PICK c \in Nat, d \in Nat : c = n * b /\ d = q * u
        BY <4>2
      <4>5. n * b < RedcLimit
        BY <1>7, <4>2, <4>3, <4>4
      <4> QED BY <3>5, <3>6, <4>5
    <3> HIDE DEF x, y
    <3>11. Factor(y, ref[r])
      BY <1>3 DEF y
    <3> QED BY <3>2, <3>7, <3>8, <3>9, <3>10, <3>11
  <2> HIDE DEF needed
  <2> QED BY <2>1, <2>2
<1>9. PICK x, y : /\ PreReduce(l, r, needed, (P - 1) * LookupUmax(r) < RedcLimit,
                               LookupUmax(l) * (P - 1) < RedcLimit) = <<x, y>>
                  /\ Factor(x, ref[l]) /\ Factor(y, ref[r])
                  /\ x.signed # {} /\ y.signed # {} => SignedFormRight(x) /\ SignedFormRight(y)
                  /\ same => x = y
                  /\ x.word * y.word < RedcLimit
  BY <1>8
<1>10. LowerMontMul(l, r, lazy) = Reduce(Factored(x, y), BothSigned(x, y) /\ ~same, lazy)
  BY <1>5, <1>9, MontMulIs
<1>11. /\ Factored(x, y) \in Int
       /\ \E s \in BOOLEAN : /\ s = (BothSigned(x, y) /\ ~same)
                             /\ Reducible(Factored(x, y), s) /\ (s => SingleLimb)
       /\ UnRedc(Factored(x, y)) = UnRedc(ref[l] * ref[r])
  <2>1. Multiplies(x, y, ref[l], ref[r], same)
    BY <1>9, FactorsReduce
  <2> QED BY <2>1 DEF Multiplies
<1>12. PICK s \in BOOLEAN : /\ s = (BothSigned(x, y) /\ ~same)
                           /\ Reducible(Factored(x, y), s) /\ (s => SingleLimb)
  BY <1>11
<1>13. LowerMontMul(l, r, lazy) = Reduce(Factored(x, y), s, lazy)
  BY ONLY <1>10, <1>12
<1> QED BY <1>11, <1>12, <1>13

(* An operand is canonical, or lazy and fit for its consumer. *)
LEMMA LazyTaken ==
  ASSUME NEW k, Reached(k), NEW x,
         \/ ops[k].op \in Binary /\ x \in {ops[k].l, ops[k].r}
         \/ ops[k].op \in Unary /\ x = ops[k].l
  PROVE  \/ KnownCanonical(x)
         \/ /\ x \in DOMAIN bound /\ LookupUmax(x) = bound[x] /\ LookupKp(x) > 1
            /\ Takes(bound, ops[k], x)
<1>1. Compiled /\ unit \in Units
  BY ReachedUnit
<1>2. k \in Users(x)
  BY ReachedFacts
<1>3. CASE KpIn(bound, x) > 1
  <2>1. UmaxIn(bound, x) >= P /\ P \in Nat /\ P >= 3
    BY <1>1, <1>3, CompiledFacts, UmaxFacts, UnitFacts
  <2>2. x \in DOMAIN bound
    BY <2>1 DEF UmaxIn
  <2>3. Benefits(bound, x)
    BY <1>1, <1>3, <2>2 DEF Compiled, Settled
  <2>4. Takes(bound, ops[k], x)
    BY <1>2, <2>3 DEF Benefits
  <2>5. LookupKp(x) > 1 /\ LookupUmax(x) = bound[x]
    BY <1>1, <1>3, <2>2, CompiledFacts DEF UmaxIn
  <2> QED BY <2>2, <2>4, <2>5
<1>4. CASE ~(KpIn(bound, x) > 1)
  <2>1. Stands(val[x], ref[x], x)
    BY ReachedFacts
  <2>2. /\ KpIn(bound, x) = 1 /\ UmaxIn(bound, x) \in Nat /\ UmaxIn(bound, x) <= P - 1
    <3>1. /\ UmaxIn(bound, x) \in Nat /\ KpIn(bound, x) \in Nat /\ KpIn(bound, x) >= 1
          /\ KpIn(bound, x) > 1 <=> UmaxIn(bound, x) >= P
      BY <1>1, CompiledFacts, UmaxFacts
    <3> QED BY <1>1, <1>4, <3>1, UnitFacts
  <2>3. LookupKp(x) = 1 /\ LookupUmax(x) = UmaxIn(bound, x)
    BY <1>1, <2>2, CompiledFacts
  <2>4. Canonical(val[x], ref[x]) /\ val[x].word = ref[x] /\ ref[x] \in 0 .. P - 1
        /\ CanonicalFromExtended(val[x], LookupKp(x)) = val[x]
    BY <1>1, <2>1, <2>2, CanonicalOperand
  <2> QED BY <2>2, <2>3, <2>4 DEF KnownCanonical
<1> QED BY <1>3, <1>4

(* Canonical factors make a product that can be reduced. *)
LEMMA SettledProduct ==
  ASSUME NEW k, Reached(k), NEW u \in Nat, NEW v \in Nat, u <= P - 1, v <= P - 1
  PROVE  u * v < RedcLimit /\ ~(u * v >= RedcLimit)
<1>1. PICK p \in Nat, W \in Nat : p = P /\ W = WordSize /\ p >= 3 /\ p < W /\ RedcLimit = p * W
  BY ModulusFacts
<1>2. u \in 0 .. p - 1 /\ v \in 0 .. W - 1
  BY <1>1
<1>3. u * v \in Nat /\ u * v < p * W
  BY <1>1, <1>2, ProductReducible
<1>4. PICK n \in Nat, m \in Nat : n = u * v /\ m = p * W /\ n < m
  <2>1. p * W \in Nat
    BY SMT
  <2> QED BY <1>3, <2>1
<1> QED BY <1>1, <1>4

(* ConvertMontMul. *)
LEMMA MontmulRight ==
  ASSUME NEW k, Reached(k), ops[k].op = "montmul", FullWidth => LookupKp(NArgs + k) <= 1
  PROVE  Right(k)
<1>1. PICK o, v, l, r : o = ops[k] /\ v = NArgs + k /\ o.op = "montmul" /\ l = o.l /\ r = o.r
  OBVIOUS
<1>2. o.op \in Binary
  BY <1>1 DEF Binary
<1>3. Stands(val[l], ref[l], l) /\ Stands(val[r], ref[r], r)
  BY <1>1, <1>2, ReachedFacts
<1>4. /\ LookupUmax(l) \in Nat /\ LookupUmax(r) \in Nat
  BY <1>3, StandsFactor
<1>5. PICK p \in Nat, W \in Nat : p = P /\ W = WordSize /\ p >= 3 /\ p < W /\ RedcLimit = p * W
  BY ModulusFacts
<1>6. PICK a \in Nat, b \in Nat : a = LookupUmax(l) /\ b = LookupUmax(r)
  BY <1>4
<1>7. PICK q \in Nat, L \in Nat : q = p - 1 /\ L = RedcLimit
  <2>1. p * W \in Nat
    BY SMT
  <2> QED BY <1>5, <2>1
<1>8. a * b = b * a /\ a * b \in Nat
  BY SMT
<1>9. \/ KnownCanonical(l)
      \/ LookupKp(l) > 1 /\ (a * b < L \/ a * q < L)
  <2>1. CASE l \in DOMAIN bound /\ LookupUmax(l) = bound[l] /\ LookupKp(l) > 1 /\ Takes(bound, o, l)
    <3>1. \/ bound[l] * UmaxIn(bound, IF o.l = l THEN o.r ELSE o.l) < RedcLimit
          \/ bound[l] * (P - 1) < RedcLimit
      BY <1>1, <2>1 DEF Takes
    <3>2. UmaxIn(bound, IF o.l = l THEN o.r ELSE o.l) = b
      BY <1>1, <1>6, ReachedUnit, CompiledFacts
    <3>3. bound[l] = a /\ P - 1 = q
      BY <1>5, <1>6, <1>7, <2>1
    <3>4. a * b < L \/ a * q < L
      BY <1>7, <3>1, <3>2, <3>3
    <3> QED BY <2>1, <3>4
  <2> QED BY <1>1, <1>2, <2>1, LazyTaken
<1>10. \/ KnownCanonical(r)
       \/ LookupKp(r) > 1 /\ (a * b < L \/ b * q < L)
  <2>1. CASE r \in DOMAIN bound /\ LookupUmax(r) = bound[r] /\ LookupKp(r) > 1 /\ Takes(bound, o, r)
    <3>1. \/ bound[r] * UmaxIn(bound, IF o.l = r THEN o.r ELSE o.l) < RedcLimit
          \/ bound[r] * (P - 1) < RedcLimit
      BY <1>1, <2>1 DEF Takes
    <3>2. UmaxIn(bound, IF o.l = r THEN o.r ELSE o.l) = a
      BY <1>1, <1>6, ReachedUnit, CompiledFacts
    <3>3. bound[r] = b /\ P - 1 = q
      BY <1>5, <1>6, <1>7, <2>1
    <3>4. b * a < L \/ b * q < L
      BY <1>7, <3>1, <3>2, <3>3
    <3>5. a * b < L \/ b * q < L
      BY <1>8, <3>4
    <3> QED BY <2>1, <3>5
  <2> QED BY <1>1, <1>2, <2>1, LazyTaken
<1>11. KnownCanonical(l) => a <= q
  BY <1>5, <1>6, <1>7 DEF KnownCanonical
<1>12. KnownCanonical(r) => b <= q
  BY <1>5, <1>6, <1>7 DEF KnownCanonical
<1>13. ASSUME ~(a * b < L)
       PROVE  LookupKp(l) > 1 /\ a * q < L /\ q * b < L
  <2>1. a * q \in Nat /\ b * q \in Nat /\ q * b = b * q /\ q * q \in Nat
    BY SMT
  <2>2. CASE KnownCanonical(l) /\ KnownCanonical(r)
    <3>1. a * b < RedcLimit
      BY <1>5, <1>7, <1>11, <1>12, <2>2, SettledProduct
    <3> QED BY <1>7, <1>13, <3>1
  <2>3. CASE KnownCanonical(l) /\ b * q < L
    <3>1. b * a <= b * q
      BY <1>11, <2>3, MulMono
    <3>2. PICK c \in Nat, d \in Nat : c = b * a /\ d = b * q
      BY <1>8, <2>1
    <3> QED BY <1>8, <1>13, <2>3, <3>1, <3>2
  <2>4. CASE KnownCanonical(r) /\ a * q < L
    <3>1. a * b <= a * q
      BY <1>12, <2>4, MulMono
    <3>2. PICK c \in Nat, d \in Nat : c = a * b /\ d = a * q
      BY <1>8, <2>1
    <3> QED BY <1>13, <2>4, <3>1, <3>2
  <2>5. CASE LookupKp(l) > 1 /\ a * q < L /\ b * q < L
    BY <2>1, <2>5
  <2> QED BY <1>9, <1>10, <1>13, <2>2, <2>3, <2>4, <2>5
<1>14. LookupUmax(l) * LookupUmax(r) >= RedcLimit =>
           /\ LookupKp(l) > 1
           /\ LookupUmax(l) * (P - 1) < RedcLimit /\ (P - 1) * LookupUmax(r) < RedcLimit
  <2>1. PICK n \in Nat : n = a * b
    BY <1>8
  <2>2. n >= L => ~(a * b < L)
    BY <2>1
  <2>3. a * b >= L => LookupKp(l) > 1 /\ a * q < L /\ q * b < L
    BY <1>13, <2>1, <2>2
  <2> QED BY <1>5, <1>6, <1>7, <2>3
<1>15. PICK t \in Int, s \in BOOLEAN :
           /\ LowerMontMul(l, r, LookupKp(v) >= 2) = Reduce(t, s, LookupKp(v) >= 2)
           /\ Reducible(t, s) /\ (s => SingleLimb) /\ UnRedc(t) = UnRedc(ref[l] * ref[r])
  BY <1>3, <1>14, MontgomeryProduct
<1>16. Lower(o, v) = Result(LowerMontMul(l, r, LookupKp(v) >= 2), {}) /\ Meaning(o, v) = UnRedc(ref[l] * ref[r])
  BY <1>1, Patterns, Meanings
<1>17. Lower(o, v) = Result(Reduce(t, s, LookupKp(v) >= 2), {})
  BY <1>15, <1>16
<1>18. ops[k].op \in {"montmul", "montsquare", "montreduce"}
  BY <1>1
<1> QED BY ONLY <1>1, <1>15, <1>16, <1>17, <1>18, MontgomeryRight, Reached(k), FullWidth => LookupKp(NArgs + k) <= 1

(* squareExtended is the product of a value with itself. *)
LEMMA SquaredIs == \A x : Squared(x) = Factored(x, x)
<1> TAKE x
<1>1. CASE SingleLimb /\ x.signed # {}
  <2>1. BothSigned(x, x)
    BY <1>1 DEF BothSigned
  <2>2. PICK z : z = (CHOOSE s \in x.signed : TRUE)
    OBVIOUS
  <2>3. Factored(x, x) = z * z
    BY <2>1, <2>2, Zenon DEF Factored
  <2>4. Squared(x) = z * z
    BY <1>1, <2>2 DEF Squared
  <2> QED BY <2>3, <2>4
<1>2. CASE ~(SingleLimb /\ x.signed # {})
  <2>1. ~BothSigned(x, x)
    BY <1>2 DEF BothSigned
  <2>2. Factored(x, x) = x.word * x.word
    BY <2>1, Zenon DEF Factored
  <2>3. Squared(x) = x.word * x.word
    BY <1>2 DEF Squared
  <2> QED BY <2>2, <2>3
<1> QED BY <1>1, <1>2

(* The square of an operand, signed or not. *)
LEMMA SquareFacts ==
  ASSUME NEW k, Reached(k), NEW x, NEW r, NEW v, Stands(x, r, v), x.word * x.word < RedcLimit
  PROVE  /\ Squared(x) \in Nat /\ Squared(x) < RedcLimit
         /\ UnRedc(Squared(x)) = UnRedc(r * r) /\ SameMod(Squared(x), r * r, P)
<1>1. Factor(x, r) /\ SignedFormRight(x)
  BY StandsFactor DEF Stands
<1>2. PICK same \in BOOLEAN : same = TRUE
  OBVIOUS
<1>3. /\ Factored(x, x) \in Int
      /\ \E s \in BOOLEAN : /\ s = (BothSigned(x, x) /\ ~same)
                            /\ Reducible(Factored(x, x), s) /\ (s => SingleLimb)
      /\ UnRedc(Factored(x, x)) = UnRedc(r * r)
      /\ SameMod(Factored(x, x), r * r, P)
  <2>1. Multiplies(x, x, r, r, same)
    BY <1>1, <1>2, FactorsReduce
  <2> QED BY <2>1 DEF Multiplies
<1>4. PICK s \in BOOLEAN : s = (BothSigned(x, x) /\ ~same) /\ Reducible(Factored(x, x), s)
  BY <1>3
<1>5. ~s
  BY <1>2, <1>4
<1>6. 0 <= Factored(x, x) /\ Factored(x, x) < RedcLimit
  BY <1>4, <1>5 DEF Reducible
<1> QED BY <1>3, <1>6, SquaredIs

(* ConvertMontSquare reduces nothing first. *)
LEMMA MontgomerySquare ==
  ASSUME NEW k, Reached(k), NEW l, Stands(val[l], ref[l], l),
         ~(LookupUmax(l) * LookupUmax(l) >= RedcLimit), NEW lazy
  PROVE  \E t \in Nat : /\ LowerMontSquare(l, lazy) = Reduce(t, FALSE, lazy)
                        /\ t < RedcLimit /\ UnRedc(t) = UnRedc(ref[l] * ref[l])
<1>1. LowerMontSquare(l, lazy) = Reduce(Squared(val[l]), FALSE, lazy)
  BY DEF LowerMontSquare
<1>2. PICK a \in Nat, u \in Nat : a = val[l].word /\ u = LookupUmax(l) /\ a <= u
  BY StandsFactor DEF Factor
<1>3. a * a \in Nat /\ u * u \in Nat /\ a * a <= u * u
  BY <1>2, ProductGrows
<1>4. a * a < RedcLimit
  <2>1. PICK c \in Nat, d \in Nat : c = a * a /\ d = u * u
    BY <1>3
  <2>2. PICK p \in Nat, W \in Nat : p = P /\ W = WordSize /\ p >= 3 /\ p < W /\ RedcLimit = p * W
    BY ModulusFacts
  <2>3. PICK L \in Nat : L = p * W
    BY SMT
  <2>4. ~(d >= L)
    BY <1>2, <2>1, <2>2, <2>3
  <2> QED BY <1>3, <2>1, <2>2, <2>3, <2>4
<1>5. /\ Squared(val[l]) \in Nat /\ Squared(val[l]) < RedcLimit
      /\ UnRedc(Squared(val[l])) = UnRedc(ref[l] * ref[l])
  BY <1>2, <1>4, SquareFacts
<1> QED BY <1>1, <1>5

(* ConvertMontSquare. *)
LEMMA MontsquareRight ==
  ASSUME NEW k, Reached(k), ops[k].op = "montsquare", FullWidth => LookupKp(NArgs + k) <= 1
  PROVE  Right(k)
<1>1. PICK o, v, l : o = ops[k] /\ v = NArgs + k /\ o.op = "montsquare" /\ l = o.l
  OBVIOUS
<1>2. o.op \in Unary
  BY <1>1 DEF Unary
<1>3. Stands(val[l], ref[l], l)
  BY <1>1, <1>2, ReachedFacts
<1>4. PICK u \in Nat : u = LookupUmax(l)
  BY <1>3, StandsFactor
<1>5. ~(u * u >= RedcLimit)
  <2>1. CASE KnownCanonical(l)
    BY <1>4, <2>1, SettledProduct DEF KnownCanonical
  <2>2. CASE LookupUmax(l) = bound[l] /\ Takes(bound, o, l)
    <3>1. u * u < RedcLimit
      BY <1>1, <1>4, <2>2 DEF Takes
    <3>2. PICK p \in Nat, W \in Nat : p = P /\ W = WordSize /\ p >= 3 /\ p < W /\ RedcLimit = p * W
      BY ModulusFacts
    <3>3. PICK L \in Nat, d \in Nat : L = p * W /\ d = u * u
      BY SMT
    <3> QED BY <3>1, <3>2, <3>3
  <2> QED BY <1>1, <1>2, <2>1, <2>2, LazyTaken
<1>6. PICK t \in Nat : /\ LowerMontSquare(l, LookupKp(v) >= 2) = Reduce(t, FALSE, LookupKp(v) >= 2)
                       /\ t < RedcLimit /\ UnRedc(t) = UnRedc(ref[l] * ref[l])
  BY <1>3, <1>4, <1>5, MontgomerySquare
<1>7. PICK s \in BOOLEAN : s = FALSE
  OBVIOUS
<1>8. Reducible(t, s) /\ (s => SingleLimb) /\ t \in Int
  BY <1>6, <1>7 DEF Reducible
<1>9. Lower(o, v) = Result(LowerMontSquare(l, LookupKp(v) >= 2), {}) /\ Meaning(o, v) = UnRedc(t)
  BY <1>1, <1>6, Patterns, Meanings
<1>10. Lower(o, v) = Result(Reduce(t, s, LookupKp(v) >= 2), {})
  BY <1>6, <1>7, <1>9
<1>11. ops[k].op \in {"montmul", "montsquare", "montreduce"}
  BY <1>1
<1> QED BY ONLY <1>1, <1>8, <1>9, <1>10, <1>11, MontgomeryRight, Reached(k), FullWidth => LookupKp(NArgs + k) <= 1

(* A product reduced by SolinasReducer, over the Goldilocks moduli. *)
LEMMA SolinasRight ==
  ASSUME NEW k, Reached(k), ops[k].op \in {"mul", "square"}, Goldilocks,
         NEW t \in 0 .. WMax * WMax, NEW m \in Int, SameMod(t, m, P),
         Lower(ops[k], NArgs + k) = Result(SolinasReduce(t, LookupKp(NArgs + k) >= 2), {}),
         Meaning(ops[k], NArgs + k) = m % P
  PROVE  Right(k)
<1>1. unit \in Units /\ Compiled
  BY ReachedUnit
<1>2. PICK v : v = NArgs + k
  OBVIOUS
<1>3. PICK n \in Nat : n = LookupKp(v) /\ n = KpIn(bound, v)
  BY <1>1, CompiledFacts, UmaxFacts
<1>4. PICK lazy \in BOOLEAN : lazy = (LookupKp(v) >= 2) /\ (lazy <=> n >= 2)
  <2>1. (LookupKp(v) >= 2) \in BOOLEAN
    BY <1>3
  <2> QED BY <1>3, <2>1, Zenon
<1>5. PICK y : y = SolinasReduce(t, lazy)
  OBVIOUS
<1>6. /\ y \in Lowered /\ SignedFormRight(y) /\ SameMod(y.word, t, P)
      /\ ~lazy => Canonical(y, t % P)
  BY <1>1, <1>5, SolinasHere
<1>7. Lower(ops[k], v) = Result(y, {}) /\ Meaning(ops[k], v) = m % P /\ m % P = t % P
  BY <1>2, <1>4, <1>5 DEF SameMod
<1>8. ops[k].op \notin {"add", "double", "const", "bitcast"}
  OBVIOUS
<1>9. CASE ~lazy
  BY <1>2, <1>6, <1>7, <1>8, <1>9, CanonicalRight
<1>10. CASE lazy
  <2>1. v \in DOMAIN bound
    <3>1. SUFFICES ASSUME v \notin DOMAIN bound PROVE FALSE
      OBVIOUS
    <3>2. UmaxIn(bound, v) = P - 1
      BY <3>1 DEF UmaxIn
    <3>3. KpIn(bound, v) = 1
      BY <1>1, <3>2, KpCanonical DEF KpIn
    <3>4. n >= 2
      BY <1>4, <1>10, Zenon
    <3> QED BY <1>3, <3>3, <3>4
  <2>2. bound[v] = WMax
    BY <1>2, <2>1, ResultBound
  <2>3. y.word \in 0 .. WMax
    BY <1>1, <1>6, WordFacts DEF Lowered
  <2>4. y.word <= UmaxIn(bound, v)
    BY <2>1, <2>2, <2>3 DEF UmaxIn
  <2>5. LazyOption => P - 1 <= RangeMax[v]
    BY <1>2, <1>8, ResultRange
  <2>6. PICK r \in 0 .. P - 1 : r = m % P /\ SameMod(y.word, r, P)
    <3>1. PICK p \in Nat : p = P /\ p > 0
      BY <1>1, UnitFacts
    <3>2. m % p \in 0 .. p - 1 /\ SameMod(m % p, m, p)
      BY ONLY <3>1, SameModResidue, p \in Nat, m \in Int
    <3>3. SameMod(y.word, m % P, P)
      BY <1>6, <3>1, <3>2, SameModEquivalence
    <3> QED BY <3>1, <3>2, <3>3
  <2>7. Stands(y, r, v)
    BY <1>6, <2>4, <2>5, <2>6 DEF Stands
  <2> QED BY <1>2, <1>7, <2>6, <2>7 DEF Right, Result
<1> QED BY <1>9, <1>10

(* A full product of words. *)
LEMMA WordProduct ==
  ASSUME NEW k, Reached(k), NEW a \in Nat, NEW b \in Nat, a <= WMax, b <= WMax
  PROVE  a * b \in 0 .. WMax * WMax
<1>1. PICK w \in Nat : w = WMax
  BY ReachedUnit, WordFacts
<1>2. a * b \in Nat /\ w * w \in Nat /\ a * b <= w * w
  BY <1>1, ProductGrows
<1> QED BY <1>1, <1>2

(* Over the Goldilocks moduli no lowered value has a signed form. *)
LEMMA NoSignedForm ==
  ASSUME NEW k, Reached(k), Goldilocks, NEW x, NEW r, NEW v, Stands(x, r, v)
  PROVE  Squared(x) = x.word * x.word
<1>1. SignBitSet
  BY ReachedUnit, GoldilocksFacts
<1>2. x.signed = {}
  BY <1>1 DEF Stands, SignedFormRight
<1> QED BY <1>2 DEF Squared

\* In Montgomery form the factors of a Goldilocks product are canonical.
FormFits(o, v) ==
  Goldilocks /\ InMontgomeryForm[v] => LookupKp(o.l) <= 1 /\ (o.op = "mul" => LookupKp(o.r) <= 1)

(* ConvertSquare. *)
LEMMA SquareRight ==
  ASSUME NEW k, Reached(k), ops[k].op = "square", FormFits(ops[k], NArgs + k)
  PROVE  Right(k)
<1>1. unit \in Units
  BY ReachedUnit
<1>2. PICK o, v, l : o = ops[k] /\ v = NArgs + k /\ o.op = "square" /\ l = o.l
  OBVIOUS
<1>3. o.op \in Unary
  BY <1>2 DEF Unary
<1>4. Stands(val[l], ref[l], l)
  BY <1>2, <1>3, ReachedFacts
<1>5. Lower(o, v) = Result(LowerSquare(o, v), {}) /\ Meaning(o, v) = Product(v, ref[l], ref[l])
  BY <1>2, Patterns, Meanings
<1>6. CASE InMontgomeryForm[v]
  <2>1. KnownCanonical(l)
    <3>1. CASE l \in DOMAIN bound /\ LookupKp(l) > 1 /\ Takes(bound, o, l)
      <4>1. Goldilocks
        BY <1>2, <3>1 DEF Takes
      <4>2. LookupKp(l) <= 1
        BY <1>2, <1>6, <4>1 DEF FormFits
      <4>3. LookupKp(l) \in Nat
        BY <1>4, StandsFactor
      <4> QED BY <3>1, <4>2, <4>3
    <3> QED BY <1>2, <1>3, <3>1, LazyTaken
  <2>2. PICK u \in Nat : u = LookupUmax(l) /\ u <= P - 1
    BY <2>1 DEF KnownCanonical
  <2>3. ~(u * u >= RedcLimit)
    BY <2>2, SettledProduct
  <2>4. PICK t \in Nat : /\ LowerMontSquare(l, FALSE) = Reduce(t, FALSE, FALSE)
                         /\ t < RedcLimit /\ UnRedc(t) = UnRedc(ref[l] * ref[l])
    BY <1>4, <2>2, <2>3, MontgomerySquare
  <2>5. LowerSquare(o, v) = LowerMontSquare(l, FALSE)
    BY <1>2, <1>6 DEF LowerSquare
  <2>6. Canonical(Reduce(t, FALSE, FALSE), UnRedc(t))
    BY <1>1, <2>4, RedcCanonical
  <2>7. Meaning(o, v) = UnRedc(t)
    BY <1>5, <1>6, <2>4 DEF Product
  <2> QED BY <1>2, <1>5, <2>4, <2>5, <2>6, <2>7, CanonicalRight
<1>7. CASE ~InMontgomeryForm[v] /\ Goldilocks
  <2>1. PICK a \in Nat : a = val[l].word /\ a <= WMax
    BY <1>4, StandsFactor DEF Factor
  <2>2. PICK t \in 0 .. WMax * WMax : t = a * a
    BY <2>1, WordProduct
  <2>3. LowerSquare(o, v) = SolinasReduce(t, LookupKp(v) >= 2)
    <3>1. Squared(val[l]) = t
      BY <1>4, <1>7, <2>1, <2>2, NoSignedForm
    <3> QED BY <1>2, <1>7, <3>1 DEF LowerSquare
  <2>4. PICK r \in Int : r = ref[l] /\ SameMod(a, r, P)
    <3>1. P \in Nat
      BY <1>1, UnitFacts
    <3> QED BY <1>4, <2>1, <3>1 DEF Stands
  <2>5. PICK m \in Int : m = r * r
    BY SMT
  <2>6. SameMod(t, m, P)
    <3>1. PICK p \in Nat : p = P /\ p > 0
      BY <1>1, UnitFacts
    <3>2. SameMod(a, r, p) /\ a \in Int
      BY <2>4, <3>1
    <3>3. SameMod(a * a, r * r, p)
      BY ONLY <3>1, <3>2, SameModProduct, p \in Nat, r \in Int
    <3> QED BY <2>2, <2>5, <3>1, <3>3
  <2>7. Meaning(o, v) = m % P
    BY <1>5, <1>7, <2>4, <2>5 DEF Product
  <2>8. Lower(o, v) = Result(SolinasReduce(t, LookupKp(v) >= 2), {})
    BY <1>5, <2>3
  <2>9. ops[k].op \in {"mul", "square"}
    BY <1>2
  <2> QED BY ONLY <1>2, <1>7, <2>6, <2>7, <2>8, <2>9, SolinasRight, Reached(k),
             t \in 0 .. WMax * WMax, m \in Int
<1>8. CASE ~InMontgomeryForm[v] /\ ~Goldilocks
  <2>1. KnownCanonical(l)
    <3>1. CASE Takes(bound, o, l)
      BY <1>2, <1>8, <3>1 DEF Takes
    <3> QED BY <1>2, <1>3, <3>1, LazyTaken
  <2>2. PICK a \in Nat : a = val[l].word /\ a <= P - 1
    BY <2>1 DEF KnownCanonical
  <2>3. a * a < RedcLimit
    BY <2>2, SettledProduct
  <2>4. PICK t \in Nat : t = Squared(val[l]) /\ SameMod(t, ref[l] * ref[l], P)
    BY <1>4, <2>2, <2>3, SquareFacts
  <2>5. LowerSquare(o, v) = Plain(t % P)
    BY <1>2, <1>8, <2>4 DEF LowerSquare
  <2>6. Meaning(o, v) = t % P
    BY <1>5, <1>8, <2>4 DEF Product, SameMod
  <2>7. Canonical(Plain(t % P), t % P)
    BY <1>1, RemainderCanonical
  <2> QED BY <1>2, <1>5, <2>5, <2>6, <2>7, CanonicalRight
<1> QED BY <1>6, <1>7, <1>8

(* ConvertMul, except by a constant inverse power of two. *)
LEMMA MulRight ==
  ASSUME NEW k, Reached(k), ops[k].op = "mul", ~Shortcut(ops[k]), FormFits(ops[k], NArgs + k)
  PROVE  Right(k)
<1>1. unit \in Units
  BY ReachedUnit
<1>2. PICK o, v, l, r : o = ops[k] /\ v = NArgs + k /\ o.op = "mul" /\ l = o.l /\ r = o.r
  OBVIOUS
<1>3. o.op \in Binary
  BY <1>2 DEF Binary
<1>4. Stands(val[l], ref[l], l) /\ Stands(val[r], ref[r], r)
  BY <1>2, <1>3, ReachedFacts
<1>5. Lower(o, v) = Result(LowerMul(o, v), {}) /\ Meaning(o, v) = Product(v, ref[l], ref[r])
  BY <1>2, Patterns, Meanings
<1>6. PICK p \in Nat : p = P /\ p > 0
  BY <1>1, UnitFacts
<1>7. PICK a \in Nat, b \in Nat, c \in Int, d \in Int :
        /\ a = val[l].word /\ b = val[r].word /\ a <= WMax /\ b <= WMax
        /\ c = ref[l] /\ d = ref[r] /\ SameMod(a, c, p) /\ SameMod(b, d, p)
  BY <1>4, <1>6, StandsFactor, SMTT(30) DEF Factor
<1>8. PICK t \in Nat, m \in Int : t = a * b /\ m = c * d
  BY SMT
<1>9. SameMod(t, m, p)
  <2>1. a \in Int /\ b \in Int
    OBVIOUS
  <2>2. SameMod(a * b, c * d, p)
    BY ONLY <1>6, <1>7, <2>1, SameModProduct, p \in Nat, c \in Int, d \in Int
  <2> QED BY <1>8, <2>2
<1>10. ASSUME ~Goldilocks \/ InMontgomeryForm[v]
       PROVE  KnownCanonical(l) /\ KnownCanonical(r)
  <2>1. ASSUME NEW x \in {l, r}
        PROVE  KnownCanonical(x)
    <3>1. CASE x \in DOMAIN bound /\ LookupKp(x) > 1 /\ Takes(bound, o, x)
      <4>1. Goldilocks
        BY <1>2, <3>1 DEF Takes
      <4>2. LookupKp(x) <= 1
        BY <1>2, <1>10, <4>1 DEF FormFits
      <4>3. LookupKp(x) \in Nat
        BY <1>4, StandsFactor
      <4> QED BY <3>1, <4>2, <4>3
    <3> QED BY <1>2, <1>3, <3>1, LazyTaken
  <2> QED BY <2>1
<1>11. CASE InMontgomeryForm[v]
  <2>1. KnownCanonical(l) /\ KnownCanonical(r)
    BY <1>10, <1>11
  <2>2. PICK u \in Nat, w \in Nat : u = LookupUmax(l) /\ w = LookupUmax(r) /\ u <= P - 1 /\ w <= P - 1
    BY <2>1 DEF KnownCanonical
  <2>3. ~(u * w >= RedcLimit)
    BY <2>2, SettledProduct
  <2>4. PICK n \in Int, s \in BOOLEAN :
           /\ LowerMontMul(l, r, FALSE) = Reduce(n, s, FALSE)
           /\ Reducible(n, s) /\ (s => SingleLimb) /\ UnRedc(n) = UnRedc(ref[l] * ref[r])
    <3>1. ~(LookupUmax(l) * LookupUmax(r) >= RedcLimit)
      BY <2>2, <2>3
    <3> QED BY <1>4, <3>1, MontgomeryProduct
  <2>5. LowerMul(o, v) = LowerMontMul(l, r, FALSE)
    BY <1>2, <1>11 DEF LowerMul
  <2>6. Canonical(Reduce(n, s, FALSE), UnRedc(n))
    BY <1>1, <2>4, MontgomeryCanonical
  <2>7. Meaning(o, v) = UnRedc(n)
    BY <1>5, <1>11, <2>4 DEF Product
  <2> QED BY <1>2, <1>5, <2>4, <2>5, <2>6, <2>7, CanonicalRight
<1>12. Meaning(o, v) = m % P \/ InMontgomeryForm[v]
  BY <1>5, <1>7, <1>8 DEF Product
<1>13. CASE ~InMontgomeryForm[v] /\ Goldilocks
  <2>1. t \in 0 .. WMax * WMax
    BY <1>7, <1>8, WordProduct
  <2>2. LowerMul(o, v) = SolinasReduce(t, LookupKp(v) >= 2)
    <3>1. LowerMul(o, v) = SolinasReduce(a * b, LookupKp(v) >= 2)
      BY <1>2, <1>7, <1>13 DEF LowerMul
    <3> QED BY <1>8, <3>1
  <2>3. Lower(o, v) = Result(SolinasReduce(t, LookupKp(v) >= 2), {}) /\ SameMod(t, m, P)
    BY <1>5, <1>9, <1>6, <2>2
  <2>4. ops[k].op \in {"mul", "square"} /\ Goldilocks /\ Meaning(o, v) = m % P
    BY <1>2, <1>12, <1>13
  <2> QED BY ONLY <1>2, <2>1, <2>3, <2>4, SolinasRight, Reached(k), m \in Int
<1>14. CASE ~InMontgomeryForm[v] /\ ~Goldilocks
  <2>1. KnownCanonical(l) /\ KnownCanonical(r)
    BY <1>10, <1>14
  <2>2. a \in 0 .. P - 1 /\ b \in 0 .. P - 1
    BY <1>7, <2>1 DEF KnownCanonical
  <2>3. Meaning(o, v) = t % P
    BY <1>9, <1>12, <1>14, <1>6 DEF SameMod
  <2>4. PICK y : y = LowerMul(o, v)
    OBVIOUS
  <2>5. y \in {MersenneReduce(t), BarrettReduce(a, b), Plain(t % P)}
    <3>1. y = IF \E n \in 1 .. P : 2^n = P + 1 THEN MersenneReduce(a * b)
              ELSE IF WideModulus THEN BarrettReduce(a, b) ELSE Plain((a * b) % P)
      BY <1>2, <1>7, <1>14, <2>4 DEF LowerMul
    <3> QED BY <1>8, <3>1, SMTT(30)
  <2>6. Canonical(MersenneReduce(t), t % P)
    <3>1. PICK q \in Nat : q = P - 1
      BY <1>1, UnitFacts
    <3>2. a <= q /\ b <= q
      BY <1>6, <2>2, <3>1
    <3>3. a * b \in Nat /\ q * q \in Nat /\ a * b <= q * q
      BY <3>2, ProductGrows
    <3>4. t \in 0 .. (P - 1) * (P - 1)
      BY <1>8, <3>1, <3>3
    <3> QED BY <1>1, <3>4, MersenneCanonical
  <2>7. Canonical(BarrettReduce(a, b), t % P)
    BY <1>1, <1>8, <2>2, BarrettCanonical
  <2>8. Canonical(Plain(t % P), t % P)
    BY <1>1, RemainderCanonical
  <2>9. Canonical(y, Meaning(o, v))
    BY <2>3, <2>5, <2>6, <2>7, <2>8
  <2>10. Lower(o, v) = Result(y, {})
    BY <1>5, <2>4
  <2> QED BY <1>2, <2>9, <2>10, CanonicalRight
<1> QED BY <1>11, <1>13, <1>14

(* The 2-adicity of p - 1 exists. *)
LEMMA TwoAdicityFacts ==
  ASSUME unit \in Units
  PROVE  TwoAdicity \in 1 .. P /\ TwoAdicity \in Nat /\ (P - 1) % 2^TwoAdicity = 0
<1>1. PICK p \in Nat, n \in Nat : p = P /\ p >= 3 /\ p % 2 = 1 /\ n = p - 1
  BY UnitFacts
<1> DEFINE T == {s \in Nat : n % 2^s # 0}
<1>2. n \in Nat /\ n >= 2 /\ n % 2 = 0
  <2>1. PICK q \in Int, r \in 0 .. 1 : p = 2 * q + r /\ r = p % 2
    BY DivModBasics
  <2>2. n = 2 * q + 0 /\ 0 \in 0 .. 2 - 1
    BY <1>1, <2>1
  <2>3. n % 2 = 0
    BY <2>2, DivModUnique
  <2> QED BY <1>1, <2>3
<1>3. p \in T
  <2>1. PICK e \in Nat : e = 2^p /\ n < e
    BY <1>1, TwoPowerAbove, TwoPowerStep
  <2>2. n % e = n
    BY <2>1, DivSmall
  <2> QED BY <1>2, <2>1, <2>2
<1>4. PICK s \in T : \A y \in T : s <= y
  <2>1. T \in SUBSET Nat /\ T # {}
    BY <1>3
  <2> HIDE DEF T
  <2> QED BY <2>1, LeastNatural
<1>5. s \in Nat /\ n % 2^s # 0 /\ s <= p
  BY <1>3, <1>4
<1>6. s # 0 /\ s # 1
  <2>1. n % 1 = 0
    <3>1. n = 1 * n + 0 /\ 0 \in 0 .. 1 - 1
      BY <1>2
    <3> QED BY <1>2, <3>1, DivModUnique
  <2> QED BY <1>2, <1>5, <2>1, TwoPowerZero
<1>7. PICK t \in Nat : t + 1 = s /\ t >= 1 /\ t <= p
  <2>1. s - 1 \in Nat /\ (s - 1) + 1 = s /\ s - 1 >= 1 /\ s - 1 <= p
    BY <1>5, <1>6
  <2> QED BY <2>1
<1>8. n % 2^t = 0
  <2>1. t \notin T
    BY <1>4, <1>5, <1>7
  <2> QED BY <2>1
<1>9. \E x \in 1 .. P : (P - 1) % 2^x = 0 /\ (P - 1) % 2^(x + 1) # 0
  <2>1. t \in 1 .. P /\ n = P - 1 /\ n % 2^(t + 1) # 0
    BY <1>1, <1>5, <1>7
  <2> QED BY <1>8, <2>1
<1>10. TwoAdicity \in 1 .. P /\ (P - 1) % 2^TwoAdicity = 0
  BY <1>9, Zenon DEF TwoAdicity
<1> QED BY <1>1, <1>10

(* Powers of two have inverses modulo p. *)
LEMMA InvTwoPowerFacts ==
  ASSUME unit \in Units, NEW n \in Nat
  PROVE  /\ InvTwoPower(n) \in 1 .. P - 1 /\ SameMod(InvTwoPower(n) * 2^n, 1, P)
<1>1. PICK p \in Nat : p = P /\ p >= 3 /\ p % 2 = 1
  BY UnitFacts
<1>2. PICK x \in 1 .. p - 1 : SameMod(x * 2^n, 1, p)
  BY <1>1, TwoPowerHasInverse
<1>3. 1 % p = 1
  <2>1. PICK one \in Nat : one = 1 /\ one < p
    BY <1>1
  <2> QED BY <2>1, DivSmall
<1>4. \E y \in 1 .. P - 1 : (y * 2^n) % P = 1
  BY <1>1, <1>2, <1>3 DEF SameMod
<1>5. InvTwoPower(n) \in 1 .. P - 1 /\ (InvTwoPower(n) * 2^n) % P = 1
  BY <1>4, Zenon DEF InvTwoPower
<1> QED BY <1>1, <1>3, <1>5 DEF SameMod

(* Halving modulo an odd number. *)
LEMMA Halves ==
  ASSUME NEW p \in Nat, p >= 3, p % 2 = 1, NEW x \in 0 .. p - 1
  PROVE  \E h \in 0 .. p - 1 :
           /\ h = IF x % 2 = 1 THEN x \div 2 + (p \div 2 + 1) ELSE x \div 2
           /\ 2 * h = x \/ 2 * h = x + p
           /\ h = 0 <=> x = 0
<1>1. PICK a \in Int, r \in 0 .. 1 : x = 2 * a + r /\ a = x \div 2 /\ r = x % 2
  BY DivModBasics
<1>2. PICK b \in Int : p = 2 * b + 1 /\ b = p \div 2
  BY DivModBasics
<1>3. CASE r = 1
  <2>1. PICK h \in Int : h = a + (b + 1)
    BY <1>1, <1>2
  <2>2. 2 * h = x + p /\ h \in 0 .. p - 1 /\ h # 0 /\ x # 0
    BY <1>1, <1>2, <1>3, <2>1
  <2> QED BY <1>1, <1>2, <1>3, <2>1, <2>2
<1>4. CASE r = 0
  BY <1>1, <1>2, <1>4
<1> QED BY <1>3, <1>4

\* x = e * q + lo, and what that says modulo p = m * e + 1
Shifted(p, m, e, x, q, lo) ==
  /\ q \in Nat /\ lo \in 0 .. e - 1 /\ q <= m
  /\ lo = 0 => x = e * q
  /\ lo # 0 => /\ lo * m \in Nat /\ lo * m < p
               /\ lo * m - q \in 1 .. p - 1
               /\ e * (lo * m - q) = lo * p - x

(* Dividing by e modulo p = m * e + 1. *)
LEMMA ShiftedQuotient ==
  ASSUME NEW p \in Nat, NEW m \in Nat, NEW e \in Nat, p = m * e + 1, e >= 1, m >= 1,
         NEW x \in 0 .. p - 1, NEW q, q = x \div e, NEW lo, lo = x % e
  PROVE  Shifted(p, m, e, x, q, lo)
<1>1. PICK i \in Int, j \in 0 .. e - 1 : i = q /\ j = lo /\ x = e * i + j
  BY DivModBasics
<1>2. PICK me \in Nat : me = m * e /\ me = e * m /\ p = me + 1
  <2>1. m * e \in Nat /\ m * e = e * m
    BY SMT
  <2> QED BY <2>1
<1>3. i >= 0
  <2>1. SUFFICES ASSUME i <= -1 PROVE FALSE
    BY <1>1
  <2>2. e * i <= e * (-1)
    BY <2>1, MulMono
  <2>3. PICK ei \in Int : ei = e * i
    BY SMT
  <2> QED BY <1>1, <2>2, <2>3
<1>4. i <= m
  <2>1. SUFFICES ASSUME m + 1 <= i PROVE FALSE
    BY <1>1
  <2>2. e * (m + 1) <= e * i
    BY <2>1, MulMono
  <2>3. PICK ei \in Int : ei = e * i
    BY SMT
  <2>4. e * (m + 1) = me + e
    BY <1>2, SMT
  <2> QED BY <1>1, <1>2, <2>2, <2>3, <2>4
<1>5. ASSUME j # 0
      PROVE  j * m \in Nat /\ j * m < p /\ j * m - i \in 1 .. p - 1 /\ e * (j * m - i) = j * p - x
  <2>1. PICK jm \in Nat : jm = j * m
    BY SMT
  <2>2. m * 1 <= m * j /\ m * j <= m * (e - 1)
    BY <1>1, <1>5, MulMono
  <2>3. m * j = jm /\ m * (e - 1) = me - m
    BY <1>2, <2>1, SMT
  <2>4. m <= jm /\ jm <= me - m
    BY <2>2, <2>3
  <2>5. e * jm = j * me
    <3>1. e * (j * m) = j * (e * m)
      BY SMT
    <3> QED BY <1>2, <2>1, <3>1
  <2>6. e * (jm - i) = e * jm - e * i /\ j * p = j * me + j
    BY <1>2, SMT
  <2>7. e * (jm - i) = j * p - x
    <3>1. PICK a \in Int, b \in Int, c \in Int : a = e * jm /\ b = e * i /\ c = j * me
      BY SMT
    <3> QED BY <1>1, <2>5, <2>6, <3>1
  <2>8. jm - i # 0
    <3>1. SUFFICES ASSUME jm = i PROVE FALSE
      OBVIOUS
    <3>2. i = m /\ jm = m
      BY <1>4, <2>4, <3>1
    <3>3. x = me + j
      BY <1>1, <1>2, <3>2
    <3> QED BY <1>2, <1>5, <3>3
  <2>9. jm - i \in 1 .. p - 1
    BY <1>2, <1>3, <1>4, <2>4, <2>8
  <2> QED BY <1>2, <2>1, <2>4, <2>7, <2>9
<1> QED BY <1>1, <1>3, <1>4, <1>5 DEF Shifted

(* The shift of the shortcut is by no more than the two-adicity of p - 1. *)
LEMMA DegreeFacts ==
  ASSUME unit \in Units, NEW o, Shortcut(o)
  PROVE  /\ Degree(o) \in Nat /\ Degree(o) >= 1 /\ Degree(o) <= TwoAdicity
         /\ InvTwoPower(Degree(o)) \in {StdRhs(o), (P - StdRhs(o)) % P}
<1>1. Degrees(o) # {}
  BY DEF Shortcut
<1>2. TwoAdicity \in Nat
  BY TwoAdicityFacts
<1>3. \A d \in Degrees(o) : /\ d \in Nat /\ d >= 1 /\ d <= TwoAdicity
                            /\ InvTwoPower(d) \in {StdRhs(o), (P - StdRhs(o)) % P}
  BY <1>2 DEF Degrees
<1>4. \E d \in Degrees(o) : \A e \in Degrees(o) : d <= e
  <2>1. Degrees(o) \in SUBSET Nat
    BY <1>3
  <2> QED BY <1>1, <2>1, LeastNatural
<1>5. Degree(o) \in Degrees(o)
  BY <1>4, Zenon DEF Degree
<1> QED BY <1>3, <1>5

(* The shifts multiply by 2^-d or by -2^-d. *)
LEMMA ShortcutWord ==
  ASSUME unit \in Units, NEW o, Shortcut(o), NEW x \in 0 .. P - 1, x = val[o.l].word,
         Negated(o) => x # 0
  PROVE  \E y \in 0 .. P - 1 :
           /\ LowerShortcut(o) = Plain(y)
           /\ \E c \in Int : 2^Degree(o) * y = (IF Negated(o) THEN -x ELSE x) + P * c
<1>1. PICK p \in Nat, W \in Nat : p = P /\ W = WordSize /\ p >= 3 /\ p % 2 = 1 /\ p < W
  BY UnitFacts
<1>2. PICK d \in Nat, T \in Nat : d = Degree(o) /\ T = TwoAdicity /\ d >= 1 /\ d <= T
  BY DegreeFacts, TwoAdicityFacts
<1>3. PICK e \in Nat, f \in Nat, g \in Nat : /\ e = 2^d /\ f = 2^(T - d) /\ g = 2^T
                                             /\ e >= 1 /\ f >= 1 /\ g = f * e /\ g >= 2
  <2>1. PICK r \in Nat : r = T - d
    BY <1>2
  <2>2. r + d = T /\ 0 < T
    BY <1>2, <2>1
  <2>3. 2^d \in Nat /\ 2^d > 0 /\ 2^r \in Nat /\ 2^r > 0 /\ 2^T \in Nat
    BY TwoPowerStep
  <2>4. 2^(r + d) = 2^r * 2^d
    BY TwoPowerSum
  <2>5. 2 * 2^0 <= 2^T
    BY <2>2, TwoPowerGrows
  <2> QED BY <2>1, <2>2, <2>3, <2>4, <2>5, TwoPowerZero
<1>4. PICK K \in Int : K = P \div g /\ p = g * K + 1
  <2>1. PICK q \in Int : p - 1 = g * q
    <3>1. PICK n \in Nat : n = p - 1
      BY <1>1
    <3>2. n % g = 0
      BY <1>1, <1>2, <1>3, <3>1, TwoAdicityFacts
    <3>3. n \in Int /\ g > 0
      BY <1>3
    <3>4. PICK q \in Int, z \in 0 .. g - 1 : q = n \div g /\ z = n % g /\ n = g * q + z
      BY ONLY <3>3, DivModBasics, g \in Nat
    <3>5. n = g * q
      BY <3>2, <3>4
    <3> QED BY <3>1, <3>5
  <2>2. p = g * q + 1 /\ 1 \in 0 .. g - 1
    <3>1. PICK z \in Int : z = g * q
      BY SMT
    <3> QED BY <1>3, <2>1, <3>1
  <2>3. p \div g = q
    BY <1>3, <2>2, DivModUnique
  <2> QED BY <1>1, <2>2, <2>3
<1>5. K >= 1
  <2>1. SUFFICES ASSUME K <= 0 PROVE FALSE
    BY <1>4
  <2>2. g * K <= g * 0
    BY <2>1, MulMono
  <2>3. PICK z \in Int : z = g * K
    BY SMT
  <2> QED BY <1>1, <1>4, <2>2, <2>3
<1>6. PICK m \in Nat : m = K * f /\ m >= 1 /\ p = m * e + 1
  <2>1. PICK m \in Int : m = K * f
    BY SMT
  <2>2. f * 1 <= f * K
    BY <1>5, MulMono
  <2>3. f * K = m
    BY <2>1, SMT
  <2>4. g * K = m * e
    <3>1. (f * e) * K = (K * f) * e
      BY SMT
    <3> QED BY <1>3, <2>1, <3>1
  <2> QED BY <1>3, <1>4, <2>1, <2>2, <2>3, <2>4
<1>7. PICK q \in Int, lo \in Int : q = x \div e /\ lo = x % e
  BY <1>1, <1>3, DivModBasics
<1>8. x \in 0 .. p - 1
  BY <1>1
<1>9. /\ q \in Nat /\ lo \in 0 .. e - 1 /\ q <= m
      /\ lo = 0 => x = e * q
      /\ lo # 0 => /\ lo * m \in Nat /\ lo * m < p
                   /\ lo * m - q \in 1 .. p - 1
                   /\ e * (lo * m - q) = lo * p - x
  <2>1. p = m * e + 1 /\ e >= 1 /\ m >= 1
    BY <1>3, <1>6
  <2>2. Shifted(p, m, e, x, q, lo)
    BY ONLY <1>7, <1>8, <2>1, ShiftedQuotient, p \in Nat, m \in Nat, e \in Nat
  <2> QED BY <2>2 DEF Shifted
<1> DEFINE halved == IF x % 2 = 1 THEN AddI(x \div 2, P \div 2 + 1) ELSE x \div 2
           loCorrected == IF lo # 0 THEN ShlI(MulI(lo, K), T - d) ELSE P
           minus == SubI(loCorrected, q)
<1>10. LowerShortcut(o) =
         Plain(IF d = 1 THEN IF Negated(o) THEN SubI(P, halved) ELSE halved
               ELSE IF Negated(o) THEN minus ELSE SubI(P, minus))
  <2>1. /\ Degree(o) = d /\ val[o.l].word = x /\ TwoAdicity = T
        /\ P \div 2^TwoAdicity = K /\ x % 2^d = lo /\ x \div 2^d = q
    BY <1>2, <1>3, <1>4, <1>7, SMTT(30)
  <2> QED BY <2>1, Zenon DEF LowerShortcut
<1>11. PICK h \in 0 .. p - 1 : /\ h = halved
                               /\ 2 * h = x \/ 2 * h = x + p
                               /\ h = 0 <=> x = 0
  <2>1. PICK h \in 0 .. p - 1 :
           /\ h = IF x % 2 = 1 THEN x \div 2 + (p \div 2 + 1) ELSE x \div 2
           /\ 2 * h = x \/ 2 * h = x + p
           /\ h = 0 <=> x = 0
    BY <1>1, <1>8, Halves
  <2>2. h % W = h
    BY <1>1, DivSmall
  <2>3. x % 2 = 1 => halved = h
    BY <1>1, <2>1, <2>2 DEF AddI
  <2>4. x % 2 # 1 => halved = h
    BY <2>1
  <2> QED BY <2>1, <2>3, <2>4
<1>12. CASE d = 1
  <2>1. e = 2
    BY <1>3, <1>12, TwoPowerZero
  <2>2. CASE Negated(o)
    <3>1. h # 0
      BY <1>11, <2>2
    <3>2. PICK y \in 0 .. p - 1 : y = p - h
      BY <3>1
    <3>3. SubI(P, h) = y
      <4>1. y % W = y
        BY <1>1, DivSmall
      <4> QED BY <1>1, <3>2, <4>1 DEF SubI
    <3>4. LowerShortcut(o) = Plain(y)
      BY <1>10, <1>11, <1>12, <2>2, <3>3
    <3>5. 2 * y = -x + p * 2 \/ 2 * y = -x + p * 1
      BY <1>11, <3>2
    <3>6. \E c \in Int : e * y = -x + p * c
      <4>1. e * y = -x + p * 2 \/ e * y = -x + p * 1
        BY <2>1, <3>5
      <4>2. 2 \in Int /\ 1 \in Int
        OBVIOUS
      <4> QED BY <4>1, <4>2, Zenon
    <3> QED BY <1>1, <1>2, <1>3, <2>2, <3>4, <3>6
  <2>3. CASE ~Negated(o)
    <3>1. LowerShortcut(o) = Plain(h)
      BY <1>10, <1>11, <1>12, <2>3
    <3>2. 2 * h = x + p * 0 \/ 2 * h = x + p * 1
      BY <1>11
    <3>3. \E c \in Int : e * h = x + p * c
      <4>1. e * h = x + p * 0 \/ e * h = x + p * 1
        BY <2>1, <3>2
      <4>2. 0 \in Int /\ 1 \in Int
        OBVIOUS
      <4> QED BY <4>1, <4>2, Zenon
    <3> QED BY <1>1, <1>2, <1>3, <2>3, <3>1, <3>3
  <2> QED BY <2>2, <2>3
<1> HIDE DEF halved
<1>13. CASE d # 1
  <2>1. PICK n \in 0 .. p, c \in Int : /\ n = minus /\ e * n = -x + p * c /\ n # 0
                                       /\ n = p => x = 0
    <3>1. CASE lo # 0
      <4>1. PICK n \in 1 .. p - 1 : n = lo * m - q /\ e * n = lo * p - x
        BY <1>9, <3>1
      <4>2. ShlI(MulI(lo, K), T - d) = lo * m
        <5>1. PICK a \in Int : a = lo * K
          BY SMT
        <5>2. a * f = lo * m
          <6>1. (lo * K) * f = lo * (K * f)
            BY SMT
          <6> QED BY <1>6, <5>1, <6>1
        <5>3. PICK b \in Nat : b = lo * m /\ b < W
          BY <1>1, <1>9, <3>1
        <5>4. a >= 0 /\ a <= b
          <6>1. lo * 1 <= lo * K
            BY <1>5, <1>9, MulMono
          <6>2. a \in Nat
            BY <1>9, <5>1, <6>1
          <6>3. a * 1 <= a * f
            BY <1>3, <6>2, MulMono
          <6> QED BY <5>2, <5>3, <6>2, <6>3
        <5>5. a % W = a /\ b % W = b
          <6>1. a \in Nat /\ a < W /\ b < W
            BY <5>3, <5>4
          <6> QED BY <6>1, DivSmall
        <5>6. MulI(lo, K) = a
          BY <1>1, <5>1, <5>5 DEF MulI
        <5>7. ShlI(a, T - d) = b
          BY <1>1, <1>3, <5>2, <5>3, <5>5 DEF ShlI
        <5> QED BY <5>3, <5>6, <5>7
      <4>3. minus = n
        <5>1. n % W = n
          BY <1>1, DivSmall
        <5> QED BY <1>1, <3>1, <4>1, <4>2, <5>1 DEF SubI
      <4>4. lo * p = p * lo /\ p * lo \in Int
        BY SMT
      <4>5. e * n = -x + p * lo
        <5>1. PICK z \in Int : z = p * lo
          BY <4>4
        <5> QED BY <1>8, <4>1, <4>4, <5>1
      <4>6. n \in 0 .. p /\ n # 0 /\ n # p
        BY <4>1
      <4> HIDE DEF minus
      <4> QED BY <1>7, <4>3, <4>5, <4>6
    <3>2. CASE lo = 0
      <4>1. x = e * q /\ q <= m
        BY <1>9, <3>2
      <4>2. q < p
        <5>1. m * 1 <= m * e
          BY <1>3, MulMono
        <5>2. PICK z \in Int : z = m * e
          BY SMT
        <5> QED BY <1>6, <1>9, <5>1, <5>2
      <4>3. PICK n \in 1 .. p : n = p - q
        BY <1>9, <4>2
      <4>4. minus = n
        <5>1. n % W = n
          BY <1>1, DivSmall
        <5> QED BY <1>1, <3>2, <4>3, <5>1 DEF SubI
      <4>5. e * n = -x + p * e
        <5>1. e * (p - q) = p * e - e * q
          BY SMT
        <5>2. PICK z \in Int, w \in Int : z = p * e /\ w = e * q
          BY SMT
        <5> QED BY <1>8, <4>1, <4>3, <5>1, <5>2
      <4>6. n = p => x = 0
        <5>1. SUFFICES ASSUME n = p PROVE x = 0
          OBVIOUS
        <5>2. q = 0
          BY <1>9, <4>3, <5>1
        <5> QED BY <4>1, <5>2, SMT
      <4>7. n \in 0 .. p /\ n # 0 /\ e \in Int
        BY <4>3
      <4> HIDE DEF minus
      <4> QED BY <4>4, <4>5, <4>6, <4>7
    <3> QED BY <3>1, <3>2
  <2> HIDE DEF minus
  <2>2. CASE Negated(o)
    <3>1. n \in 0 .. p - 1
      BY <2>1, <2>2
    <3>2. LowerShortcut(o) = Plain(n)
      BY <1>10, <1>13, <2>1, <2>2
    <3> QED BY <1>1, <1>2, <1>3, <2>1, <2>2, <3>1, <3>2
  <2>3. CASE ~Negated(o)
    <3>1. PICK y \in 0 .. p - 1 : y = p - n
      BY <2>1
    <3>2. SubI(P, n) = y
      <4>1. y % W = y
        BY <1>1, DivSmall
      <4> QED BY <1>1, <3>1, <4>1 DEF SubI
    <3>3. LowerShortcut(o) = Plain(y)
      BY <1>10, <1>13, <2>1, <2>3, <3>2
    <3>4. PICK r \in Int : r = e - c
      OBVIOUS
    <3>5. e * y = x + p * r
      <4>1. e * (p - n) = p * e - e * n /\ p * (e - c) = p * e - p * c
        BY SMT
      <4>2. PICK a \in Int, b \in Int, z \in Int : a = p * e /\ b = e * n /\ z = p * c
        BY SMT
      <4>3. e * y = a - b /\ p * r = a - z /\ b = -x + z
        BY <2>1, <3>1, <3>4, <4>1, <4>2
      <4>4. PICK i \in Int, j \in Int : i = p * r /\ j = e * y
        BY SMT
      <4>5. x \in Int
        BY <1>8
      <4>6. j = x + i
        BY ONLY <4>3, <4>4, <4>5, a \in Int, b \in Int, z \in Int, i \in Int, j \in Int
      <4> QED BY <4>4, <4>6
    <3> QED BY <1>1, <1>2, <1>3, <2>3, <3>1, <3>3, <3>5
  <2> QED BY <2>2, <2>3
<1> QED BY <1>12, <1>13

(* A multiplication by the standard form of the constant c. *)
LEMMA StandardFactor ==
  ASSUME unit \in Units, NEW v, NEW x \in Int, NEW c \in 0 .. P - 1,
         NEW s, s = IF InMontgomeryForm[v] THEN UnRedc(c) ELSE c
  PROVE  s \in 0 .. P - 1 /\ Product(v, x, c) \in 0 .. P - 1 /\ SameMod(Product(v, x, c), x * s, P)
<1>1. PICK p \in Nat : p = P /\ p > 0
  BY UnitFacts
<1>2. PICK t \in Int : t = x * c
  BY SMT
<1>3. CASE InMontgomeryForm[v]
  <2>1. PICK i \in Int : i = RInv
    BY RInvFacts
  <2>2. PICK u \in 0 .. p - 1 : u = UnRedc(c) /\ SameMod(u, c * i, p)
    <3>1. c \in Int
      OBVIOUS
    <3>2. UnRedc(c) \in 0 .. P - 1 /\ SameMod(UnRedc(c), c * RInv, P)
      BY <3>1, UnRedcFacts
    <3> QED BY <1>1, <2>1, <3>2
  <2>3. PICK w \in 0 .. p - 1 : w = UnRedc(t) /\ SameMod(w, t * i, p)
    <3>1. UnRedc(t) \in 0 .. P - 1 /\ SameMod(UnRedc(t), t * RInv, P)
      BY UnRedcFacts
    <3> QED BY <1>1, <2>1, <3>1
  <2>4. PICK ci \in Int : ci = c * i
    BY SMT
  <2>5. t * i = x * ci
    <3>1. (x * c) * i = x * (c * i)
      BY SMT
    <3> QED BY <1>2, <2>4, <3>1
  <2>6. SameMod(x * u, x * ci, p)
    <3>1. SameMod(x, x, p) /\ SameMod(u, ci, p) /\ u \in Int
      BY <2>2, <2>4, SameModEquivalence
    <3> QED BY ONLY <1>1, <3>1, SameModProduct, p \in Nat, x \in Int, ci \in Int
  <2>7. SameMod(w, x * u, p)
    BY <2>3, <2>5, <2>6, SameModEquivalence
  <2>8. s = u /\ Product(v, x, c) = w
    BY <1>2, <1>3, <2>2, <2>3 DEF Product
  <2> QED BY <1>1, <2>7, <2>8
<1>4. CASE ~InMontgomeryForm[v]
  <2>1. t % p \in 0 .. p - 1 /\ SameMod(t % p, t, p)
    BY <1>1, SameModResidue
  <2>2. s = c /\ Product(v, x, c) = t % p
    BY <1>1, <1>2, <1>4 DEF Product
  <2> QED BY <1>1, <1>2, <2>1, <2>2
<1> QED BY <1>3, <1>4

(* ConvertMul by an inverse power of two or its negation. *)
LEMMA ShortcutRight ==
  ASSUME NEW k, Reached(k), ops[k].op = "mul", Shortcut(ops[k]),
         InMontgomeryForm[ops[k].r] = InMontgomeryForm[NArgs + k],
         ref[ops[k].r] = Def(ops[k].r).l,
         Negated(ops[k]) => val[ops[k].l].word # 0
  PROVE  Right(k)
<1>1. unit \in Units
  BY ReachedUnit
<1>2. PICK o, v : o = ops[k] /\ v = NArgs + k /\ o.op = "mul"
  OBVIOUS
<1>3. o.op \in Binary /\ ByConst(o)
  BY <1>2 DEF Binary, Shortcut
<1>4. ~Takes(bound, o, o.l) /\ ~Takes(bound, o, o.r)
  BY <1>2, <1>3 DEF Takes, ByConst
<1>5. KnownCanonical(o.l) /\ KnownCanonical(o.r)
  BY <1>2, <1>3, <1>4, OperandSettled
<1>6. PICK p \in Nat : p = P /\ p >= 3
  BY <1>1, UnitFacts
<1>7. PICK x \in 0 .. P - 1, c \in 0 .. P - 1 : /\ x = val[o.l].word /\ x = ref[o.l] /\ c = ref[o.r] /\ c = Def(o.r).l
  BY <1>2, <1>5 DEF KnownCanonical
<1>8. PICK s \in 0 .. p - 1, m \in 0 .. p - 1 : /\ s = StdRhs(o) /\ m = Meaning(o, v) /\ SameMod(m, x * s, p)
  <2>1. PICK s : s = IF InMontgomeryForm[v] THEN UnRedc(c) ELSE c
    OBVIOUS
  <2>2. x \in Int
    BY <1>6
  <2>3. s \in 0 .. P - 1 /\ Product(v, x, c) \in 0 .. P - 1 /\ SameMod(Product(v, x, c), x * s, P)
    BY <1>1, <2>1, <2>2, StandardFactor
  <2>4. StdRhs(o) = s
    BY <1>2, <1>7, <2>1 DEF StdRhs
  <2>5. Meaning(o, v) = Product(v, ref[o.l], ref[o.r])
    BY <1>2, Meanings
  <2>6. Meaning(o, v) = Product(v, x, c)
    BY ONLY <1>7, <2>5
  <2> QED BY <1>6, <2>3, <2>4, <2>6
<1>9. PICK e \in Nat, i \in Int : /\ e = 2^Degree(o) /\ i = InvTwoPower(Degree(o)) /\ SameMod(e * i, 1, p)
  <2>1. PICK d \in Nat : d = Degree(o)
    BY <1>1, <1>2, DegreeFacts
  <2>2. PICK e \in Nat : e = 2^d
    BY TwoPowerStep
  <2>3. PICK i \in Int : i = InvTwoPower(d) /\ SameMod(i * e, 1, p)
    BY <1>1, <1>6, <2>2, InvTwoPowerFacts
  <2>4. i * e = e * i
    BY SMT
  <2> QED BY <2>1, <2>2, <2>3, <2>4
<1>10. PICK y \in 0 .. p - 1, j \in Int :
         /\ LowerShortcut(o) = Plain(y)
         /\ e * y = (IF Negated(o) THEN -x ELSE x) + p * j
  <2>1. PICK y \in 0 .. P - 1 :
           /\ LowerShortcut(o) = Plain(y)
           /\ \E j \in Int : 2^Degree(o) * y = (IF Negated(o) THEN -x ELSE x) + P * j
    <3>1. /\ Shortcut(o)
          /\ Negated(o) => x # 0
      BY <1>2, <1>7
    <3> QED BY ONLY <1>1, <1>7, <3>1, ShortcutWord, ZenonT(40)
  <2> QED BY <1>6, <1>9, <2>1
<1>11. PICK n \in Int : n = (IF Negated(o) THEN -x ELSE x) /\ SameMod(y, i * n, p)
  <2>1. PICK n \in Int : n = (IF Negated(o) THEN -x ELSE x)
    BY <1>6
  <2>2. PICK ey \in Int : ey = e * y /\ ey = n + p * j
    <3>1. e * y \in Int
      BY SMT
    <3> QED BY <1>10, <2>1, <3>1
  <2>3. p > 0
    BY <1>6
  <2>4. SameMod(ey, n, p)
    BY ONLY <2>2, <2>3, SameModIf, ey \in Int, n \in Int, p \in Nat, j \in Int
  <2>5. SameMod(e * y, n, p) /\ e \in Int /\ y \in Int
    BY <2>2, <2>4
  <2>6. SameMod(y, i * n, p)
    BY ONLY <1>9, <2>3, <2>5, SameModCancel, i \in Int, n \in Int, p \in Nat
  <2> QED BY <2>1, <2>6
<1>12. SameMod(i * n, x * s, p)
  <2>1. x * s \in Int /\ s * x = x * s
    BY SMT
  <2>2. CASE ~Negated(o)
    <3>1. i = s
      BY <1>1, <1>2, <1>6, <1>8, <1>9, <2>2, DegreeFacts DEF Negated
    <3>2. n = x
      BY <1>11, <2>2
    <3> QED BY <2>1, <3>1, <3>2, SameModEquivalence
  <2>3. CASE Negated(o)
    <3>1. PICK a \in Int : a = p - s /\ p > 0
      BY <1>6
    <3>2. i = a % p
      BY <1>6, <1>8, <1>9, <2>3, <3>1 DEF Negated
    <3>3. SameMod(i, a, p)
      BY ONLY <3>1, <3>2, SameModResidue, p \in Nat, a \in Int
    <3>4. n = -x
      BY <1>11, <2>3
    <3>5. SameMod(i * n, a * n, p)
      <4>1. SameMod(n, n, p)
        BY SameModEquivalence
      <4> QED BY ONLY <3>1, <3>3, <4>1, SameModProduct, p \in Nat, a \in Int, i \in Int, n \in Int
    <3>6. a * n = x * s + p * n
      <4>1. (p - s) * n = p * n - s * n /\ s * (-x) = -(x * s) /\ s \in Int /\ x \in Int
        BY <1>6, SMT
      <4>2. PICK b \in Int, g \in Int : b = p * n /\ g = x * s
        BY <2>1, SMT
      <4>3. a * n = b - s * n /\ s * n = -g
        BY <3>1, <3>4, <4>1, <4>2
      <4> QED BY <4>2, <4>3
    <3>7. PICK g \in Int, an \in Int : g = x * s /\ an = a * n
      BY <2>1, SMT
    <3>8. an = g + p * n
      BY <3>6, <3>7
    <3>9. SameMod(an, g, p)
      BY ONLY <3>1, <3>8, SameModIf, p \in Nat, an \in Int, g \in Int, n \in Int
    <3> QED BY <3>5, <3>7, <3>9, SameModEquivalence
  <2> QED BY <2>2, <2>3
<1>13. y = m
  <2>1. SameMod(y, m, p)
    BY <1>8, <1>11, <1>12, SameModEquivalence
  <2>2. m \in Int /\ p > 0 /\ m \in Nat /\ m < p
    BY <1>6
  <2>3. y = m % p
    BY ONLY <2>1, <2>2, SameModSmall, p \in Nat, y \in 0 .. p - 1
  <2>4. m % p = m
    BY ONLY <2>2, DivSmall, p \in Nat
  <2> QED BY <2>3, <2>4
<1>14. Lower(o, v) = Result(LowerMul(o, v), {}) /\ LowerMul(o, v) = LowerShortcut(o)
  BY <1>2, Patterns DEF LowerMul
<1>15. Canonical(Plain(m), m)
  BY <1>1, <1>6, CanonicalWord
<1> QED BY <1>2, <1>8, <1>10, <1>13, <1>14, <1>15, CanonicalRight


-----------------------------------------------------------------------------
\* The patterns that add, double and subtract.

\* The right operand of an addition; a doubling adds its operand to itself.
Addend(o) == IF o.op = "add" THEN o.r ELSE o.l

\* The addition o of the words x and y, which stand for a and b, gives v.
Adds(k, o, v, r, x, y, a, b) ==
  /\ o = ops[k] /\ o = Def(v) /\ v = NArgs + k /\ r = Addend(o) /\ v > NArgs
  /\ v \in Values /\ o.l \in Values /\ r \in Values
  /\ Stands(val[o.l], ref[o.l], o.l) /\ Stands(val[r], ref[r], r)
  /\ x = val[o.l].word /\ y = val[r].word
  /\ a = ref[o.l] /\ b = ref[r] /\ Meaning(o, v) = (a + b) % P
  /\ SameMod(x + y, a + b, P)

(* An addition or a doubling sums the words of values that stand. *)
LEMMA AdditionFacts ==
  ASSUME NEW k, Reached(k), ops[k].op \in {"add", "double"}
  PROVE  \E o, v, r : \E x, y, a, b \in Nat : Adds(k, o, v, r, x, y, a, b)
<1>1. PICK o, v, r : /\ o = ops[k] /\ o = Def(v) /\ v = NArgs + k /\ r = Addend(o)
                     /\ v > NArgs /\ v \in Values /\ o.op \in {"add", "double"}
  BY ReachedFacts
<1>2. /\ o.l \in Values /\ r \in Values
      /\ Stands(val[o.l], ref[o.l], o.l) /\ Stands(val[r], ref[r], r)
  BY <1>1, ReachedFacts DEF Addend, Binary, Unary
<1>3. PICK p \in Nat : p = P /\ p > 0
  BY ReachedUnit, UnitFacts
<1>4. PICK x \in Nat, a \in Nat : x = val[o.l].word /\ a = ref[o.l] /\ SameMod(x, a, p)
  <2>1. val[o.l].word \in Nat
    BY <1>2, StandsFactor DEF Factor
  <2> QED BY <1>2, <1>3, <2>1 DEF Stands
<1>5. PICK y \in Nat, b \in Nat : y = val[r].word /\ b = ref[r] /\ SameMod(y, b, p)
  <2>1. val[r].word \in Nat
    BY <1>2, StandsFactor DEF Factor
  <2> QED BY <1>2, <1>3, <2>1 DEF Stands
<1>6. SameMod(x + y, a + b, p)
  <2>1. x \in Int /\ y \in Int /\ a \in Int /\ b \in Int
    OBVIOUS
  <2> QED BY ONLY <1>3, <1>4, <1>5, <2>1, SameModSum, p \in Nat
<1>7. Meaning(o, v) = (a + b) % P
  <2>1. CASE o.op = "add"
    BY <1>1, <1>4, <1>5, <2>1, Meanings DEF Addend
  <2>2. CASE o.op = "double"
    <3>1. Meaning(o, v) = (2 * a) % P /\ a = b
      BY <1>1, <1>4, <1>5, <2>2, Meanings DEF Addend
    <3>2. 2 * a = a + b
      BY <3>1
    <3> QED BY <3>1, <3>2
  <2> QED BY <1>1, <2>1, <2>2
<1>8. Adds(k, o, v, r, x, y, a, b)
  BY <1>1, <1>2, <1>3, <1>4, <1>5, <1>6, <1>7 DEF Adds
<1> QED BY <1>8

(* The sum of the words stays below the bound of the result. *)
LEMMA SumBelowBound ==
  ASSUME NEW k, Reached(k), ops[k].op \in {"add", "double"}, NEW v, v = NArgs + k,
         v \in DOMAIN bound
  PROVE  \/ Goldilocks /\ bound[v] = WMax
         \/ val[ops[k].l].word + val[Addend(ops[k])].word <= bound[v]
<1>1. PICK o, w, r : \E x, y, a, b \in Nat : Adds(k, o, w, r, x, y, a, b)
  BY AdditionFacts
<1>2. PICK x \in Nat, y \in Nat, a \in Nat, b \in Nat : Adds(k, o, v, r, x, y, a, b) /\ w = v
  BY <1>1 DEF Adds
<1>3. Compiled /\ DOMAIN bound # {} /\ BoundFrom(bound, v)
  BY ReachedUnit DEF Compiled, MapOK
<1>4. CASE Goldilocks /\ bound[v] = WMax
  BY <1>4
<1>5. CASE ~(Goldilocks /\ bound[v] = WMax)
  <2>1. CASE o.op = "add"
    <3>1. PICK s \in Nat, t \in Nat :
             Source(bound, o.l, s) /\ Source(bound, o.r, t) /\ bound[v] = s + t
      BY <1>2, <1>3, <1>5, <2>1 DEF BoundFrom, Adds
    <3>2. x <= s /\ y <= t
      BY <1>2, <1>3, <2>1, <3>1, StandsBelow DEF Addend, Adds
    <3> QED BY <1>2, <3>1, <3>2 DEF Adds
  <2>2. CASE o.op = "double"
    <3>1. PICK s \in Nat : Source(bound, o.l, s) /\ bound[v] = 2 * s
      BY <1>2, <1>3, <1>5, <2>2 DEF BoundFrom, Adds
    <3>2. x <= s /\ y = x
      BY <1>2, <1>3, <2>2, <3>1, StandsBelow DEF Addend, Adds
    <3> QED BY <1>2, <3>1, <3>2 DEF Adds
  <2> QED BY <1>2, <2>1, <2>2 DEF Adds
<1> QED BY <1>4, <1>5

(* And below its range, unless that holds every residue. *)
LEMMA SumBelowRange ==
  ASSUME NEW k, Reached(k), ops[k].op \in {"add", "double"}, NEW v, v = NArgs + k, LazyOption
  PROVE  \/ val[ops[k].l].word + val[Addend(ops[k])].word <= RangeMax[v]
         \/ P - 1 <= RangeMax[v]
<1>1. PICK o, w, r : \E x, y, a, b \in Nat : Adds(k, o, w, r, x, y, a, b)
  BY AdditionFacts
<1>2. PICK x \in Nat, y \in Nat, a \in Nat, b \in Nat : Adds(k, o, v, r, x, y, a, b) /\ w = v
  BY <1>1 DEF Adds
<1>3. unit \in Units /\ Program
  BY ReachedUnit, CompiledFacts
<1>4. PICK p \in Nat, W \in Nat : p = P /\ W = WordSize /\ p >= 3 /\ p < W /\ WMax = W - 1
  BY ModulusFacts
<1>5. PICK s \in Nat, t \in Nat : s = RangeMax[o.l] /\ t = RangeMax[r]
  BY <1>2, <1>3, RangeBounds DEF Adds
<1>6. RangeMax[v] = Widen(USat(s + t))
  <2>1. RangeMax[v] = RangeStep(RangeMax, v)
    BY <1>2, <1>3, RangeUnfolds DEF Adds
  <2>2. CASE o.op = "add"
    BY <1>2, <1>5, <2>1, <2>2 DEF RangeStep, IsOp, Addend, Adds
  <2>3. CASE o.op = "double"
    <3>1. RangeMax[v] = Widen(USat(2 * s)) /\ s = t
      BY <1>2, <1>5, <2>1, <2>3 DEF RangeStep, IsOp, Addend, Adds
    <3>2. 2 * s = s + t
      BY <3>1
    <3> QED BY <3>1, <3>2
  <2> QED BY <1>2, <2>2, <2>3 DEF Adds
<1>7. PICK n \in Nat : n = RangeMax[v] /\ (s + t <= n \/ p - 1 <= n)
  <2>1. PICK m \in Nat : m = s + t
    OBVIOUS
  <2>2. PICK u \in Nat : u = USat(m) /\ (m <= u \/ u = W - 1)
    BY <1>4 DEF USat
  <2>3. PICK n \in Nat : n = Widen(u) /\ u <= n
    BY DEF Widen
  <2> QED BY <1>4, <1>6, <2>1, <2>2, <2>3
<1>8. (x <= s \/ p - 1 <= s) /\ (y <= t \/ p - 1 <= t)
  BY <1>2, <1>4, <1>5 DEF Stands, Adds
<1>9. x + y <= n \/ p - 1 <= n
  BY <1>4, <1>7, <1>8
<1> QED BY <1>2, <1>4, <1>7, <1>9 DEF Adds

(* A result that is congruent to the sum and not above it is right, if it is *)
(* canonical or has a bound. *)
LEMMA SumRight ==
  ASSUME NEW k, Reached(k), ops[k].op \in {"add", "double"}, NEW v, v = NArgs + k,
         NEW c, NEW broken, Lower(ops[k], v) = Result(c, broken), broken \subseteq {"nsw"},
         c \in Lowered, SignedFormRight(c), NEW n \in Nat, n = c.word,
         SameMod(n, val[ops[k].l].word + val[Addend(ops[k])].word, P),
         n <= val[ops[k].l].word + val[Addend(ops[k])].word,
         n <= P - 1 \/ v \in DOMAIN bound
  PROVE  Right(k)
<1>1. PICK o, w, r : \E x, y, a, b \in Nat : Adds(k, o, w, r, x, y, a, b)
  BY AdditionFacts
<1>2. PICK x \in Nat, y \in Nat, a \in Nat, b \in Nat : Adds(k, o, v, r, x, y, a, b) /\ w = v
  BY <1>1 DEF Adds
<1>3. PICK p \in Nat, W \in Nat : p = P /\ W = WordSize /\ p >= 3 /\ p < W /\ WMax = W - 1
  BY ModulusFacts
<1>4. PICK z \in Nat : z = x + y
  OBVIOUS
<1>5. PICK m \in 0 .. p - 1 : m = Meaning(o, v) /\ SameMod(m, a + b, p)
  <2>1. PICK ab \in Nat : ab = a + b
    OBVIOUS
  <2>2. p > 0 /\ ab \in Int
    BY <1>3
  <2>3. ab % p \in 0 .. p - 1 /\ SameMod(ab % p, ab, p)
    BY ONLY <2>2, SameModResidue, p \in Nat
  <2> QED BY <1>2, <1>3, <2>1, <2>3 DEF Adds
<1>6. SameMod(n, m, p) /\ n <= z
  BY <1>2, <1>3, <1>4, <1>5, SameModEquivalence DEF Adds
<1>7. n <= UmaxIn(bound, v)
  <2>1. CASE v \in DOMAIN bound
    <3>1. n <= WMax
      BY <1>3 DEF Lowered, Word
    <3>2. (Goldilocks /\ bound[v] = WMax) \/ z <= bound[v]
      BY <1>2, <1>4, <2>1, SumBelowBound DEF Adds
    <3>3. bound[v] \in Nat
      BY <2>1, ReachedUnit, CompiledFacts
    <3> QED BY <1>6, <2>1, <3>1, <3>2, <3>3 DEF UmaxIn
  <2>2. CASE v \notin DOMAIN bound
    BY <2>2 DEF UmaxIn
  <2> QED BY <2>1, <2>2
<1>8. LazyOption => n <= RangeMax[v] \/ P - 1 <= RangeMax[v]
  <2>1. SUFFICES ASSUME LazyOption PROVE n <= RangeMax[v] \/ P - 1 <= RangeMax[v]
    OBVIOUS
  <2>2. z <= RangeMax[v] \/ P - 1 <= RangeMax[v]
    BY <1>2, <1>4, <2>1, SumBelowRange DEF Adds
  <2>3. RangeMax[v] \in Int
    BY ReachedUnit, CompiledFacts, ReachedFacts, RangeBounds
  <2> QED BY <1>6, <2>2, <2>3
<1>9. Stands(c, m, v)
  BY <1>3, <1>5, <1>6, <1>7, <1>8 DEF Stands
<1> QED BY <1>2, <1>5, <1>9 DEF Right, Result, Adds

(* The operands of an addition are canonical, or their bounds leave room for *)
(* the sum. *)
LEMMA AddendsFit ==
  ASSUME NEW k, Reached(k), ops[k].op \in {"add", "double"},
         NEW l, l = ops[k].l, NEW r, r = Addend(ops[k])
  PROVE  /\ LookupUmax(l) \in Nat /\ LookupUmax(r) \in Nat
         /\ LookupUmax(l) + LookupUmax(r) + 1 < Double
         /\ \/ KnownCanonical(l) /\ KnownCanonical(r)
            \/ LookupUmax(l) + LookupUmax(r) <= WMax
            \/ Goldilocks /\ ops[k].op = "add" /\ LookupUmax(l) + LookupUmax(r) <= WMax + P
<1>1. PICK o : o = ops[k] /\ o.op \in {"add", "double"} /\ NoWrap(bound, o)
  BY ReachedFacts
<1>2. Compiled /\ LookupUmax(l) = UmaxIn(bound, l) /\ LookupUmax(r) = UmaxIn(bound, r)
  BY ReachedUnit, CompiledFacts
<1>3. UmaxIn(bound, l) \in Nat /\ UmaxIn(bound, r) \in Nat
  BY <1>2, CompiledFacts, UmaxFacts
<1>4. PICK u \in Nat, w \in Nat : u = UmaxIn(bound, l) /\ w = UmaxIn(bound, r)
  BY <1>3
<1>5. WMax \in Nat /\ P \in Nat
  BY ReachedUnit, UnitFacts, WordFacts
<1>6. CASE o.op = "add"
  <2>1. r = o.r
    BY <1>1, <1>6 DEF Addend
  <2>2. KnownCanonical(l) \/ Takes(bound, o, l)
    BY <1>1, <1>6, LazyTaken DEF Binary
  <2>3. KnownCanonical(r) \/ Takes(bound, o, r)
    BY <1>1, <1>6, <2>1, LazyTaken DEF Binary
  <2>4. u + w + 1 < Double
    BY <1>1, <1>4, <1>6, <2>1 DEF NoWrap
  <2>5. \/ KnownCanonical(l) /\ KnownCanonical(r)
        \/ u + w <= (IF Goldilocks THEN WMax + P ELSE WMax)
    BY <1>1, <1>4, <1>6, <2>1, <2>2, <2>3 DEF Takes
  <2> QED BY <1>1, <1>2, <1>4, <1>6, <2>4, <2>5
<1>7. CASE o.op = "double"
  <2>1. r = l /\ u = w
    BY <1>1, <1>4, <1>7 DEF Addend
  <2>2. KnownCanonical(l) \/ Takes(bound, o, l)
    BY <1>1, <1>7, LazyTaken DEF Unary
  <2>3. u + w + 1 < Double
    BY <1>1, <1>4, <1>7, <2>1 DEF NoWrap
  <2>4. KnownCanonical(l) \/ u + w <= WMax
    BY <1>1, <1>4, <1>7, <2>1, <2>2 DEF Takes
  <2> QED BY <1>1, <1>2, <1>4, <1>7, <2>1, <2>3, <2>4
<1> QED BY <1>1, <1>6, <1>7

(* Over a modulus with a spare bit, an addition adds the operands as they are *)
(* and reduces the sum, unless its result has a bound. *)
LEMMA NarrowSum ==
  ASSUME NEW k, Reached(k), ops[k].op \in {"add", "double"}, ~FullWidth, NEW v, v = NArgs + k,
         NEW x \in Nat, NEW y \in Nat, x = val[ops[k].l].word, y = val[Addend(ops[k])].word,
         NEW u \in Nat, u <= WMax, x + y <= u, NEW s, s = AddOp(x + y) \/ s = Plain(x + y),
         Lower(ops[k], v) = Result(IF LookupKp(v) > 1 THEN s
                                   ELSE CanonicalFromExtended(s, KpFromUmax(u)), AddFlags(x, y))
  PROVE  Right(k)
<1>1. PICK p \in Nat, W \in Nat : p = P /\ W = WordSize /\ p >= 3 /\ p < W /\ WMax = W - 1
  BY ModulusFacts
<1>2. unit \in Units /\ Compiled
  BY ReachedUnit
<1>3. PICK z \in 0 .. W - 1 : z = x + y
  BY <1>1
<1>4. s \in Lowered /\ s.word = z /\ SignedFormRight(s)
  <2>1. x + y \in Word
    BY <1>1, <1>3 DEF Word
  <2> QED BY <1>2, <1>3, <2>1, PlainFacts, AddOpFacts
<1>5. AddFlags(x, y) \subseteq {"nsw"}
  BY <1>1, <1>3 DEF AddFlags, UnsignedWraps
<1>6. SameMod(z, z, P)
  BY SameModEquivalence, SMTT(30)
<1>7. CASE LookupKp(v) > 1
  <2>1. Lower(ops[k], v) = Result(s, AddFlags(x, y))
    BY <1>7
  <2>2. v \in DOMAIN bound
    <3>1. KpIn(bound, v) > 1 /\ \A q \in DOMAIN bound : bound[q] \in Nat /\ bound[q] + 1 < Double
      BY <1>2, <1>7, CompiledFacts
    <3>2. UmaxIn(bound, v) >= P
      BY <1>2, <3>1, UmaxFacts, SMTT(30)
    <3> QED BY <1>1, <3>2 DEF UmaxIn
  <2> QED BY <1>3, <1>4, <1>5, <1>6, <2>1, <2>2, SumRight
<1>8. CASE ~(LookupKp(v) > 1)
  <2>1. PICK h \in Nat : h = KpFromUmax(u) /\ h >= 1 /\ MultiplesFit(h) /\ z < P * h
    <3>1. u + 1 < Double
      BY <1>1, <1>2, WordFacts
    <3>2. PICK h \in Nat : h = KpFromUmax(u) /\ h >= 1 /\ u < P * h
      BY <1>2, <3>1, KpFacts
    <3>3. MultiplesFit(h)
      BY <1>2, <3>2, WordMultiplesFit
    <3>4. p * h \in Nat
      OBVIOUS
    <3>5. z < P * h
      BY <1>1, <1>3, <3>2, <3>4
    <3> QED BY <3>2, <3>3, <3>5
  <2>2. PICK c : c = CanonicalFromExtended(s, h) /\ Canonical(c, s.word % P)
    <3>1. ~SignBitSet
      BY DEF FullWidth
    <3>2. s.word < P * h
      BY <1>4, <2>1
    <3> QED BY <1>2, <1>4, <2>1, <3>1, <3>2, ExtendedCanonical
  <2>3. Lower(ops[k], v) = Result(c, AddFlags(x, y))
    BY <1>8, <2>1, <2>2
  <2>4. PICK n \in 0 .. p - 1 : n = z % p /\ SameMod(n, z, p) /\ n <= z
    <3>1. PICK q \in Int, n \in 0 .. p - 1 : q = z \div p /\ n = z % p /\ z = p * q + n
      BY <1>1, DivModBasics
    <3>2. SameMod(z % p, z, p)
      BY <1>1, SameModResidue
    <3>3. n <= z
      <4>1. CASE z < p
        BY <3>1, <4>1, <1>1, DivSmall
      <4>2. CASE ~(z < p)
        BY <1>1, <3>1, <4>2
      <4> QED BY <4>1, <4>2
    <3> QED BY <3>1, <3>2, <3>3
  <2>5. c \in Lowered /\ SignedFormRight(c) /\ n = c.word
    BY <1>1, <1>4, <2>2, <2>4 DEF Canonical
  <2>6. n <= P - 1 /\ n \in Nat
    BY <1>1
  <2> QED BY <1>1, <1>3, <1>5, <2>3, <2>4, <2>5, <2>6, SumRight
<1> QED BY <1>7, <1>8

(* Over a modulus that fills its words a sum below 2p is reduced at once. *)
LEMMA FullSum ==
  ASSUME NEW k, Reached(k), ops[k].op \in {"add", "double"}, NEW v, v = NArgs + k,
         NEW x \in Nat, NEW y \in Nat, x + y <= 2 * P - 1,
         SameMod(x + y, val[ops[k].l].word + val[Addend(ops[k])].word, P),
         Lower(ops[k], v) = Result(AddFullWidth(x, y), {})
  PROVE  Right(k)
<1>1. PICK p \in Nat, W \in Nat : p = P /\ W = WordSize /\ p >= 3 /\ p < W /\ WMax = W - 1
  BY ModulusFacts
<1>2. unit \in Units /\ Compiled
  BY ReachedUnit
<1>3. PICK z \in 0 .. 2 * p - 1 : z = x + y
  BY <1>1
<1>4. PICK c : c = AddFullWidth(x, y) /\ Canonical(c, z % p)
  <2>1. Canonical(CanonicalFromOverflow(z % WordSize, z \div WordSize), z % P)
    BY <1>1, <1>2, OverflowCanonical
  <2> QED BY <1>1, <1>3, <2>1 DEF AddFullWidth, AddSum, AddCarry
<1>5. PICK o, w, r : \E a, b, c1, d \in Nat : Adds(k, o, w, r, a, b, c1, d)
  BY AdditionFacts
<1>6. PICK t \in Nat : t = val[ops[k].l].word + val[Addend(ops[k])].word
  BY <1>5 DEF Adds
<1>7. PICK n \in 0 .. p - 1 : n = z % p /\ SameMod(n, t, p)
  <2>1. z % p \in 0 .. p - 1 /\ SameMod(z % p, z, p)
    BY <1>1, SameModResidue
  <2> QED BY <1>1, <1>3, <1>6, <2>1, SameModEquivalence
<1>8. n <= t
  <2>1. p > 0
    BY <1>1
  <2>2. n = t % p
    BY ONLY <1>7, <2>1, SameModSmall, p \in Nat, t \in Nat
  <2>3. CASE t < p
    BY <2>2, <2>3, DivSmall
  <2>4. CASE ~(t < p)
    BY <2>4
  <2> QED BY <2>3, <2>4
<1>9. c \in Lowered /\ SignedFormRight(c) /\ n = c.word
  BY <1>4, <1>7 DEF Canonical
<1> QED BY <1>1, <1>4, <1>6, <1>7, <1>8, <1>9, SumRight

(* An operand after its reduction. *)
LEMMA ReducedWord ==
  ASSUME NEW k, Reached(k), NEW l, Stands(val[l], ref[l], l), MultiplesFit(LookupKp(l))
  PROVE  \E n \in 0 .. P - 1 : /\ CanonicalFromExtended(val[l], LookupKp(l)).word = n
                               /\ SameMod(n, val[l].word, P)
<1>1. PICK p \in Nat, W \in Nat : p = P /\ W = WordSize /\ p >= 3 /\ p < W /\ WMax = W - 1
  BY ModulusFacts
<1>2. PICK h \in Nat, x \in Nat : h = LookupKp(l) /\ h >= 1 /\ x = val[l].word /\ x < P * h
  BY StandsFactor DEF Factor
<1>3. CanonicalFromExtended(val[l], h).word = val[l].word % P
  BY <1>2, ReachedUnit, ExtendedWord DEF Stands
<1>4. x % p \in 0 .. p - 1 /\ SameMod(x % p, x, p)
  <2>1. p > 0 /\ x \in Int
    BY <1>1
  <2> QED BY ONLY <2>1, SameModResidue, p \in Nat
<1> QED BY <1>1, <1>2, <1>3, <1>4

(* The reductions in front of a full-width addition leave less than 2p. *)
LEMMA PreReducedSum ==
  ASSUME NEW k, Reached(k), FullWidth, NEW l, NEW r,
         Stands(val[l], ref[l], l), Stands(val[r], ref[r], r),
         MultiplesFit(LookupKp(l)), MultiplesFit(LookupKp(r)),
         NEW u \in Nat, NEW w \in Nat, u = LookupUmax(l), w = LookupUmax(r),
         NEW q, q = PreReduce(l, r, u + w > WMax, P - 1 + w <= WMax, u + P - 1 <= WMax)
  PROVE  \E x, y \in Nat : /\ x = q[1].word /\ y = q[2].word /\ x + y <= 2 * P - 1
                           /\ SameMod(x + y, val[l].word + val[r].word, P)
<1>1. PICK p \in Nat, W \in Nat : p = P /\ W = WordSize /\ p >= 3 /\ p < W /\ WMax = W - 1
  BY ModulusFacts
<1>2. W <= 2 * p
  BY <1>1 DEF FullWidth, SignBitSet
<1>3. PICK x \in Nat, y \in Nat : x = val[l].word /\ y = val[r].word /\ x <= u /\ y <= w
  BY StandsFactor DEF Factor
<1>4. PICK c, d : /\ c = CanonicalFromExtended(val[l], LookupKp(l))
                  /\ d = CanonicalFromExtended(val[r], LookupKp(r))
  OBVIOUS
<1>5. PICK a \in 0 .. p - 1 : a = c.word /\ SameMod(a, x, p)
  BY <1>1, <1>3, <1>4, ReducedWord
<1>6. PICK b \in 0 .. p - 1 : b = d.word /\ SameMod(b, y, p)
  BY <1>1, <1>3, <1>4, ReducedWord
<1>7. SameMod(x, x, p) /\ SameMod(y, y, p) /\ p > 0 /\ x \in Int /\ y \in Int /\ a \in Int /\ b \in Int
  BY <1>1, SameModEquivalence
<1>8. /\ SameMod(x + y, x + y, p) /\ SameMod(a + y, x + y, p)
      /\ SameMod(x + b, x + y, p) /\ SameMod(a + b, x + y, p)
  BY ONLY <1>5, <1>6, <1>7, SameModSum, p \in Nat
<1>9. \/ q = <<val[l], val[r]>> /\ u + w <= WMax
      \/ q = <<c, val[r]>> /\ P - 1 + w <= WMax
      \/ q = <<val[l], d>> /\ u + P - 1 <= WMax
      \/ q = <<c, d>>
  <2>1. \A e, f, g \in BOOLEAN :
          \/ PreReduce(l, r, e, f, g) = <<val[l], val[r]>> /\ ~e
          \/ PreReduce(l, r, e, f, g) = <<c, val[r]>> /\ f
          \/ PreReduce(l, r, e, f, g) = <<val[l], d>> /\ g
          \/ PreReduce(l, r, e, f, g) = <<c, d>>
    BY <1>4 DEF PreReduce
  <2>2. (u + w > WMax) \in BOOLEAN /\ (P - 1 + w <= WMax) \in BOOLEAN /\ (u + P - 1 <= WMax) \in BOOLEAN
    OBVIOUS
  <2>3. \/ q = <<val[l], val[r]>> /\ ~(u + w > WMax)
        \/ q = <<c, val[r]>> /\ P - 1 + w <= WMax
        \/ q = <<val[l], d>> /\ u + P - 1 <= WMax
        \/ q = <<c, d>>
    BY <2>1, <2>2
  <2>4. ~(u + w > WMax) => u + w <= WMax
    BY <1>1
  <2> QED BY <2>3, <2>4
<1>10. CASE q = <<val[l], val[r]>> /\ u + w <= WMax
  BY <1>1, <1>2, <1>3, <1>8, <1>10
<1>11. CASE q = <<c, val[r]>> /\ P - 1 + w <= WMax
  BY <1>1, <1>2, <1>3, <1>5, <1>8, <1>11
<1>12. CASE q = <<val[l], d>> /\ u + P - 1 <= WMax
  BY <1>1, <1>2, <1>3, <1>6, <1>8, <1>12
<1>13. CASE q = <<c, d>>
  BY <1>1, <1>2, <1>3, <1>5, <1>6, <1>8, <1>13
<1> QED BY <1>9, <1>10, <1>11, <1>12, <1>13

(* The bounds of an addition's operands: no computation with them wraps, and *)
(* an operand that must be reduced can be. *)
LEMMA AddBounds ==
  ASSUME NEW k, Reached(k), ops[k].op = "add", NEW l, l = ops[k].l, NEW r, r = ops[k].r,
         Goldilocks => LookupKp(l) <= 2 /\ LookupKp(r) <= 2
  PROVE  \E u, w \in Nat :
           /\ u = LookupUmax(l) /\ w = LookupUmax(r)
           /\ (u + w) % Double = u + w
           /\ (P - 1 + w) % Double = P - 1 + w /\ (u + P - 1) % Double = u + P - 1
           /\ u + w < WordSize + P /\ (~FullWidth => u + w <= WMax)
           /\ MultiplesFit(LookupKp(l)) /\ MultiplesFit(LookupKp(r))
<1>1. PICK p \in Nat, W \in Nat, d \in Nat :
        /\ p = P /\ W = WordSize /\ p >= 3 /\ p < W /\ WMax = W - 1 /\ d = Double /\ 4 * W <= d
  BY ModulusFacts, ReachedUnit, WordFacts
<1>2. r = Addend(ops[k]) /\ unit \in Units
  BY ReachedUnit DEF Addend
<1>3. PICK u \in Nat, w \in Nat :
        /\ u = LookupUmax(l) /\ w = LookupUmax(r) /\ u + w + 1 < d
        /\ \/ KnownCanonical(l) /\ KnownCanonical(r)
           \/ u + w <= WMax
           \/ Goldilocks /\ u + w <= WMax + P
  BY <1>1, <1>2, AddendsFit
<1>4. \/ KnownCanonical(l) /\ KnownCanonical(r) /\ u <= p - 1 /\ w <= p - 1
      \/ u + w <= W - 1
      \/ Goldilocks /\ u + w <= W - 1 + p
  BY <1>1, <1>3 DEF KnownCanonical
<1>5. u + w < W + p /\ P - 1 + w + 1 < Double /\ u + P - 1 + 1 < Double
  BY <1>1, <1>4
<1>6. (u + w) % Double = u + w
  <2>1. PICK n \in Nat : n = u + w /\ n + 1 < Double
    BY <1>1, <1>3
  <2> QED BY <1>2, <2>1, BoundKept
<1>7. (P - 1 + w) % Double = P - 1 + w /\ (u + P - 1) % Double = u + P - 1
  <2>1. PICK n \in Nat, m \in Nat :
           n = P - 1 + w /\ n + 1 < Double /\ m = u + P - 1 /\ m + 1 < Double
    BY <1>1, <1>5
  <2> QED BY <1>2, <2>1, BoundKept
<1>8. ~FullWidth => u + w <= WMax
  <2>1. SUFFICES ASSUME ~FullWidth PROVE u + w <= WMax
    OBVIOUS
  <2>2. ~Goldilocks
    BY <1>2, <2>1, GoldilocksFacts
  <2>3. 2 * p < W
    BY <1>1, <2>1 DEF FullWidth, SignBitSet
  <2> QED BY <1>1, <1>4, <2>2, <2>3
<1>9. MultiplesFit(1) /\ MultiplesFit(2)
  <2>1. \A n \in Nat : 2^n < 2 => n = 0
    <3>1. SUFFICES ASSUME NEW n \in Nat, n # 0 PROVE ~(2^n < 2)
      OBVIOUS
    <3>2. 2 * 2^0 <= 2^n
      <4>1. 0 \in Nat /\ 0 < n
        BY <3>1
      <4> QED BY ONLY <4>1, TwoPowerGrows, n \in Nat
    <3> QED BY <3>2, TwoPowerZero, TwoPowerStep
  <2>2. \A n \in Nat : ~(2^n < 1)
    BY TwoPowerStep
  <2>3. P * 2^0 < WordSize
    BY <1>1, TwoPowerZero
  <2>4. MultiplesFit(1)
    BY <2>2 DEF MultiplesFit
  <2>5. MultiplesFit(2)
    BY <2>1, <2>3 DEF MultiplesFit
  <2> QED BY <2>4, <2>5
<1>10. /\ LookupKp(l) = KpFromUmax(u) /\ LookupKp(l) \in Nat /\ LookupKp(l) >= 1
       /\ LookupKp(r) = KpFromUmax(w) /\ LookupKp(r) \in Nat /\ LookupKp(r) >= 1
  BY <1>3, ReachedFacts, StandsFactor DEF Binary
<1>11. MultiplesFit(LookupKp(l)) /\ MultiplesFit(LookupKp(r))
  <2>1. CASE Goldilocks
    <3>1. LookupKp(l) \in {1, 2} /\ LookupKp(r) \in {1, 2}
      BY <1>10, <2>1
    <3> QED BY <1>9, <3>1
  <2>2. CASE ~Goldilocks
    <3>1. (KnownCanonical(l) /\ KnownCanonical(r)) \/ (u <= WMax /\ w <= WMax)
      BY <1>1, <1>4, <2>2
    <3>2. CASE KnownCanonical(l) /\ KnownCanonical(r)
      BY <1>9, <3>2 DEF KnownCanonical
    <3>3. CASE u <= WMax /\ w <= WMax
      <4>1. MultiplesFit(KpFromUmax(u)) /\ MultiplesFit(KpFromUmax(w))
        BY <1>2, <3>3, WordMultiplesFit
      <4> QED BY <1>10, <4>1
    <3> QED BY <3>1, <3>2, <3>3
  <2> QED BY <2>1, <2>2
<1> QED BY <1>1, <1>3, <1>5, <1>6, <1>7, <1>8, <1>11

(* ConvertAdd with a lazy result over a full-width Goldilocks modulus. *)
LEMMA GoldilocksSum ==
  ASSUME NEW k, Reached(k), ops[k].op = "add", Goldilocks, NEW v, v = NArgs + k,
         v \in DOMAIN bound,
         NEW x \in Nat, NEW y \in Nat, x = val[ops[k].l].word, y = val[ops[k].r].word,
         x + y < WordSize + P,
         Lower(ops[k], v) =
           Result(AddOp(AddI(AddSum(x, y), IF AddCarry(x, y) = 1 THEN WordSize - P ELSE 0)), {})
  PROVE  Right(k)
<1>1. PICK p \in Nat, W \in Nat : p = P /\ W = WordSize /\ p >= 3 /\ p < W /\ WMax = W - 1
  BY ModulusFacts
<1>2. unit \in Units
  BY ReachedUnit
<1>3. PICK z \in Nat : z = x + y /\ z < W + p
  BY <1>1
<1>4. PICK n \in 0 .. W - 1 :
        /\ n = AddI(AddSum(x, y), IF AddCarry(x, y) = 1 THEN WordSize - P ELSE 0)
        /\ n <= z /\ SameMod(n, z, p)
  <2>1. CASE z < W
    <3>1. z \div W = 0 /\ z % W = z
      BY <2>1, DivSmall
    <3>2. AddI(AddSum(x, y), IF AddCarry(x, y) = 1 THEN WordSize - P ELSE 0) = (z + 0) % W
      BY <1>1, <1>3, <3>1 DEF AddI, AddSum, AddCarry
    <3>3. z + 0 = z
      BY <1>3
    <3> QED BY <2>1, <3>1, <3>2, <3>3, SameModEquivalence
  <2>2. CASE ~(z < W)
    <3>1. PICK m \in 0 .. W - 1 : m = z - W
      BY <1>1, <1>3, <2>2
    <3>2. z \div W = 1 /\ z % W = m
      <4>1. z = W * 1 + m /\ W > 0 /\ z \in Int /\ 1 \in Int
        BY <1>1, <3>1
      <4> QED BY ONLY <4>1, DivModUnique, W \in Nat, m \in 0 .. W - 1
    <3>3. PICK n \in 0 .. W - 1 : n = m + (W - p)
      BY <1>1, <1>3, <3>1
    <3>4. AddI(AddSum(x, y), IF AddCarry(x, y) = 1 THEN WordSize - P ELSE 0) = n % W
      BY <1>1, <1>3, <3>2, <3>3 DEF AddI, AddSum, AddCarry
    <3>5. n % W = n
      <4>1. n \in Nat /\ n < W
        BY <3>3
      <4> QED BY ONLY <4>1, DivSmall, W \in Nat
    <3>6. n = z + p * (-1) /\ n <= z
      BY <1>1, <3>1, <3>3
    <3>7. SameMod(n, z, p)
      <4>1. p > 0 /\ n \in Int /\ z \in Int /\ -1 \in Int
        BY <1>1
      <4> QED BY ONLY <3>6, <4>1, SameModIf, p \in Nat
    <3> QED BY <3>4, <3>5, <3>6, <3>7
  <2> QED BY <2>1, <2>2
<1>5. PICK c : c = AddOp(n) /\ c \in Lowered /\ SignedFormRight(c) /\ c.word = n
  <2>1. n \in Word
    BY <1>1, SMTT(30) DEF Word
  <2> QED BY <1>2, <2>1, AddOpFacts
<1>6. Lower(ops[k], v) = Result(c, {})
  BY <1>4, <1>5
<1>7. Addend(ops[k]) = ops[k].r
  BY DEF Addend
<1>8. n \in Nat /\ {} \subseteq {"nsw"} /\ n = c.word /\ n <= x + y /\ SameMod(n, x + y, P)
  <2>1. n \in Nat /\ n <= x + y
    <3>1. n <= z
      BY <1>4, ZenonT(40)
    <3> QED BY <1>1, <1>3, <3>1
  <2>2. SameMod(n, x + y, P)
    BY <1>1, <1>3, <1>4
  <2> QED BY <1>5, <2>1, <2>2
<1>9. x + y = val[ops[k].l].word + val[Addend(ops[k])].word
  BY <1>7
<1> QED BY <1>5, <1>6, <1>8, <1>9, SumRight

(* What ConvertAdd emits when it is not the lazy addition over Goldilocks. *)
LEMMA AddIs ==
  ASSUME NEW o, NEW v, NEW u, u = LookupUmax(o.l), NEW w, w = LookupUmax(o.r),
         ~(FullWidth /\ Goldilocks /\ LookupKp(v) > 1),
         NEW q, q = PreReduce(o.l, o.r, (u + w) % Double > WMax,
                              (P - 1 + w) % Double <= WMax, (u + P - 1) % Double <= WMax),
         NEW x, x = q[1].word, NEW y, y = q[2].word
  PROVE  /\ FullWidth => LowerAdd(o, v) = Result(AddFullWidth(x, y), {})
         /\ ~FullWidth /\ LookupKp(v) > 1 => LowerAdd(o, v) = Result(AddOp(AddI(x, y)), AddFlags(x, y))
         /\ ~FullWidth /\ ~(LookupKp(v) > 1) =>
              LowerAdd(o, v) =
                Result(CanonicalFromExtended(AddOp(AddI(x, y)),
                         IF (u + w) % Double > WMax THEN 2 ELSE KpFromUmax((u + w) % Double)),
                       AddFlags(x, y))
BY Zenon DEF LowerAdd

(* ConvertAdd is right. *)
LEMMA AddRight ==
  ASSUME NEW k, Reached(k), ops[k].op = "add",
         Goldilocks => LookupKp(ops[k].l) <= 2 /\ LookupKp(ops[k].r) <= 2
  PROVE  Right(k)
<1>1. PICK p \in Nat, W \in Nat : p = P /\ W = WordSize /\ p >= 3 /\ p < W /\ WMax = W - 1
  BY ModulusFacts
<1>2. PICK o, v : o = ops[k] /\ v = NArgs + k /\ o.op = "add" /\ Addend(o) = o.r
  BY DEF Addend
<1>3. PICK u \in Nat, w \in Nat :
        /\ u = LookupUmax(o.l) /\ w = LookupUmax(o.r)
        /\ (u + w) % Double = u + w
        /\ (P - 1 + w) % Double = P - 1 + w /\ (u + P - 1) % Double = u + P - 1
        /\ u + w < WordSize + P /\ (~FullWidth => u + w <= WMax)
        /\ MultiplesFit(LookupKp(o.l)) /\ MultiplesFit(LookupKp(o.r))
  BY <1>2, AddBounds
<1>4. Stands(val[o.l], ref[o.l], o.l) /\ Stands(val[o.r], ref[o.r], o.r)
  BY <1>2, ReachedFacts DEF Binary
<1>5. PICK x \in Nat, y \in Nat : x = val[o.l].word /\ y = val[o.r].word /\ x <= u /\ y <= w
  BY <1>3, <1>4, StandsFactor DEF Factor
<1>6. Lower(o, v) = LowerAdd(o, v)
  BY <1>2, Patterns
<1>7. LookupKp(v) > 1 => v \in DOMAIN bound
  <2>1. SUFFICES ASSUME LookupKp(v) > 1 PROVE v \in DOMAIN bound
    OBVIOUS
  <2>2. KpIn(bound, v) > 1 /\ \A j \in DOMAIN bound : bound[j] \in Nat /\ bound[j] + 1 < Double
    BY <2>1, ReachedUnit, CompiledFacts
  <2>3. UmaxIn(bound, v) >= P
    BY <2>2, ReachedUnit, UmaxFacts
  <2> QED BY <1>1, <2>3 DEF UmaxIn
<1>8. CASE ~FullWidth
  <2>1. PICK n \in Nat : n = u + w /\ n <= WMax /\ ~(n > WMax)
    BY <1>1, <1>3, <1>8
  <2>2. PICK q : q = PreReduce(o.l, o.r, (u + w) % Double > WMax,
                               (P - 1 + w) % Double <= WMax, (u + P - 1) % Double <= WMax)
    OBVIOUS
  <2>3. q = <<val[o.l], val[o.r]>>
    <3>1. ~((u + w) % Double > WMax)
      BY <1>3, <2>1
    <3> QED BY <2>2, <3>1 DEF PreReduce
  <2>4. x = q[1].word /\ y = q[2].word
    BY <1>5, <2>3
  <2>5. ~(FullWidth /\ Goldilocks /\ LookupKp(v) > 1)
    BY <1>8
  <2>6. /\ LookupKp(v) > 1 => LowerAdd(o, v) = Result(AddOp(AddI(x, y)), AddFlags(x, y))
        /\ ~(LookupKp(v) > 1) =>
             LowerAdd(o, v) =
               Result(CanonicalFromExtended(AddOp(AddI(x, y)),
                        IF (u + w) % Double > WMax THEN 2 ELSE KpFromUmax((u + w) % Double)),
                      AddFlags(x, y))
    <3>1. u = LookupUmax(o.l) /\ w = LookupUmax(o.r)
      BY <1>3
    <3>2. /\ FullWidth => LowerAdd(o, v) = Result(AddFullWidth(x, y), {})
          /\ ~FullWidth /\ LookupKp(v) > 1 => LowerAdd(o, v) = Result(AddOp(AddI(x, y)), AddFlags(x, y))
          /\ ~FullWidth /\ ~(LookupKp(v) > 1) =>
               LowerAdd(o, v) =
                 Result(CanonicalFromExtended(AddOp(AddI(x, y)),
                          IF (u + w) % Double > WMax THEN 2 ELSE KpFromUmax((u + w) % Double)),
                        AddFlags(x, y))
      BY ONLY <2>2, <2>4, <2>5, <3>1, AddIs
    <3> QED BY <1>8, <3>2
  <2>7. (IF (u + w) % Double > WMax THEN 2 ELSE KpFromUmax((u + w) % Double)) = KpFromUmax(n)
    BY <1>3, <2>1
  <2>8. AddI(x, y) = x + y
    <3>1. PICK z \in Nat : z = x + y /\ z < W
      BY <1>1, <1>5, <2>1
    <3>2. z % W = z
      BY <3>1, DivSmall
    <3> QED BY <1>1, <3>1, <3>2 DEF AddI
  <2>9. x + y <= n
    BY <1>5, <2>1
  <2>10. PICK s : s = AddOp(x + y)
    OBVIOUS
  <2>11. Lower(o, v) = Result(IF LookupKp(v) > 1 THEN s
                              ELSE CanonicalFromExtended(s, KpFromUmax(n)), AddFlags(x, y))
    <3>1. CASE LookupKp(v) > 1
      <4>1. LowerAdd(o, v) = Result(AddOp(AddI(x, y)), AddFlags(x, y))
        BY ONLY <2>6, <3>1
      <4>2. LowerAdd(o, v) = Result(s, AddFlags(x, y))
        BY ONLY <2>8, <2>10, <4>1
      <4> QED BY ONLY <1>6, <4>2, <3>1
    <3>2. CASE ~(LookupKp(v) > 1)
      <4>1. LowerAdd(o, v) =
              Result(CanonicalFromExtended(AddOp(AddI(x, y)),
                       IF (u + w) % Double > WMax THEN 2 ELSE KpFromUmax((u + w) % Double)),
                     AddFlags(x, y))
        BY ONLY <2>6, <3>2
      <4>2. LowerAdd(o, v) = Result(CanonicalFromExtended(s, KpFromUmax(n)), AddFlags(x, y))
        BY ONLY <2>8, <2>10, <2>7, <4>1
      <4> QED BY ONLY <1>6, <4>2, <3>2
    <3> QED BY ONLY <3>1, <3>2
  <2>12. ops[k].op \in {"add", "double"} /\ u + w = n /\ n <= WMax /\ v = NArgs + k
    BY <1>2, <2>1
  <2>13. x = val[ops[k].l].word /\ y = val[Addend(ops[k])].word
    BY <1>2, <1>5, Zenon
  <2>14. Lower(ops[k], v) = Result(IF LookupKp(v) > 1 THEN s
                                   ELSE CanonicalFromExtended(s, KpFromUmax(n)), AddFlags(x, y))
    BY ONLY <1>2, <2>11
  <2> QED
    BY ONLY <1>8, <2>9, <2>10, <2>12, <2>13, <2>14, Reached(k), x \in Nat, y \in Nat, n \in Nat, NarrowSum
<1>9. CASE FullWidth /\ ~(Goldilocks /\ LookupKp(v) > 1)
  <2>1. PICK q : q = PreReduce(o.l, o.r, u + w > WMax, P - 1 + w <= WMax, u + P - 1 <= WMax)
    OBVIOUS
  <2>2. PICK a \in Nat, b \in Nat :
           /\ a = q[1].word /\ b = q[2].word /\ a + b <= 2 * P - 1
           /\ SameMod(a + b, val[o.l].word + val[o.r].word, P)
    BY <1>3, <1>4, <1>9, <2>1, PreReducedSum
  <2>3. Lower(o, v) = Result(AddFullWidth(a, b), {})
    BY <1>3, <1>6, <1>9, <2>1, <2>2, Zenon DEF LowerAdd
  <2> QED BY <1>2, <2>2, <2>3, FullSum
<1>10. CASE FullWidth /\ Goldilocks /\ LookupKp(v) > 1
  <2>1. ~(u + w >= WordSize + P)
    BY <1>1, <1>3, SMTT(30)
  <2>2. Lower(o, v) =
          Result(AddOp(AddI(AddSum(x, y), IF AddCarry(x, y) = 1 THEN WordSize - P ELSE 0)), {})
    BY <1>3, <1>5, <1>6, <1>10, <2>1 DEF LowerAdd
  <2>3. x + y < WordSize + P
    BY <1>1, <1>3, <1>5
  <2> QED BY <1>2, <1>5, <1>7, <1>10, <2>2, <2>3, GoldilocksSum
<1> QED BY <1>8, <1>9, <1>10

(* What ConvertDouble emits. *)
LEMMA DoubleIs ==
  ASSUME NEW o, NEW v, NEW u, u = LookupUmax(o.l),
         NEW d, d = (2 * u) % Double,
         NEW q, q = PreReduce(o.l, o.l, d > WMax, (P - 1 + u) % Double <= WMax, (P - 1 + u) % Double <= WMax),
         NEW x, x = val[o.l].word, NEW a, a = q[1].word, NEW b, b = q[2].word
  PROVE  /\ FullWidth => LowerDouble(o, v) = Result(AddFullWidth(a, b), {})
         /\ ~FullWidth /\ ~(d > WMax) /\ LookupKp(v) > 1 =>
              LowerDouble(o, v) = Result(Plain(AddI(x, x)), AddFlags(x, x))
         /\ ~FullWidth /\ ~(d > WMax) /\ ~(LookupKp(v) > 1) =>
              LowerDouble(o, v) =
                Result(CanonicalFromExtended(Plain(AddI(x, x)), KpFromUmax(d)), AddFlags(x, x))
BY Zenon DEF LowerDouble

(* ConvertDouble is right. *)
LEMMA DoubleRight ==
  ASSUME NEW k, Reached(k), ops[k].op = "double"
  PROVE  Right(k)
<1>1. PICK p \in Nat, W \in Nat : p = P /\ W = WordSize /\ p >= 3 /\ p < W /\ WMax = W - 1
  BY ModulusFacts
<1>2. PICK o, v : o = ops[k] /\ v = NArgs + k /\ o.op = "double" /\ Addend(o) = o.l
  BY DEF Addend
<1>3. PICK u \in Nat : /\ u = LookupUmax(o.l) /\ u + u + 1 < Double
                       /\ KnownCanonical(o.l) \/ u + u <= WMax
  <2>1. o.op # "add"
    BY <1>2
  <2> QED BY <1>2, <2>1, AddendsFit
<1>4. Stands(val[o.l], ref[o.l], o.l)
  BY <1>2, ReachedFacts DEF Unary
<1>5. PICK x \in Nat : x = val[o.l].word /\ x <= u
  BY <1>3, <1>4, StandsFactor DEF Factor
<1>6. Lower(o, v) = LowerDouble(o, v)
  BY <1>2, Patterns
<1>7. PICK d \in Nat : d = u + u /\ d = 2 * u /\ d = (2 * u) % Double
  <2>1. PICK d \in Nat : d = u + u /\ d = 2 * u /\ d + 1 < Double
    BY <1>3
  <2>2. d % Double = d
    BY <2>1, ReachedUnit, BoundKept
  <2> QED BY <2>1, <2>2
<1>8. PICK q : q = PreReduce(o.l, o.l, d > WMax, (P - 1 + u) % Double <= WMax, (P - 1 + u) % Double <= WMax)
  OBVIOUS
<1>9. CASE ~FullWidth
  <2>1. d <= WMax /\ ~(d > WMax)
    <3>1. 2 * p < W
      BY <1>1, <1>9 DEF FullWidth, SignBitSet
    <3>2. KnownCanonical(o.l) => u <= p - 1
      BY <1>1, <1>3 DEF KnownCanonical
    <3> QED BY <1>1, <1>3, <1>7, <3>1, <3>2
  <2>2. /\ LookupKp(v) > 1 => LowerDouble(o, v) = Result(Plain(AddI(x, x)), AddFlags(x, x))
        /\ ~(LookupKp(v) > 1) => LowerDouble(o, v) =
             Result(CanonicalFromExtended(Plain(AddI(x, x)), KpFromUmax(d)), AddFlags(x, x))
    <3>1. u = LookupUmax(o.l) /\ d = (2 * u) % Double /\ x = val[o.l].word
      BY <1>3, <1>5, <1>7
    <3>2. PICK a, b : a = q[1].word /\ b = q[2].word
      OBVIOUS
    <3> QED BY ONLY <1>8, <1>9, <2>1, <3>1, <3>2, DoubleIs
  <2>3. AddI(x, x) = x + x
    <3>1. PICK z \in Nat : z = x + x /\ z < W
      BY <1>1, <1>5, <1>7, <2>1
    <3>2. z % W = z
      BY <3>1, DivSmall
    <3> QED BY <1>1, <3>1, <3>2 DEF AddI
  <2>4. x + x <= d
    BY <1>5, <1>7
  <2>5. PICK s : s = Plain(x + x)
    OBVIOUS
  <2>6. Lower(o, v) = Result(IF LookupKp(v) > 1 THEN s
                             ELSE CanonicalFromExtended(s, KpFromUmax(d)), AddFlags(x, x))
    BY <1>6, <2>2, <2>3, <2>5
  <2> QED BY <1>2, <1>5, <1>9, <2>1, <2>4, <2>5, <2>6, NarrowSum
<1>10. CASE FullWidth
  <2>1. KnownCanonical(o.l)
    <3>1. W <= 2 * p
      BY <1>1, <1>10 DEF FullWidth, SignBitSet
    <3>2. SUFFICES ASSUME ~KnownCanonical(o.l) PROVE FALSE
      OBVIOUS
    <3>3. LookupUmax(o.l) >= P
      <4>1. LookupKp(o.l) > 1
        BY <1>2, <3>2, LazyTaken DEF Unary
      <4> QED BY <1>4, <4>1, StandsFactor
    <3> QED BY <1>1, <1>3, <3>1, <3>2, <3>3
  <2>2. q = <<val[o.l], val[o.l]>>
    <3>1. CanonicalFromExtended(val[o.l], LookupKp(o.l)) = val[o.l]
      BY <2>1 DEF KnownCanonical
    <3> QED BY <1>8, <3>1 DEF PreReduce
  <2>3. LowerDouble(o, v) = Result(AddFullWidth(x, x), {})
    <3>1. u = LookupUmax(o.l) /\ d = (2 * u) % Double /\ x = val[o.l].word
      BY <1>3, <1>5, <1>7
    <3>2. x = q[1].word /\ x = q[2].word
      BY <1>5, <2>2
    <3> QED BY ONLY <1>8, <1>10, <3>1, <3>2, DoubleIs
  <2>4. x + x <= 2 * P - 1
    BY <1>1, <1>3, <1>5, <2>1 DEF KnownCanonical
  <2>5. SameMod(x + x, val[o.l].word + val[Addend(o)].word, P)
    BY <1>2, <1>5, SameModEquivalence
  <2> QED BY <1>2, <1>6, <2>3, <2>4, <2>5, FullSum
<1> QED BY <1>9, <1>10

(* What ConvertSub emits. *)
LEMMA SubIs ==
  ASSUME NEW o, NEW v, NEW u, u = LookupUmax(o.l), NEW h, h = KpFromUmax(LookupUmax(o.r)),
         NEW e, e = ((u + P * h) % Double > WMax), NEW f, f = ((P - 1 + P * h) % Double <= WMax),
         NEW q, q = PreReduce(o.l, o.r, e, f, (u + P) % Double <= WMax),
         NEW j, j = IF e /\ ~(LookupKp(o.l) > 1 /\ f) THEN 1 ELSE h
  PROVE  /\ LookupKp(v) > 1 /\ ~FullWidth =>
              LowerSub(o, v) =
                Result(Plain(SubI(AddI(q[1].word, (P * j) % WordSize), q[2].word)), {})
         /\ ~(LookupKp(v) > 1 /\ ~FullWidth) =>
              LowerSub(o, v) =
                Result(CanonicalDiff(CanonicalFromExtended(q[1], LookupKp(o.l)).word,
                                     CanonicalFromExtended(q[2], j).word), {})
BY Zenon DEF LowerSub

(* The operands of a subtraction are canonical, or their bounds leave room *)
(* for the multiple of p that is added. *)
LEMMA SubBounds ==
  ASSUME NEW k, Reached(k), ops[k].op = "sub", NEW l, l = ops[k].l, NEW r, r = ops[k].r
  PROVE  \E u, w, h, a \in Nat :
           /\ u = LookupUmax(l) /\ w = LookupUmax(r) /\ h = KpFromUmax(w) /\ h = LookupKp(r)
           /\ h >= 1 /\ a = P * h /\ u + a + 1 < Double
           /\ (KnownCanonical(l) /\ KnownCanonical(r)) \/ u + a <= WMax
           /\ w < a /\ P <= a
<1>1. PICK p \in Nat, W \in Nat : p = P /\ W = WordSize /\ p >= 3 /\ p < W /\ WMax = W - 1
  BY ModulusFacts
<1>2. PICK o : o = ops[k] /\ o.op = "sub" /\ NoWrap(bound, o)
  BY ReachedFacts
<1>3. Stands(val[l], ref[l], l) /\ Stands(val[r], ref[r], r)
  BY <1>2, ReachedFacts DEF Binary
<1>4. PICK u \in Nat, w \in Nat, h \in Nat :
        /\ u = LookupUmax(l) /\ w = LookupUmax(r) /\ h = KpFromUmax(w) /\ h = LookupKp(r) /\ h >= 1
        /\ w + 1 < Double
  BY <1>3, StandsFactor
<1>5. u = UmaxIn(bound, l) /\ h = KpIn(bound, r) /\ w = UmaxIn(bound, r)
  BY <1>4, ReachedUnit, CompiledFacts
<1>6. PICK a \in Nat : a = P * h /\ w < a /\ p <= a
  <2>1. w < P * h
    BY <1>4, ReachedUnit, KpFacts
  <2>2. p * h \in Nat /\ p * 1 <= p * h
    <3>1. p * 1 <= p * h
      BY <1>4, MulMono
    <3> QED BY <3>1, SMT
  <2> QED BY <1>1, <2>1, <2>2
<1>7. u + a + 1 < Double
  BY <1>2, <1>5, <1>6 DEF NoWrap
<1>8. (KnownCanonical(l) /\ KnownCanonical(r)) \/ u + a <= WMax
  <2>1. KnownCanonical(l) \/ Takes(bound, o, l)
    BY <1>2, LazyTaken DEF Binary
  <2>2. KnownCanonical(r) \/ Takes(bound, o, r)
    BY <1>2, LazyTaken DEF Binary
  <2>3. Takes(bound, o, l) \/ Takes(bound, o, r) => u + a <= WMax
    BY <1>2, <1>5, <1>6 DEF Takes
  <2> QED BY <2>1, <2>2, <2>3
<1> QED BY <1>1, <1>4, <1>6, <1>7, <1>8

(* A difference of canonical words is right. *)
LEMMA DiffRight ==
  ASSUME NEW k, Reached(k), ops[k].op = "sub",
         NEW x, NEW y, x = ref[ops[k].l], y = ref[ops[k].r],
         Lower(ops[k], NArgs + k) = Result(CanonicalDiff(x, y), {})
  PROVE  Right(k)
<1>1. PICK o, v : o = ops[k] /\ v = NArgs + k /\ o.op = "sub"
  OBVIOUS
<1>2. Stands(val[o.l], ref[o.l], o.l) /\ Stands(val[o.r], ref[o.r], o.r)
  BY <1>1, ReachedFacts DEF Binary
<1>3. x \in 0 .. P - 1 /\ y \in 0 .. P - 1
  BY <1>1, <1>2 DEF Stands
<1>4. Canonical(CanonicalDiff(x, y), (x - y) % P)
  BY <1>3, ReachedUnit, DiffCanonical
<1>5. Meaning(o, v) = (x - y) % P
  BY <1>1, Meanings
<1>6. Canonical(CanonicalDiff(x, y), Meaning(o, v))
  BY <1>4, <1>5
<1> QED BY <1>1, <1>6, CanonicalRight

(* The reduced operand of a subtraction is the residue it stands for. *)
LEMMA ReducedResidue ==
  ASSUME NEW k, Reached(k), NEW l, Stands(val[l], ref[l], l), MultiplesFit(LookupKp(l))
  PROVE  CanonicalFromExtended(val[l], LookupKp(l)).word = ref[l]
<1>1. PICK p \in Nat, W \in Nat : p = P /\ W = WordSize /\ p >= 3 /\ p < W /\ WMax = W - 1
  BY ModulusFacts
<1>2. PICK n \in 0 .. p - 1 : /\ CanonicalFromExtended(val[l], LookupKp(l)).word = n
                              /\ SameMod(n, val[l].word, p)
  BY <1>1, ReducedWord
<1>3. PICK r \in 0 .. p - 1 : r = ref[l] /\ SameMod(val[l].word, r, p)
  BY <1>1 DEF Stands
<1>4. SameMod(n, r, p)
  BY <1>2, <1>3, SameModEquivalence
<1>5. n = r % p
  <2>1. p > 0 /\ r \in Int
    BY <1>1
  <2> QED BY ONLY <1>4, <2>1, SameModSmall, p \in Nat, n \in 0 .. p - 1
<1>6. r % p = r
  <2>1. r \in Nat /\ r < p
    OBVIOUS
  <2> QED BY ONLY <2>1, DivSmall, p \in Nat
<1> QED BY <1>2, <1>3, <1>5, <1>6

(* The lazy difference: a multiple of p above the right operand is added. *)
LEMMA LazyDiffRight ==
  ASSUME NEW k, Reached(k), ops[k].op = "sub", NEW v, v = NArgs + k, v \in DOMAIN bound,
         NEW u \in Nat, NEW h \in Nat, NEW a \in Nat,
         u = LookupUmax(ops[k].l), h = KpFromUmax(LookupUmax(ops[k].r)), a = P * h, u + a <= WMax,
         LookupUmax(ops[k].r) < a,
         Lower(ops[k], v) = Result(Plain(SubI(AddI(val[ops[k].l].word, a % WordSize),
                                              val[ops[k].r].word)), {})
  PROVE  Right(k)
<1>1. PICK p \in Nat, W \in Nat : p = P /\ W = WordSize /\ p >= 3 /\ p < W /\ WMax = W - 1
  BY ModulusFacts
<1>2. PICK o : /\ o = ops[k] /\ o = Def(v) /\ o.op = "sub" /\ o.l \in Values /\ o.r \in Values
               /\ Stands(val[o.l], ref[o.l], o.l) /\ Stands(val[o.r], ref[o.r], o.r)
  BY ReachedFacts DEF Binary
<1>3. PICK x \in Nat, y \in Nat : /\ x = val[o.l].word /\ x <= u
                                  /\ y = val[o.r].word /\ y <= LookupUmax(o.r)
  BY <1>2, StandsFactor DEF Factor
<1>4. y < a
  <2>1. LookupUmax(o.r) \in Nat
    BY <1>2, StandsFactor
  <2> QED BY <1>2, <1>3, <2>1
<1>5. PICK d \in 0 .. W - 1 : d = x + a - y
  BY <1>1, <1>3, <1>4
<1>6. SubI(AddI(x, a % WordSize), y) = d
  <2>1. a < W /\ x + a < W
    BY <1>1, <1>3
  <2>2. a % W = a
    BY <2>1, DivSmall
  <2>3. PICK z \in Nat : z = x + a /\ z < W
    BY <2>1
  <2>4. z % W = z
    BY <2>3, DivSmall
  <2>5. AddI(x, a % WordSize) = z
    BY <1>1, <2>2, <2>3, <2>4 DEF AddI
  <2>6. d % W = d
    <3>1. d \in Nat /\ d < W
      OBVIOUS
    <3> QED BY ONLY <3>1, DivSmall, W \in Nat
  <2>7. SubI(z, y) = d
    BY <1>1, <1>5, <2>3, <2>6 DEF SubI
  <2> QED BY <2>5, <2>7
<1>7. PICK r \in 0 .. p - 1, s \in 0 .. p - 1 : /\ r = ref[o.l] /\ SameMod(x, r, p)
                                               /\ s = ref[o.r] /\ SameMod(y, s, p)
  BY <1>1, <1>2, <1>3 DEF Stands
<1>8. PICK m \in 0 .. p - 1 : m = Meaning(o, v) /\ SameMod(d, m, p)
  <2>1. PICK rs \in Int, xy \in Int : rs = r - s /\ xy = x - y
    BY <1>1
  <2>2. p > 0 /\ x \in Int /\ y \in Int /\ r \in Int /\ s \in Int /\ d \in Int /\ h \in Int
    BY <1>1
  <2>3. SameMod(x - y, r - s, p)
    BY ONLY <1>7, <2>2, SameModSum, p \in Nat
  <2>4. d = xy + p * h
    <3>1. d = xy + a
      BY <1>5, <2>1
    <3> QED BY <1>1, <3>1
  <2>5. SameMod(d, xy, p)
    BY ONLY <2>1, <2>2, <2>4, SameModIf, p \in Nat, xy \in Int
  <2>6. rs % p \in 0 .. p - 1 /\ SameMod(rs % p, rs, p)
    BY ONLY <2>2, SameModResidue, p \in Nat, rs \in Int
  <2>7. Meaning(o, v) = rs % p
    BY <1>1, <1>2, <1>7, <2>1, Meanings
  <2>8. SameMod(d, rs % p, p)
    BY <2>1, <2>3, <2>5, <2>6, SameModEquivalence
  <2> QED BY <2>6, <2>7, <2>8
<1>9. PICK c : c = Plain(d) /\ c \in Lowered /\ c.word = d /\ SignedFormRight(c)
  <2>1. d \in Word
    BY <1>1 DEF Word
  <2> QED BY <2>1, ReachedUnit, PlainFacts
<1>10. d <= UmaxIn(bound, v)
  <2>1. Compiled /\ BoundFrom(bound, v) /\ DOMAIN bound # {}
    BY ReachedUnit DEF Compiled, MapOK
  <2>2. PICK s1 \in Nat, t \in Nat : /\ Source(bound, o.l, s1) /\ Source(bound, o.r, t)
                                     /\ bound[v] = s1 + P * KpFromUmax(t)
    BY <1>2, <2>1 DEF BoundFrom
  <2>3. x <= s1
    BY <1>2, <1>3, <2>1, <2>2, StandsBelow
  <2>4. PICK j \in Nat : j = KpFromUmax(t) /\ h <= j
    <3>1. KpFromUmax(t) \in Nat /\ KpFromUmax(t) >= 1
      BY <2>2, ReachedUnit, KpFacts DEF Source
    <3>2. CASE o.r \in DOMAIN bound
      BY <1>2, <2>2, <3>1, <3>2 DEF Source, LookupUmax
    <3>3. CASE o.r \notin DOMAIN bound
      <4>1. h = 1
        BY <1>2, <3>3, ReachedUnit, KpCanonical DEF LookupUmax
      <4> QED BY <3>1, <4>1
    <3> QED BY <3>2, <3>3
  <2>5. PICK b \in Int : b = P * j /\ a <= b
    <3>1. p * h <= p * j
      BY <2>4, MulMono
    <3>2. p * j \in Int
      BY SMT
    <3> QED BY <1>1, <3>1, <3>2
  <2>6. bound[v] = s1 + b
    BY <2>2, <2>4, <2>5
  <2> QED BY <1>5, <2>3, <2>5, <2>6 DEF UmaxIn
<1>11. LazyOption => P - 1 <= RangeMax[v]
  BY <1>2, ResultRange
<1>12. Stands(c, m, v)
  BY <1>1, <1>8, <1>9, <1>10, <1>11 DEF Stands
<1>13. Lower(o, v) = Result(c, {})
  BY <1>2, <1>3, <1>6, <1>9
<1> QED BY <1>2, <1>8, <1>12, <1>13 DEF Right, Result

(* ConvertSub is right. *)
LEMMA SubRight ==
  ASSUME NEW k, Reached(k), ops[k].op = "sub"
  PROVE  Right(k)
<1>1. PICK p \in Nat, W \in Nat : p = P /\ W = WordSize /\ p >= 3 /\ p < W /\ WMax = W - 1
  BY ModulusFacts
<1>2. PICK o, v : o = ops[k] /\ v = NArgs + k /\ o.op = "sub"
  OBVIOUS
<1>3. PICK u \in Nat, w \in Nat, h \in Nat, a \in Nat :
        /\ u = LookupUmax(o.l) /\ w = LookupUmax(o.r) /\ h = KpFromUmax(w) /\ h = LookupKp(o.r)
        /\ h >= 1 /\ a = P * h /\ u + a + 1 < Double
        /\ (KnownCanonical(o.l) /\ KnownCanonical(o.r)) \/ u + a <= WMax
        /\ w < a /\ P <= a
  BY <1>2, SubBounds
<1>4. Stands(val[o.l], ref[o.l], o.l) /\ Stands(val[o.r], ref[o.r], o.r)
  BY <1>2, ReachedFacts DEF Binary
<1>5. Lower(o, v) = LowerSub(o, v)
  BY <1>2, Patterns
<1>6. PICK e, f, q, j :
        /\ e = ((u + P * h) % Double > WMax) /\ f = ((P - 1 + P * h) % Double <= WMax)
        /\ q = PreReduce(o.l, o.r, e, f, (u + P) % Double <= WMax)
        /\ j = IF e /\ ~(LookupKp(o.l) > 1 /\ f) THEN 1 ELSE h
  OBVIOUS
<1>7. /\ LookupKp(v) > 1 /\ ~FullWidth =>
           LowerSub(o, v) = Result(Plain(SubI(AddI(q[1].word, (P * j) % WordSize), q[2].word)), {})
      /\ ~(LookupKp(v) > 1 /\ ~FullWidth) =>
           LowerSub(o, v) = Result(CanonicalDiff(CanonicalFromExtended(q[1], LookupKp(o.l)).word,
                                                 CanonicalFromExtended(q[2], j).word), {})
  <2>1. u = LookupUmax(o.l) /\ h = KpFromUmax(LookupUmax(o.r))
    BY <1>3
  <2> QED BY ONLY <1>6, <2>1, SubIs
<1>8. CASE ~FullWidth
  <2>1. u + a <= WMax
    <3>1. 2 * p < W
      BY <1>1, <1>8 DEF FullWidth, SignBitSet
    <3>2. SUFFICES ASSUME KnownCanonical(o.l), KnownCanonical(o.r) PROVE u + a <= WMax
      BY <1>3
    <3>3. u <= p - 1 /\ h = 1
      BY <1>1, <1>3, <3>2 DEF KnownCanonical
    <3>4. a = p
      BY <1>1, <1>3, <3>3
    <3> QED BY <1>1, <3>1, <3>3, <3>4
  <2>2. ~e
    <3>1. PICK n \in Nat : n = u + a /\ n + 1 < Double /\ n <= WMax
      BY <1>3, <2>1
    <3>2. n % Double = n
      BY <3>1, ReachedUnit, BoundKept
    <3>3. ~(n % Double > WMax)
      BY <1>1, <3>1, <3>2
    <3> QED BY <1>3, <1>6, <3>1, <3>3
  <2>3. q = <<val[o.l], val[o.r]>> /\ j = h
    BY <1>6, <2>2 DEF PreReduce
  <2>4. CASE LookupKp(v) > 1
    <3>1. v \in DOMAIN bound
      <4>1. KpIn(bound, v) > 1 /\ \A z \in DOMAIN bound : bound[z] \in Nat /\ bound[z] + 1 < Double
        BY <2>4, ReachedUnit, CompiledFacts
      <4>2. UmaxIn(bound, v) >= P
        BY <4>1, ReachedUnit, UmaxFacts
      <4> QED BY <1>1, <4>2 DEF UmaxIn
    <3>2. Lower(o, v) = Result(Plain(SubI(AddI(val[o.l].word, a % WordSize), val[o.r].word)), {})
      BY <1>3, <1>5, <1>7, <1>8, <2>3, <2>4
    <3>3. h = KpFromUmax(LookupUmax(o.r)) /\ LookupUmax(o.r) < a
      BY <1>3
    <3> QED BY <1>2, <1>3, <2>1, <3>1, <3>2, <3>3, LazyDiffRight
  <2>5. CASE ~(LookupKp(v) > 1)
    <3>1. MultiplesFit(LookupKp(o.l)) /\ MultiplesFit(LookupKp(o.r))
      <4>1. u <= WMax /\ w <= WMax
        BY <1>1, <1>3, <2>1
      <4>2. MultiplesFit(KpFromUmax(u)) /\ MultiplesFit(KpFromUmax(w))
        BY <4>1, ReachedUnit, WordMultiplesFit
      <4>3. LookupKp(o.l) = KpFromUmax(u)
        BY <1>3, <1>4, StandsFactor
      <4> QED BY <1>3, <4>2, <4>3
    <3>2. PICK x, y : /\ x = CanonicalFromExtended(val[o.l], LookupKp(o.l)).word /\ x = ref[o.l]
                      /\ y = CanonicalFromExtended(val[o.r], LookupKp(o.r)).word /\ y = ref[o.r]
      BY <1>4, <3>1, ReducedResidue
    <3>3. Lower(o, v) = Result(CanonicalDiff(x, y), {})
      BY <1>3, <1>5, <1>7, <2>3, <2>5, <3>2
    <3> QED BY <1>2, <3>2, <3>3, DiffRight
  <2> QED BY <2>4, <2>5
<1>9. CASE FullWidth
  <2>1. W <= 2 * p
    BY <1>1, <1>9 DEF FullWidth, SignBitSet
  <2>2. KnownCanonical(o.l) /\ KnownCanonical(o.r)
    <3>1. SUFFICES ASSUME ~(KnownCanonical(o.l) /\ KnownCanonical(o.r)) PROVE FALSE
      OBVIOUS
    <3>2. u + a <= W - 1
      BY <1>1, <1>3, <3>1
    <3>3. h = 1 /\ u < p
      <4>1. h <= 1
        <5>1. SUFFICES ASSUME h >= 2 PROVE FALSE
          BY <1>3
        <5>2. p * 2 <= p * h
          BY <5>1, MulMono
        <5> QED BY <1>1, <1>3, <2>1, <3>2, <5>2
      <4> QED BY <1>1, <1>3, <2>1, <3>2, <4>1
    <3>4. ~(LookupKp(o.l) > 1) /\ ~(LookupKp(o.r) > 1)
      <4>1. LookupKp(o.l) > 1 <=> LookupUmax(o.l) >= P
        BY <1>4, StandsFactor
      <4>2. LookupKp(o.l) \in Nat
        BY <1>4, StandsFactor
      <4> QED BY <1>1, <1>3, <3>3, <4>1, <4>2
    <3> QED BY <1>2, <3>1, <3>4, LazyTaken DEF Binary
  <2>3. /\ CanonicalFromExtended(val[o.l], LookupKp(o.l)) = val[o.l] /\ val[o.l].word = ref[o.l]
        /\ CanonicalFromExtended(val[o.r], LookupKp(o.r)) = val[o.r] /\ val[o.r].word = ref[o.r]
        /\ LookupKp(o.r) = 1
    BY <2>2 DEF KnownCanonical
  <2>4. q = <<val[o.l], val[o.r]>>
    BY <1>6, <2>3 DEF PreReduce
  <2>5. j = 1 /\ h = 1
    BY <1>3, <1>6, <2>3
  <2>6. PICK x, y : x = ref[o.l] /\ y = ref[o.r]
    OBVIOUS
  <2>7. Lower(o, v) = Result(CanonicalDiff(x, y), {})
    BY <1>3, <1>5, <1>7, <1>9, <2>3, <2>4, <2>5, <2>6
  <2> QED BY <1>2, <2>6, <2>7, DiffRight
<1> QED BY <1>8, <1>9

\* The forms of the operands are what the verifiers allow.
Formed == \A k \in 1 .. Len(ops) :
  /\ ops[k].op \in Binary => InMontgomeryForm[ops[k].l] = InMontgomeryForm[ops[k].r]
  /\ ops[k].op = "barrettmul" => ~InMontgomeryForm[ops[k].l]

\* The first n operations that are constants stand for their attributes.
Constants(n) == \A x \in NArgs + 1 .. NArgs + n : Def(x).op = "const" => ref[x] = Def(x).l

(* A product has the form of its left operand. *)
LEMMA ProductForm ==
  ASSUME Program, NEW k \in 1 .. Len(ops), ops[k].op \in {"mul", "barrettmul"}
  PROVE  InMontgomeryForm[NArgs + k] = InMontgomeryForm[ops[k].l]
<1>1. PICK n \in Nat, v \in Nat : n = NArgs /\ v = NArgs + k /\ v > n /\ v \in 1 .. n + Len(ops) /\ v - n = k
  <2>1. PICK n \in Nat, m \in Nat : n = NArgs /\ m = Len(ops) /\ k \in 1 .. m
    BY ProgramFacts
  <2>2. PICK v \in Nat : v = n + k /\ v > n /\ v \in 1 .. n + m /\ v - n = k
    BY <2>1
  <2> QED BY <2>1, <2>2, SMTT(30)
<1>2. PICK f : f = FormOf(Montgomery, n, ops) /\ f = InMontgomeryForm
  BY <1>1, FormIs
<1>3. f[v] = FormStep(Montgomery, n, ops, f, v)
  <2>1. /\ WiredOps(n, ops) /\ Len(ops) \in Nat
        /\ \A j \in 1 .. Len(ops) : ops[j].op \in OpTags
    BY <1>1, ProgramFacts DEF Program
  <2>2. \A w \in 1 .. n + Len(ops) :
           FormOf(Montgomery, n, ops)[w] = FormStep(Montgomery, n, ops, FormOf(Montgomery, n, ops), w)
    BY <2>1, FormUnfolds
  <2> QED BY ONLY <1>1, <1>2, <2>2
<1>4. FormStep(Montgomery, n, ops, f, v) = f[ops[k].l]
  BY <1>1 DEF FormStep
<1> QED BY <1>1, <1>2, <1>3, <1>4

(* Every pattern is right: the word it computes stands for the meaning of    *)
(* its operation, and it breaks no promise of nuw.                           *)
LEMMA OperationRight ==
  ASSUME NEW k, Reached(k), Formed, Constants(k - 1), LoweringFits(ops[k], NArgs + k)
  PROVE  Right(k)
<1>1. PICK o, v : o = ops[k] /\ v = NArgs + k /\ o = Def(v) /\ o.op \in OpTags
  BY ReachedFacts
<1>2. Program /\ k \in 1 .. Len(ops)
  BY ReachedUnit, CompiledFacts DEF Reached
<1>3. /\ FullWidth /\ o.op \in {"montmul", "montsquare", "montreduce"} => LookupKp(v) <= 1
      /\ Goldilocks /\ o.op = "add" => LookupKp(o.l) <= 2 /\ LookupKp(o.r) <= 2
      /\ o.op \in {"mul", "square"} => FormFits(o, v)
      /\ Shortcut(o) => ~Negated(o) \/ val[o.l].word # 0
  BY <1>1 DEF LoweringFits, FormFits
<1>4. CASE o.op = "add"
  BY <1>1, <1>3, <1>4, AddRight
<1>5. CASE o.op = "sub"
  BY <1>1, <1>5, SubRight
<1>6. CASE o.op = "double"
  BY <1>1, <1>6, DoubleRight
<1>7. CASE o.op = "mul"
  <2>1. CASE ~Shortcut(o)
    BY <1>1, <1>3, <1>7, <2>1, MulRight
  <2>2. CASE Shortcut(o)
    <3>1. IsOp(o.r) /\ Def(o.r).op = "const"
      BY <2>2 DEF Shortcut, ByConst
    <3>2. o.r \in NArgs + 1 .. NArgs + (k - 1)
      <4>1. o.r \in 1 .. v - 1
        BY <1>1, <1>2, <1>7, ReachedFacts, OperandsExist DEF Binary
      <4> QED BY <1>1, <1>2, <3>1, <4>1, ProgramFacts DEF IsOp
    <3>3. ref[o.r] = Def(o.r).l
      BY <3>1, <3>2 DEF Constants
    <3>4. InMontgomeryForm[o.r] = InMontgomeryForm[v]
      <4>1. InMontgomeryForm[o.l] = InMontgomeryForm[o.r]
        BY <1>1, <1>2, <1>7 DEF Formed, Binary
      <4>2. InMontgomeryForm[v] = InMontgomeryForm[o.l]
        BY <1>1, <1>2, <1>7, ProductForm
      <4> QED BY <4>1, <4>2
    <3> QED BY <1>1, <1>3, <1>7, <2>2, <3>3, <3>4, ShortcutRight
  <2> QED BY <2>1, <2>2
<1>8. CASE o.op = "square"
  BY <1>1, <1>3, <1>8, SquareRight
<1>9. CASE o.op = "montmul"
  BY <1>1, <1>3, <1>9, MontmulRight
<1>10. CASE o.op = "montsquare"
  BY <1>1, <1>3, <1>10, MontsquareRight
<1>11. CASE o.op = "montreduce"
  BY <1>1, <1>3, <1>11, MontreduceRight
<1>12. CASE o.op = "barrettmul"
  <2>1. ~InMontgomeryForm[v]
    <3>1. InMontgomeryForm[v] = InMontgomeryForm[o.l]
      BY <1>1, <1>2, <1>12, ProductForm
    <3>2. ~InMontgomeryForm[o.l]
      BY <1>1, <1>2, <1>12 DEF Formed
    <3> QED BY <3>1, <3>2
  <2> QED BY <1>1, <1>12, <2>1, BarrettmulRight
<1>13. CASE o.op = "negate"
  BY <1>1, <1>13, NegateRight
<1>14. CASE o.op \in {"inverse", "montinverse"}
  BY <1>1, <1>14, InverseRight
<1>15. CASE o.op = "tomont"
  BY <1>1, <1>15, TomontRight
<1>16. CASE o.op = "frommont"
  BY <1>1, <1>16, FrommontRight
<1>17. CASE o.op = "bitcast"
  BY <1>1, <1>17, BitcastRight
<1>18. CASE o.op = "const"
  BY <1>1, <1>18, ConstRight
<1>19. CASE o.op \in Predicates
  BY <1>1, <1>19, CmpRight
<1>20. \/ o.op \in {"add", "sub", "double", "mul", "square", "montmul", "montsquare", "montreduce",
                    "barrettmul", "negate", "inverse", "montinverse", "tomont", "frommont",
                    "bitcast", "const"}
       \/ o.op \in Predicates
  BY <1>1 DEF OpTags, Binary, Unary
<1> QED BY <1>4, <1>5, <1>6, <1>7, <1>8, <1>9, <1>10, <1>11, <1>12, <1>13, <1>14, <1>15,
           <1>16, <1>17, <1>18, <1>19, <1>20

\* The step leaves the unit and the program alone.
SameProgram == unit' = unit /\ ops' = ops

(* What depends on the unit and the program alone then stays as it is. *)
LEMMA StaticNumbers ==
  ASSUME SameProgram
  PROVE  /\ P' = P /\ WordSize' = WordSize /\ WMax' = WMax /\ Double' = Double /\ NArgs' = NArgs
         /\ Returned' = Returned /\ RedcLimit' = RedcLimit /\ Word' = Word /\ Lowered' = Lowered
         /\ MaxOps' = MaxOps /\ Values' = Values /\ LazyOption' = LazyOption
         /\ Montgomery' = Montgomery /\ (Goldilocks' <=> Goldilocks)
         /\ (SignBitSet' <=> SignBitSet)
<1>1. unit' = unit /\ ops' = ops
  BY DEF SameProgram
<1>2. P' = P /\ WordSize' = WordSize /\ NArgs' = NArgs /\ LazyOption' = LazyOption /\ Montgomery' = Montgomery
      /\ MaxOps' = MaxOps
  BY <1>1, Zenon DEF P, WordSize, NArgs, LazyOption, Montgomery, MaxOps
<1>3. WMax' = WMax /\ Double' = Double /\ RedcLimit' = RedcLimit /\ Word' = Word
  BY <1>2, Zenon DEF WMax, Double, RedcLimit, Word
<1>4. Returned' = Returned /\ Values' = Values
  BY <1>1, <1>2, Zenon DEF Returned, Values
<1>5. Lowered' = Lowered
  BY <1>3, Zenon DEF Lowered
<1>6. (Goldilocks' <=> Goldilocks) /\ (SignBitSet' <=> SignBitSet)
  BY <1>2 DEF Goldilocks, SignBitSet
<1> QED BY <1>2, <1>3, <1>4, <1>5, <1>6

(* So do all the operators over the program. *)
LEMMA StaticOperators ==
  ASSUME SameProgram
  PROVE  /\ \A v : Def(v)' = Def(v) /\ (IsOp(v)' <=> IsOp(v)) /\ Users(v)' = Users(v)
         /\ \A u : KpFromUmax(u)' = KpFromUmax(u)
         /\ RangeMax' = RangeMax /\ InMontgomeryForm' = InMontgomeryForm
         /\ \A x : Floor(x)' = Floor(x)
         /\ \A o : RangeFits(o)' <=> RangeFits(o)
         /\ \A v : SignedFormRight(v)' <=> SignedFormRight(v)
<1>1. unit' = unit /\ ops' = ops
  BY DEF SameProgram
<1>2. \A v : Def(v)' = Def(v) /\ (IsOp(v)' <=> IsOp(v)) /\ Users(v)' = Users(v)
  BY <1>1, Zenon DEF Def, IsOp, Users, Operands, NArgs
<1>3. \A u : KpFromUmax(u)' = KpFromUmax(u)
  BY <1>1, Zenon DEF KpFromUmax, Double, P, WordSize
<1>4. RangeMax' = RangeMax
  BY <1>1 DEF RangeMax, Values, IsOp, P, NArgs, Def, Widen, USat, SubRange, WMax, WordSize
<1>5. InMontgomeryForm' = InMontgomeryForm
  BY <1>1, FormIs, FormIsNext, StaticNumbers
<1>6. \A x : Floor(x)' = Floor(x)
  BY <1>4, StaticNumbers, Zenon DEF Floor
<1>7. \A o : RangeFits(o)' <=> RangeFits(o)
  BY <1>4, StaticNumbers, Zenon DEF RangeFits
<1>8. \A v : SignedFormRight(v)' <=> SignedFormRight(v)
  BY StaticNumbers, Zenon DEF SignedFormRight
<1> QED BY <1>2, <1>3, <1>4, <1>5, <1>6, <1>7, <1>8

(* The judgements on a bound map b are about b, whatever the state. *)
LEMMA StaticMaps ==
  ASSUME SameProgram, NEW b, b = bound'
  PROVE  /\ \A x : UmaxIn(bound, x)' = UmaxIn(b, x) /\ KpIn(bound, x)' = KpIn(b, x)
         /\ \A n : MapOK(bound, n)' <=> MapOK(b, n)
         /\ \A S : Settled(bound, S)' <=> Settled(b, S)
<1>1. unit' = unit /\ ops' = ops
  BY DEF SameProgram
<1>2. \A x : UmaxIn(bound, x)' = UmaxIn(b, x)
  BY StaticNumbers, Zenon DEF UmaxIn
<1>3. \A x : KpIn(bound, x)' = KpIn(b, x)
  BY <1>2, StaticOperators, Zenon DEF KpIn
<1>4. \A x, u : Source(bound, x, u)' <=> Source(b, x, u)
  BY StaticNumbers, StaticOperators, Zenon DEF Source
<1>5. \A v : BoundFrom(bound, v)' <=> BoundFrom(b, v)
  BY <1>4, StaticNumbers, StaticOperators DEF BoundFrom
<1>6. \A o : NoWrap(bound, o)' <=> NoWrap(b, o)
  BY <1>2, <1>3, StaticNumbers, Zenon DEF NoWrap
<1>7. \A n : MapOK(bound, n)' <=> MapOK(b, n)
  BY <1>1, <1>5, <1>6, StaticNumbers, Zenon DEF MapOK
<1>8. \A o, v : Takes(bound, o, v)' <=> Takes(b, o, v)
  BY <1>2, <1>3, StaticNumbers, StaticOperators DEF Takes
<1>9. \A v : Benefits(bound, v)' <=> Benefits(b, v)
  BY <1>1, <1>8, StaticNumbers, StaticOperators, Zenon DEF Benefits
<1>10. \A S : Settled(bound, S)' <=> Settled(b, S)
  BY <1>3, <1>9, Zenon DEF Settled
<1> QED BY <1>2, <1>3, <1>7, <1>10

(* So do the program, its forms, and what a word stands for. *)
LEMMA StaticProgram ==
  ASSUME SameProgram, Program, Formed
  PROVE  Program' /\ Formed'
<1>1. unit' = unit /\ ops' = ops
  BY DEF SameProgram
<1>2. Program'
  BY <1>1, StaticNumbers, Zenon DEF Program
<1>3. Formed'
  BY <1>1, StaticOperators, Zenon DEF Formed
<1> QED BY <1>2, <1>3

(* A value that stands for a residue still does. *)
LEMMA StaticStands ==
  ASSUME SameProgram, bound' = bound, NEW x, NEW r, NEW v, Stands(x, r, v)
  PROVE  Stands(x, r, v)'
<1>1. PICK b : b = bound' /\ b = bound
  OBVIOUS
<1>2. UmaxIn(bound, v)' = UmaxIn(bound, v)
  BY <1>1, StaticMaps
<1> QED BY <1>2, StaticNumbers, StaticOperators DEF Stands

(* A compiled function stays one. *)
LEMMA StaticCompiled ==
  ASSUME SameProgram, bound' = bound, Compiled
  PROVE  Compiled'
<1>1. PICK b : b = bound' /\ b = bound
  OBVIOUS
<1>2. unit' = unit /\ ops' = ops
  BY DEF SameProgram
<1>3. Program'
  BY <1>2, StaticNumbers, Zenon DEF Compiled, Program
<1>4. MapOK(bound, Len(ops))' /\ Settled(bound, {})'
  <2>1. \A n : MapOK(bound, n)' <=> MapOK(bound, n)
    BY <1>1, StaticMaps
  <2>2. Settled(bound, {})' <=> Settled(bound, {})
    BY <1>1, StaticMaps
  <2> QED BY <1>2, <2>1, <2>2, Zenon DEF Compiled
<1>5. (LazyOption => \A k \in 1 .. Len(ops) : RangeFits(ops[k]))'
  BY <1>2, StaticNumbers, StaticOperators, Zenon DEF Compiled
<1>6. (~LazyOption => DOMAIN bound = {})'
  BY StaticNumbers, Zenon DEF Compiled
<1> QED BY <1>3, <1>4, <1>5, <1>6, Zenon DEF Compiled

(* An operation the verifiers let through takes values defined before it. *)
LEMMA VerifiedWired ==
  ASSUME Program, NEW o, Verified(o)
  PROVE  /\ o.op \in Binary => /\ o.l \in 1 .. NArgs + Len(ops) /\ o.r \in 1 .. NArgs + Len(ops)
                               /\ InMontgomeryForm[o.l] = InMontgomeryForm[o.r]
         /\ o.op \in Unary => o.l \in 1 .. NArgs + Len(ops)
         /\ o.op = "barrettmul" => ~InMontgomeryForm[o.l]
<1>1. CASE o.op \in Binary
  <2>1. Operands(o) = <<o.l, o.r>>
    BY <1>1 DEF Operands
  <2>2. 1 \in DOMAIN Operands(o) /\ 2 \in DOMAIN Operands(o) /\ Operands(o)[1] = o.l /\ Operands(o)[2] = o.r
    BY <2>1
  <2>3. o.l \in Values /\ o.r \in Values
    BY <2>2 DEF Verified
  <2>4. o.op \notin Unary
    BY <1>1 DEF Binary, Unary, Predicates
  <2> QED BY <1>1, <2>3, <2>4 DEF Verified, Values
<1>2. CASE o.op \in Unary /\ o.op \notin Binary
  <2>1. Operands(o) = <<o.l>>
    BY <1>2 DEF Operands
  <2>2. 1 \in DOMAIN Operands(o) /\ Operands(o)[1] = o.l
    BY <2>1
  <2>3. o.l \in Values
    BY <2>2 DEF Verified
  <2>4. o.op # "barrettmul"
    BY <1>2 DEF Unary
  <2> QED BY <1>2, <2>3, <2>4 DEF Values
<1>3. CASE o.op \notin Unary /\ o.op \notin Binary
  BY <1>3 DEF Binary
<1> QED BY <1>1, <1>2, <1>3

(* The front end's step keeps the program well formed. *)
LEMMA EmitProgram ==
  ASSUME Program, NEW o \in Operations(unit), Verified(o), Len(ops) < MaxOps,
         unit' = unit, ops' = Append(ops, o)
  PROVE  /\ Program' /\ NArgs' = NArgs /\ Montgomery' = Montgomery
         /\ Len(ops') = Len(ops) + 1 /\ ops'[Len(ops) + 1] = o
         /\ \A k \in 1 .. Len(ops) : ops'[k] = ops[k]
<1>1. PICK n \in Nat, m \in Nat : n = NArgs /\ m = Len(ops) /\ ops \in Seq(Operations(unit))
  BY ProgramFacts DEF Program
<1>2. /\ ops' \in Seq(Operations(unit)) /\ Len(ops') = m + 1 /\ ops'[m + 1] = o
      /\ \A k \in 1 .. m : ops'[k] = ops[k]
  BY <1>1
<1>3. NArgs' = NArgs /\ Montgomery' = Montgomery /\ MaxOps' = MaxOps
  BY Zenon DEF NArgs, Montgomery, MaxOps
<1>4. MaxOps \in Nat
  <2>1. Menus[unit.menu] \in Seq(SUBSET Operations(unit))
    BY UnitFacts DEF Program
  <2> QED BY <2>1 DEF MaxOps
<1>5. \A k \in 1 .. m + 1 :
        /\ ops'[k].op \in Binary => ops'[k].l \in 1 .. n + k - 1 /\ ops'[k].r \in 1 .. n + k - 1
        /\ ops'[k].op \in Unary => ops'[k].l \in 1 .. n + k - 1
  <2>1. SUFFICES ASSUME NEW k \in 1 .. m + 1
        PROVE  /\ ops'[k].op \in Binary => ops'[k].l \in 1 .. n + k - 1 /\ ops'[k].r \in 1 .. n + k - 1
               /\ ops'[k].op \in Unary => ops'[k].l \in 1 .. n + k - 1
    OBVIOUS
  <2>2. CASE k \in 1 .. m
    BY <1>1, <1>2, <2>2 DEF Program, WiredOps
  <2>3. CASE k = m + 1
    <3>1. n + k - 1 = n + m
      BY <2>3
    <3>2. ops'[k] = o
      BY <1>2, <2>3
    <3> QED BY <1>1, <3>1, <3>2, VerifiedWired
  <2>4. k \in 1 .. m \/ k = m + 1
    OBVIOUS
  <2> QED BY <2>2, <2>3, <2>4
<1>6. WiredOps(NArgs, ops')
  BY <1>1, <1>2, <1>5 DEF WiredOps
<1>7. Program'
  <2>1. unit' \in Units /\ ops' \in Seq(Operations(unit')) /\ Len(ops') <= MaxOps'
    BY <1>1, <1>2, <1>3, <1>4 DEF Program
  <2>2. WiredOps(NArgs', ops')
    BY <1>3, <1>6
  <2> QED BY <2>1, <2>2 DEF Program, WiredOps
<1> QED BY <1>1, <1>2, <1>3, <1>7, SMTT(30)

(* The forms of the values that were there do not change. *)
LEMMA EmitForms ==
  ASSUME Program, Program', NArgs' = NArgs, Montgomery' = Montgomery,
         Len(ops') = Len(ops) + 1, \A k \in 1 .. Len(ops) : ops'[k] = ops[k],
         NEW x \in 1 .. NArgs + Len(ops)
  PROVE  InMontgomeryForm'[x] = InMontgomeryForm[x]
<1>1. PICK n \in Nat : n = NArgs
  BY ProgramFacts
<1>2. PICK os, more, base : os = ops /\ more = ops' /\ base = Montgomery
  OBVIOUS
<1>3. /\ Len(os) \in Nat /\ WiredOps(n, os) /\ \A k \in 1 .. Len(os) : os[k].op \in OpTags
  BY <1>1, <1>2, ProgramFacts DEF Program
<1>4. /\ Len(more) \in Nat /\ WiredOps(n, more) /\ \A k \in 1 .. Len(more) : more[k].op \in OpTags
  <2>1. more \in Seq(Operations(unit')) /\ WiredOps(n, more)
    BY <1>1, <1>2 DEF Program, WiredOps
  <2>2. Len(more) \in Nat /\ \A k \in 1 .. Len(more) : more[k] \in Operations(unit')
    BY <2>1
  <2>3. \A k \in 1 .. Len(more) : more[k].op \in OpTags
    <3>1. SUFFICES ASSUME NEW k \in 1 .. Len(more) PROVE more[k].op \in OpTags
      OBVIOUS
    <3>2. PICK u, o : u = unit' /\ o = more[k] /\ o \in Operations(u)
      BY <2>2
    <3>3. o.op \in OpTags
      BY <3>2, OperationFacts
    <3> QED BY <3>2, <3>3
  <2> QED BY <2>1, <2>2, <2>3
<1>5. Len(os) <= Len(more) /\ \A k \in 1 .. Len(os) : more[k] = os[k]
  BY <1>1, <1>2, <1>3
<1>6. x \in 1 .. n + Len(os)
  BY <1>1, <1>2
<1>7. FormOf(base, n, more)[x] = FormOf(base, n, os)[x]
  BY ONLY <1>3, <1>4, <1>5, <1>6, FormStable, n \in Nat
<1> QED BY <1>1, <1>2, <1>7, FormIs, FormIsNext

(* The forms the verifiers accept agree in the longer function. *)
LEMMA EmitFormed ==
  ASSUME Program, Formed, NEW o \in Operations(unit), Verified(o), Len(ops) < MaxOps,
         unit' = unit, ops' = Append(ops, o)
  PROVE  Program' /\ Formed'
<1>1. /\ Program' /\ NArgs' = NArgs /\ Montgomery' = Montgomery
      /\ Len(ops') = Len(ops) + 1 /\ ops'[Len(ops) + 1] = o
      /\ \A k \in 1 .. Len(ops) : ops'[k] = ops[k]
  BY EmitProgram, SMTT(30)
<1>2. PICK n \in Nat, m \in Nat : n = NArgs /\ m = Len(ops)
  BY ProgramFacts
<1>3. \A x \in 1 .. n + m : InMontgomeryForm'[x] = InMontgomeryForm[x]
  BY <1>1, <1>2, EmitForms
<1>4. \A k \in 1 .. m + 1 :
        /\ ops'[k].op \in Binary => InMontgomeryForm'[ops'[k].l] = InMontgomeryForm'[ops'[k].r]
        /\ ops'[k].op = "barrettmul" => ~InMontgomeryForm'[ops'[k].l]
  <2>1. SUFFICES ASSUME NEW k \in 1 .. m + 1
        PROVE  /\ ops'[k].op \in Binary => InMontgomeryForm'[ops'[k].l] = InMontgomeryForm'[ops'[k].r]
               /\ ops'[k].op = "barrettmul" => ~InMontgomeryForm'[ops'[k].l]
    OBVIOUS
  <2>2. PICK q : q = ops'[k]
    OBVIOUS
  <2>3. /\ q.op \in Binary => /\ q.l \in 1 .. n + m /\ q.r \in 1 .. n + m
                              /\ InMontgomeryForm[q.l] = InMontgomeryForm[q.r]
        /\ q.op = "barrettmul" => ~InMontgomeryForm[q.l]
    <3>1. CASE k \in 1 .. m
      <4>1. q = ops[k]
        BY <1>1, <1>2, <2>2, <3>1
      <4>2. q.op \in Binary => q.l \in 1 .. n + k - 1 /\ q.r \in 1 .. n + k - 1
        BY <1>2, <3>1, <4>1 DEF Program, WiredOps
      <4>3. \A z \in 1 .. n + k - 1 : z \in 1 .. n + m
        BY <3>1
      <4>4. /\ q.op \in Binary => InMontgomeryForm[q.l] = InMontgomeryForm[q.r]
            /\ q.op = "barrettmul" => ~InMontgomeryForm[q.l]
        BY <1>2, <3>1, <4>1 DEF Formed
      <4> QED BY <4>2, <4>3, <4>4
    <3>2. CASE k = m + 1
      <4>1. q = o
        BY <1>1, <1>2, <2>2, <3>2
      <4> QED BY <1>2, <4>1, VerifiedWired
    <3> QED BY <3>1, <3>2
  <2>4. q.op = "barrettmul" => q.op \in Binary
    BY DEF Binary
  <2> QED BY <1>3, <2>2, <2>3, <2>4
<1>5. Formed'
  BY <1>1, <1>2, <1>4 DEF Formed
<1> QED BY <1>1, <1>5

-----------------------------------------------------------------------------
\* The inductive invariant, phase by phase.

\* Nothing has run.
Idle == val = <<>> /\ ref = <<>> /\ flags = {}

\* The front end appends operations.
Building == /\ phase = "build" /\ Idle
            /\ cursor = 1 /\ DOMAIN bound = {} /\ pending = {}

\* Phase 1 has bounded the operations before the cursor.
Walking == /\ phase = "bounds" /\ Idle
           /\ LazyOption /\ pending = {}
           /\ cursor \in 1 .. Len(ops) + 1 /\ MapOK(bound, cursor - 1)

\* Phase 2: every bound that is not pending is of use to its consumers.
Clamping == /\ phase = "clamp" /\ Idle
            /\ cursor \in 1 .. Len(ops) + 1 /\ MapOK(bound, Len(ops))
            /\ pending \subseteq DOMAIN bound /\ Settled(bound, pending)
            /\ ~LazyOption => DOMAIN bound = {}

\* The values before the cursor stand for their residues.
Running == /\ phase = "run" /\ pending = {} /\ Compiled
           /\ cursor \in 1 .. Len(ops) + 1
           /\ val \in Seq(Lowered) /\ Len(val) = NArgs + cursor - 1
           /\ ref \in Seq(0 .. P - 1) /\ Len(ref) = NArgs + cursor - 1
           /\ \A x \in 1 .. NArgs + cursor - 1 : Stands(val[x], ref[x], x)
           /\ Constants(cursor - 1)
           /\ flags \subseteq {"nsw"}

\* The inductive invariant.
IInv == /\ Program /\ Formed
        /\ Building \/ Walking \/ Clamping \/ Running

(* Only the arguments have no definition, so before the first operation is   *)
(* visited the map is empty.                                                 *)
LEMMA InitIInv == Init => IInv
<1>1. SUFFICES ASSUME Init PROVE IInv
  OBVIOUS
<1>2. unit \in Units /\ ops = <<>> /\ Len(ops) = 0
  BY <1>1 DEF Init
<1>3. MaxOps \in Nat
  <2>1. Menus[unit.menu] \in Seq(SUBSET Operations(unit))
    BY <1>2, UnitFacts
  <2> QED BY <2>1 DEF MaxOps
<1>4. Program
  <2>1. ops \in Seq(Operations(unit)) /\ Len(ops) <= MaxOps
    BY <1>2, <1>3
  <2>2. WiredOps(NArgs, ops)
    BY <1>2 DEF WiredOps
  <2> QED BY <1>2, <2>1, <2>2 DEF Program
<1>5. Formed
  BY <1>2 DEF Formed
<1>6. Building
  <2>1. DOMAIN bound = {}
    BY <1>1 DEF Init, Empty
  <2> QED BY <1>1, <2>1 DEF Init, Building, Idle
<1> QED BY <1>4, <1>5, <1>6 DEF IInv

(* The front end appends an operation. *)
LEMMA EmitKeeps ==
  ASSUME IInv, NEW k \in 1 .. MaxOps, k = Len(ops) + 1, NEW o \in Menus[unit.menu][k], Emit(o)
  PROVE  IInv'
<1>1. /\ phase = "build" /\ Len(ops) < MaxOps /\ Verified(o) /\ ops' = Append(ops, o)
      /\ unit' = unit /\ phase' = phase /\ cursor' = cursor /\ bound' = bound /\ pending' = pending
      /\ val' = val /\ ref' = ref /\ flags' = flags
  BY DEF Emit
<1>2. o \in Operations(unit)
  <2>1. Menus[unit.menu] \in Seq(SUBSET Operations(unit))
    BY UnitFacts DEF IInv, Program
  <2>2. k \in 1 .. Len(Menus[unit.menu])
    BY DEF MaxOps
  <2>3. PICK m : m = Menus[unit.menu]
    OBVIOUS
  <2>4. m[k] \in SUBSET Operations(unit)
    BY <2>1, <2>2, <2>3
  <2> QED BY <2>3, <2>4
<1>3. Program /\ Formed /\ Building
  BY <1>1 DEF IInv, Walking, Clamping, Running
<1>4. Program' /\ Formed'
  BY <1>1, <1>2, <1>3, EmitFormed
<1>5. Building'
  BY <1>1, <1>3 DEF Building, Idle
<1> QED BY <1>4, <1>5 DEF IInv

(* Without bounds nothing the pass computes with can wrap. *)
LEMMA EmptyNoWrap ==
  ASSUME unit \in Units, NEW b, DOMAIN b = {}, NEW o
  PROVE  NoWrap(b, o)
<1>1. PICK p \in Nat, d \in Nat, W \in Nat : p = P /\ d = Double /\ p >= 3 /\ W = WordSize /\ p < W /\ 4 * W <= d
  BY UnitFacts, WordFacts
<1>2. \A x : UmaxIn(b, x) = P - 1 /\ KpIn(b, x) = 1
  BY KpCanonical DEF UmaxIn, KpIn
<1> QED BY <1>1, <1>2 DEF NoWrap

(* The pass starts, with an empty map. *)
LEMMA StartPassKeeps ==
  ASSUME IInv, StartPass
  PROVE  IInv'
<1>1. /\ phase = "build" /\ phase' = IF LazyOption THEN "bounds" ELSE "clamp"
      /\ unit' = unit /\ ops' = ops /\ cursor' = cursor /\ bound' = bound /\ pending' = pending
      /\ val' = val /\ ref' = ref /\ flags' = flags
  BY DEF StartPass
<1>2. Program /\ Formed /\ Building
  BY <1>1 DEF IInv, Walking, Clamping, Running
<1>3. SameProgram /\ Program' /\ Formed'
  BY <1>1, <1>2, StaticProgram DEF SameProgram
<1>4. PICK b : b = bound' /\ b = bound /\ DOMAIN b = {}
  BY <1>1, <1>2 DEF Building
<1>5. cursor' = 1 /\ pending' = {} /\ Idle'
  BY <1>1, <1>2 DEF Building, Idle
<1>6. 1 \in 1 .. Len(ops) + 1
  BY <1>2, ProgramFacts
<1>7. CASE LazyOption
  <2>1. MapOK(b, 0)
    BY <1>4 DEF MapOK
  <2>2. MapOK(bound, 0)'
    BY <1>3, <1>4, <2>1, StaticMaps
  <2>3. MapOK(bound, cursor - 1)'
    <3>1. cursor' - 1 = 0
      BY <1>5
    <3> QED BY <2>2, <3>1, Zenon
  <2>4. Walking'
    BY <1>1, <1>3, <1>5, <1>6, <1>7, <2>3, StaticNumbers DEF Walking
  <2> QED BY <1>3, <2>4 DEF IInv
<1>8. CASE ~LazyOption
  <2>1. PICK n : n = Len(ops) /\ n = Len(ops')
    BY <1>1
  <2>2. MapOK(b, n)
    <3>1. \A k \in 1 .. n : NoWrap(b, ops[k])
      BY <1>2, <1>4, EmptyNoWrap DEF Program
    <3> QED BY <1>4, <3>1 DEF MapOK
  <2>3. MapOK(bound, n)'
    BY <1>3, <1>4, <2>2, StaticMaps
  <2>4. MapOK(bound, Len(ops))'
    BY <2>1, <2>3, Zenon
  <2>5. Settled(b, {})
    BY <1>4 DEF Settled
  <2>6. Settled(bound, {})'
    BY <1>3, <1>4, <2>5, StaticMaps
  <2>7. Settled(bound, pending)'
    BY <1>5, <2>6, Zenon
  <2>8. phase' = "clamp" /\ DOMAIN bound' = {} /\ pending' \subseteq DOMAIN bound'
    BY <1>1, <1>4, <1>5, <1>8
  <2>9. cursor' \in 1 .. Len(ops') + 1
    BY <1>1, <1>5, <1>6
  <2>10. Clamping'
    BY <1>5, <2>4, <2>7, <2>8, <2>9 DEF Clamping
  <2> QED BY <1>3, <2>10 DEF IInv
<1> QED BY <1>7, <1>8

(* Phase 1 visits an operation. *)
LEMMA BoundOpKeeps ==
  ASSUME IInv, Fits, BoundOp
  PROVE  IInv'
<1>1. PICK v, u :
        /\ v = NArgs + cursor /\ u = ForwardUmax(Def(v), v, RangeMax)
        /\ phase = "bounds" /\ cursor <= Len(ops)
        /\ bound' = IF u # P - 1 THEN With(bound, v, u) ELSE bound
        /\ cursor' = cursor + 1 /\ unit' = unit /\ phase' = phase /\ ops' = ops /\ pending' = pending
        /\ val' = val /\ ref' = ref /\ flags' = flags
  <2>1. PICK v, u : v = NArgs + cursor /\ u = ForwardUmax(Def(v), v, RangeMax)
    OBVIOUS
  <2>2. bound' = IF u # P - 1 THEN With(bound, v, u) ELSE bound
    BY <2>1, Zenon DEF BoundOp, With
  <2> QED BY <2>1, <2>2, Zenon DEF BoundOp
<1>2. Program /\ Formed /\ Walking
  BY <1>1 DEF IInv, Building, Clamping, Running
<1>3. SameProgram /\ Program' /\ Formed'
  BY <1>1, <1>2, StaticProgram DEF SameProgram
<1>4. PICK k \in 1 .. Len(ops) : k = cursor
  BY <1>1, <1>2, ProgramFacts DEF Walking
<1>5. BoundFits(ops[k])
  BY <1>1, <1>4 DEF Fits
<1>6. PICK c : c = bound' /\ c = IF u # P - 1 THEN With(bound, v, u) ELSE bound
  BY <1>1
<1>7. MapOK(c, k)
  <2>1. MapOK(bound, k - 1)
    BY <1>2, <1>4 DEF Walking
  <2>2. v = NArgs + k
    BY <1>1, <1>4
  <2> QED BY <1>1, <1>2, <1>5, <1>6, <2>1, <2>2, WalkStep
<1>8. MapOK(bound, k)'
  BY <1>3, <1>6, <1>7, StaticMaps
<1>9. MapOK(bound, cursor - 1)'
  <2>1. cursor' - 1 = k
    BY <1>1, <1>4, ProgramFacts
  <2> QED BY <1>8, <2>1, Zenon
<1>10. cursor' \in 1 .. Len(ops') + 1
  BY <1>1, <1>2, <1>4, ProgramFacts
<1>11. Idle' /\ LazyOption' /\ pending' = {} /\ phase' = "bounds"
  BY <1>1, <1>2, <1>3, StaticNumbers DEF Walking, Idle
<1>12. Walking'
  BY <1>9, <1>10, <1>11 DEF Walking
<1> QED BY <1>3, <1>12 DEF IInv

(* Phase 2 collects its candidates. *)
LEMMA CollectKeeps ==
  ASSUME IInv, CollectCandidates
  PROVE  IInv'
<1>1. /\ phase = "bounds" /\ cursor > Len(ops) /\ phase' = "clamp" /\ pending' = DOMAIN bound
      /\ unit' = unit /\ ops' = ops /\ cursor' = cursor /\ bound' = bound
      /\ val' = val /\ ref' = ref /\ flags' = flags
  BY DEF CollectCandidates
<1>2. Program /\ Formed /\ Walking
  BY <1>1 DEF IInv, Building, Clamping, Running
<1>3. SameProgram /\ Program' /\ Formed'
  BY <1>1, <1>2, StaticProgram DEF SameProgram
<1>4. PICK b, S : b = bound' /\ b = bound /\ S = DOMAIN b /\ S = pending'
  BY <1>1
<1>5. PICK n \in Nat : n = Len(ops) /\ n = Len(ops') /\ cursor = n + 1
  <2>1. PICK n \in Nat : n = Len(ops)
    BY <1>2, ProgramFacts
  <2>2. cursor \in 1 .. n + 1 /\ cursor > n
    BY <1>1, <1>2, <2>1 DEF Walking
  <2> QED BY <1>1, <2>1, <2>2, SMTT(30)
<1>6. MapOK(bound, n)'
  <2>1. MapOK(b, n)
    <3>1. cursor - 1 = n
      BY <1>5
    <3> QED BY <1>2, <1>4, <3>1 DEF Walking
  <2> QED BY <1>3, <1>4, <2>1, StaticMaps
<1>7. MapOK(bound, Len(ops))'
  BY <1>5, <1>6, Zenon
<1>8. Settled(bound, S)'
  <2>1. Settled(b, S)
    BY <1>4 DEF Settled
  <2> QED BY <1>3, <1>4, <2>1, StaticMaps
<1>9. Settled(bound, pending)'
  BY <1>4, <1>8, Zenon
<1>10. Idle' /\ LazyOption' /\ cursor' \in 1 .. Len(ops') + 1 /\ pending' \subseteq DOMAIN bound'
  BY <1>1, <1>2, <1>3, <1>4, <1>5, StaticNumbers DEF Walking, Idle
<1>11. Clamping'
  BY <1>1, <1>7, <1>9, <1>10 DEF Clamping
<1> QED BY <1>3, <1>11 DEF IInv

(* Phase 2 decides one candidate. *)
LEMMA ClampKeeps ==
  ASSUME IInv, Clamp
  PROVE  IInv'
<1>1. PICK v :
        /\ v = NextCandidate /\ phase = "clamp" /\ pending # {}
        /\ bound' = IF Erase(v) THEN Without(bound, v) ELSE bound
        /\ pending' = pending \ {v}
        /\ unit' = unit /\ phase' = phase /\ ops' = ops /\ cursor' = cursor
        /\ val' = val /\ ref' = ref /\ flags' = flags
  BY DEF Clamp, Without
<1>2. Program /\ Formed /\ Clamping
  BY <1>1 DEF IInv, Building, Walking, Running
<1>3. SameProgram /\ Program' /\ Formed'
  BY <1>1, <1>2, StaticProgram DEF SameProgram
<1>4. PICK c, S, R : /\ c = bound' /\ c = IF Erase(v) THEN Without(bound, v) ELSE bound
                     /\ S = pending /\ R = pending' /\ R = S \ {v}
  BY <1>1
<1>5. v \in pending /\ v \in DOMAIN bound
  <2>1. pending \subseteq Nat
    <3>1. DOMAIN bound \subseteq NArgs + 1 .. NArgs + Len(ops) /\ pending \subseteq DOMAIN bound
      BY <1>2 DEF Clamping, MapOK
    <3>2. NArgs \in Nat /\ Len(ops) \in Nat
      BY <1>2, ProgramFacts
    <3> QED BY <3>1, <3>2
  <2>2. NextCandidate \in pending
    BY <1>1, <1>2, <2>1, CandidateExists
  <2> QED BY <1>1, <1>2, <2>2 DEF Clamping
<1>6. /\ MapOK(c, Len(ops)) /\ Settled(c, R) /\ DOMAIN c \subseteq DOMAIN bound
      /\ (DOMAIN bound \ {v}) \subseteq DOMAIN c
  <2>1. MapOK(bound, Len(ops)) /\ Settled(bound, S)
    BY <1>2, <1>4 DEF Clamping
  <2>2. MapOK(c, Len(ops)) /\ Settled(c, S \ {v}) /\ DOMAIN c \subseteq DOMAIN bound
        /\ (DOMAIN bound \ {v}) \subseteq DOMAIN c
    BY <1>2, <1>4, <1>5, <2>1, ClampStep
  <2> QED BY <1>4, <2>2
<1>7. PICK n : n = Len(ops) /\ n = Len(ops') /\ MapOK(c, n)
  BY <1>1, <1>6
<1>8. MapOK(bound, Len(ops))'
  <2>1. MapOK(bound, n)'
    BY <1>3, <1>4, <1>7, StaticMaps
  <2> QED BY <1>7, <2>1, Zenon
<1>9. Settled(bound, pending)'
  <2>1. Settled(bound, R)'
    BY <1>3, <1>4, <1>6, StaticMaps
  <2> QED BY <1>4, <2>1, Zenon
<1>10. /\ Idle' /\ cursor' \in 1 .. Len(ops') + 1 /\ pending' \subseteq DOMAIN bound'
       /\ ~LazyOption' => DOMAIN bound' = {}
  <2>1. pending' \subseteq DOMAIN bound'
    BY <1>1, <1>2, <1>4, <1>6 DEF Clamping
  <2>2. ~LazyOption' => DOMAIN bound' = {}
    BY <1>2, <1>3, <1>4, <1>6, StaticNumbers DEF Clamping
  <2>3. Idle' /\ cursor' \in 1 .. Len(ops') + 1
    BY <1>1, <1>2 DEF Clamping, Idle
  <2> QED BY <2>1, <2>2, <2>3
<1>11. phase' = "clamp"
  BY <1>1
<1>12. Clamping'
  BY <1>8, <1>9, <1>10, <1>11 DEF Clamping
<1> QED BY <1>3, <1>12 DEF IInv

(* The lowered function is called on canonical arguments. *)
LEMMA CallKeeps ==
  ASSUME IInv, Fits, NEW args \in [1 .. NArgs -> 0 .. P - 1], Call(args)
  PROVE  IInv'
<1>1. /\ phase = "clamp" /\ pending = {} /\ phase' = "run" /\ cursor' = 1
      /\ val' = [k \in 1 .. NArgs |-> Plain(args[k])] /\ ref' = args
      /\ unit' = unit /\ ops' = ops /\ bound' = bound /\ pending' = pending /\ flags' = flags
  BY DEF Call
<1>2. Program /\ Formed /\ Clamping
  BY <1>1 DEF IInv, Building, Walking, Running
<1>3. SameProgram /\ Program' /\ Formed'
  BY <1>1, <1>2, StaticProgram DEF SameProgram
<1>4. unit \in Units
  BY <1>2 DEF Program
<1>5. Compiled
  <2>1. LazyOption => \A k \in 1 .. Len(ops) : RangeFits(ops[k])
    BY <1>1 DEF Fits
  <2>2. Settled(bound, {})
    BY <1>1, <1>2 DEF Clamping
  <2> QED BY <1>2, <2>1, <2>2 DEF Compiled, Clamping
<1>6. Compiled'
  BY <1>1, <1>3, <1>5, StaticCompiled
<1>7. PICK n \in Nat, p \in Nat : n = NArgs /\ p = P /\ p >= 3 /\ n = NArgs' /\ p = P'
  BY <1>1, <1>3, <1>4, StaticNumbers, UnitFacts
<1>8. PICK vs, rs : vs = val' /\ rs = ref' /\ rs = args /\ vs = [k \in 1 .. n |-> Plain(rs[k])]
  BY <1>1, <1>3, <1>4, <1>7
<1>9. \A x \in 1 .. n : Canonical(vs[x], rs[x]) /\ rs[x] \in 0 .. p - 1
  <2>1. SUFFICES ASSUME NEW x \in 1 .. n PROVE Canonical(vs[x], rs[x]) /\ rs[x] \in 0 .. p - 1
    OBVIOUS
  <2>2. PICK r \in 0 .. P - 1 : r = rs[x]
    BY <1>7, <1>8
  <2>3. Canonical(Plain(r), r)
    BY <1>4, CanonicalWord
  <2>4. vs[x] = Plain(rs[x])
    BY <1>7, <1>8
  <2> QED BY <1>7, <1>8, <2>2, <2>3, <2>4
<1>10. \A x \in 1 .. n : Stands(vs[x], rs[x], x)
  <2>1. SUFFICES ASSUME NEW x \in 1 .. n PROVE Stands(vs[x], rs[x], x)
    OBVIOUS
  <2>2. PICK r \in 0 .. p - 1 : r = rs[x] /\ vs[x].word = r
    BY <1>7, <1>8, <1>9 DEF Canonical
  <2>3. x \notin DOMAIN bound
    BY <1>2, <1>7, <1>8, ProgramFacts DEF Clamping, MapOK
  <2>4. RangeMax[x] = P - 1
    <3>1. x \in Values /\ ~IsOp(x)
      BY <1>2, <1>7, <1>8, ProgramFacts DEF Values, IsOp
    <3>2. RangeMax[x] = RangeStep(RangeMax, x)
      BY <1>2, <3>1, RangeUnfolds
    <3> QED BY <3>1, <3>2 DEF RangeStep
  <2>5. SameMod(vs[x].word, rs[x], P)
    BY <2>2, SameModEquivalence
  <2>6. vs[x].word <= UmaxIn(bound, x) /\ P - 1 <= RangeMax[x]
    <3>1. p = P /\ UmaxIn(bound, x) = P - 1
      BY <1>7, <1>8, <2>3 DEF UmaxIn
    <3>2. r <= p - 1 /\ p - 1 <= p - 1
      OBVIOUS
    <3> QED BY <2>2, <2>4, <3>1, <3>2
  <2> QED BY <1>7, <1>8, <1>9, <2>5, <2>6 DEF Stands, Canonical
<1>11. \A x \in 1 .. n : Stands(vs[x], rs[x], x)'
  BY <1>1, <1>3, <1>10, StaticStands
<1>12. vs \in Seq(Lowered) /\ rs \in Seq(0 .. p - 1) /\ Len(vs) = n /\ Len(rs) = n
  <2>1. vs \in [1 .. n -> Lowered]
    BY <1>7, <1>8, <1>9 DEF Canonical
  <2>2. rs \in [1 .. n -> 0 .. p - 1]
    BY <1>7, <1>8
  <2>3. DOMAIN vs = 1 .. n /\ DOMAIN rs = 1 .. n
    BY <2>1, <2>2
  <2>4. vs \in Seq(Lowered) /\ rs \in Seq(0 .. p - 1)
    BY <2>1, <2>2 
  <2> QED BY <2>3, <2>4
<1>13. Running'
  <2>1. phase' = "run" /\ pending' = {} /\ flags' \subseteq {"nsw"}
    BY <1>1, <1>2 DEF Clamping, Idle
  <2>2. cursor' \in 1 .. Len(ops') + 1 /\ NArgs' + cursor' - 1 = n
    <3>1. NArgs' = n /\ cursor' = 1
      BY <1>1, <1>7, <1>8
    <3>2. NArgs' + cursor' - 1 = n
      BY <3>1, SMTT(30)
    <3>3. PICK m \in Nat : m = Len(ops')
      BY <1>1, <1>2, ProgramFacts
    <3> QED BY <3>1, <3>2, <3>3
  <2>3. /\ val' \in Seq(Lowered') /\ Len(val') = NArgs' + cursor' - 1
        /\ ref' \in Seq(0 .. P' - 1) /\ Len(ref') = NArgs' + cursor' - 1
    BY <1>3, <1>7, <1>8, <1>12, <2>2, StaticNumbers
  <2>4. (\A x \in 1 .. NArgs + cursor - 1 : Stands(val[x], ref[x], x))'
    <3>1. SUFFICES ASSUME NEW x \in 1 .. n PROVE Stands(val[x], ref[x], x)'
      BY <2>2
    <3>2. Stands(vs[x], rs[x], x)'
      BY <1>11
    <3> QED BY <1>7, <1>8, <3>2 DEF Stands
  <2>5. Constants(cursor - 1)'
    <3>1. cursor' - 1 = 0
      BY <1>1
    <3>2. PICK m \in Nat : m = NArgs'
      BY <1>7, <1>8
    <3>3. m + 1 .. m + 0 = {}
      OBVIOUS
    <3>4. Constants(0)'
      BY <3>2, <3>3 DEF Constants
    <3> QED BY <3>1, <3>4, Zenon
  <2> QED BY <1>6, <2>1, <2>2, <2>3, <2>4, <2>5 DEF Running
<1> QED BY <1>3, <1>13 DEF IInv

(* The function runs the operations of one pattern. *)
LEMMA LowerOpKeeps ==
  ASSUME IInv, Fits, LowerOp
  PROVE  IInv'
<1>1. PICK v, k, res, m :
        /\ k = cursor /\ v = NArgs + k /\ res = Lower(Def(v), v) /\ m = Meaning(Def(v), v)
        /\ phase = "run" /\ cursor <= Len(ops)
        /\ val' = Append(val, res.v) /\ flags' = flags \cup res.broken /\ ref' = Append(ref, m)
        /\ cursor' = cursor + 1
        /\ unit' = unit /\ phase' = phase /\ ops' = ops /\ bound' = bound /\ pending' = pending
  BY Zenon DEF LowerOp
<1>2. Program /\ Formed /\ Running
  BY <1>1 DEF IInv, Building, Walking, Clamping
<1>3. SameProgram /\ Program' /\ Formed'
  BY <1>1, <1>2, StaticProgram DEF SameProgram
<1>4. Compiled /\ Compiled'
  BY <1>1, <1>2, <1>3, StaticCompiled DEF Running
<1>5. PICK n \in Nat, l \in Nat : n = NArgs /\ l = Len(ops) /\ k \in 1 .. l
  <2>1. NArgs \in Nat /\ Len(ops) \in Nat
    BY <1>2, ProgramFacts
  <2>2. PICK n \in Nat, l \in Nat : n = NArgs /\ l = Len(ops)
    BY <2>1
  <2>3. k \in 1 .. l + 1 /\ k <= l
    BY <1>1, <1>2, <2>2 DEF Running
  <2>4. k \in 1 .. l
    BY ONLY <2>2, <2>3
  <2> QED BY <2>2, <2>4
<1>6. PICK t \in Nat : t = n + k - 1 /\ t = NArgs + cursor - 1 /\ v = t + 1
  BY <1>1, <1>5
<1>7. Reached(k)
  BY <1>1, <1>2, <1>4, <1>5 DEF Running, Reached
<1>8. Right(k)
  <2>1. Constants(k - 1)
    BY <1>1, <1>2 DEF Running
  <2>2. LoweringFits(ops[k], NArgs + k)
    BY <1>1 DEF Fits
  <2> QED BY <1>2, <1>7, <2>1, <2>2, OperationRight
<1>9. Def(v) = ops[k]
  BY <1>1, <1>7, ReachedFacts
<1>10. Stands(res.v, m, v) /\ res.broken \subseteq {"nsw"}
  BY <1>1, <1>8, <1>9 DEF Right
<1>11. PICK p \in Nat : p = P
  BY <1>4, CompiledFacts, UnitFacts
<1>12. PICK vs, rs :
         /\ vs = val' /\ rs = ref'
         /\ vs = Append(val, res.v) /\ rs = Append(ref, m)
         /\ val \in Seq(Lowered) /\ Len(val) = t /\ ref \in Seq(0 .. p - 1) /\ Len(ref) = t
  BY <1>1, <1>2, <1>6, <1>11 DEF Running
<1>13. /\ vs \in Seq(Lowered) /\ Len(vs) = t + 1 /\ vs[t + 1] = res.v
       /\ \A x \in 1 .. t : vs[x] = val[x]
  <2>1. res.v \in Lowered
    BY <1>10 DEF Stands
  <2> QED BY <1>12, <2>1
<1>14. /\ rs \in Seq(0 .. p - 1) /\ Len(rs) = t + 1 /\ rs[t + 1] = m
       /\ \A x \in 1 .. t : rs[x] = ref[x]
  <2>1. m \in 0 .. p - 1
    BY <1>10, <1>11 DEF Stands
  <2> QED BY <1>12, <2>1
<1>15. \A x \in 1 .. t + 1 : Stands(vs[x], rs[x], x)
  <2>1. SUFFICES ASSUME NEW x \in 1 .. t + 1 PROVE Stands(vs[x], rs[x], x)
    OBVIOUS
  <2>2. CASE x \in 1 .. t
    <3>1. Stands(val[x], ref[x], x)
      BY <1>2, <1>6, <2>2 DEF Running
    <3> QED BY <1>13, <1>14, <2>2, <3>1
  <2>3. CASE x = t + 1
    BY <1>6, <1>10, <1>13, <1>14, <2>3
  <2>4. x \in 1 .. t \/ x = t + 1
    OBVIOUS
  <2> QED BY <2>2, <2>3, <2>4
<1>16. \A x \in 1 .. t + 1 : Stands(vs[x], rs[x], x)'
  BY <1>1, <1>3, <1>15, StaticStands
<1>17. NArgs' = n /\ cursor' - 1 = k /\ NArgs' + cursor' - 1 = t + 1 /\ cursor' \in 1 .. Len(ops') + 1
  <2>1. NArgs' = n
    BY <1>3, <1>5, StaticNumbers
  <2> QED BY <1>1, <1>5, <1>6, <2>1
<1>18. Constants(cursor - 1)'
  <2>1. Constants(k)'
    <3>1. \A x \in n + 1 .. n + k : Def(x).op = "const" => rs[x] = Def(x).l
      <4>1. SUFFICES ASSUME NEW x \in n + 1 .. n + k, Def(x).op = "const" PROVE rs[x] = Def(x).l
        OBVIOUS
      <4>2. CASE x \in n + 1 .. n + (k - 1)
        <5>1. Constants(k - 1)
          BY <1>1, <1>2 DEF Running
        <5>2. ref[x] = Def(x).l
          BY <1>5, <4>1, <4>2, <5>1 DEF Constants
        <5>3. x \in 1 .. t
          BY <1>5, <1>6, <4>2
        <5> QED BY <1>14, <5>2, <5>3
      <4>3. CASE x = n + k
        <5>1. x = v /\ x = t + 1
          BY <1>1, <1>5, <1>6, <4>3
        <5>2. m = Def(v).l
          <6>1. PICK d : d = Def(v) /\ d.op = "const"
            BY <4>1, <5>1
          <6>2. Meaning(d, v) = d.l
            BY <6>1, Meanings
          <6> QED BY <1>1, <6>1, <6>2
        <5> QED BY <1>14, <5>1, <5>2
      <4>4. x \in n + 1 .. n + (k - 1) \/ x = n + k
        BY <1>5
      <4> QED BY <4>2, <4>3, <4>4
    <3>2. \A x : Def(x)' = Def(x)
      BY <1>3, StaticOperators
    <3>3. \A x \in NArgs' + 1 .. NArgs' + k : Def(x)'.op = "const" => ref'[x] = Def(x)'.l
      BY <1>12, <1>17, <3>1, <3>2
    <3> QED BY <3>3, Zenon DEF Constants
  <2> QED BY <1>17, <2>1, Zenon
<1>19. Running'
  <2>1. phase' = "run" /\ pending' = {} /\ flags' \subseteq {"nsw"}
    BY <1>1, <1>2, <1>10 DEF Running
  <2>2. /\ val' \in Seq(Lowered') /\ Len(val') = NArgs' + cursor' - 1
        /\ ref' \in Seq(0 .. P' - 1) /\ Len(ref') = NArgs' + cursor' - 1
    BY <1>3, <1>12, <1>13, <1>14, <1>17, <1>11, StaticNumbers
  <2>3. (\A x \in 1 .. NArgs + cursor - 1 : Stands(val[x], ref[x], x))'
    <3>1. SUFFICES ASSUME NEW x \in 1 .. t + 1 PROVE Stands(val[x], ref[x], x)'
      BY <1>17
    <3>2. Stands(vs[x], rs[x], x)'
      BY <1>16
    <3> QED BY <1>12, <3>2 DEF Stands
  <2> QED BY <1>4, <1>17, <1>18, <2>1, <2>2, <2>3 DEF Running
<1> QED BY <1>3, <1>19 DEF IInv

(* A step that changes nothing. *)
LEMMA StutterKeeps ==
  ASSUME IInv, UNCHANGED vars
  PROVE  IInv'
<1>1. /\ unit' = unit /\ phase' = phase /\ ops' = ops /\ cursor' = cursor /\ bound' = bound
      /\ pending' = pending /\ val' = val /\ ref' = ref /\ flags' = flags
  BY Zenon DEF vars
<1>2. Program /\ Formed
  BY DEF IInv
<1>3. SameProgram /\ Program' /\ Formed'
  BY <1>1, <1>2, StaticProgram DEF SameProgram
<1>4. PICK b, n, S, c, t : /\ b = bound' /\ b = bound /\ n = Len(ops) /\ n = Len(ops')
                           /\ S = pending /\ S = pending' /\ c = cursor - 1 /\ c = cursor' - 1
                           /\ t = NArgs + cursor - 1 /\ t = NArgs' + cursor' - 1
  BY <1>1, <1>3, StaticNumbers
<1>5. CASE Building
  <2>1. Building'
    BY <1>1, <1>5 DEF Building, Idle
  <2> QED BY <1>3, <2>1 DEF IInv
<1>6. CASE Walking
  <2>1. MapOK(bound, cursor - 1)'
    <3>1. MapOK(b, c)
      BY <1>4, <1>6 DEF Walking
    <3>2. MapOK(bound, c)'
      BY <1>3, <1>4, <3>1, StaticMaps
    <3> QED BY <1>4, <3>2, Zenon
  <2>2. Walking'
    BY <1>1, <1>3, <1>6, <2>1, StaticNumbers DEF Walking, Idle
  <2> QED BY <1>3, <2>2 DEF IInv
<1>7. CASE Clamping
  <2>1. MapOK(bound, Len(ops))'
    <3>1. MapOK(b, n)
      BY <1>4, <1>7 DEF Clamping
    <3>2. MapOK(bound, n)'
      BY <1>3, <1>4, <3>1, StaticMaps
    <3> QED BY <1>4, <3>2, Zenon
  <2>2. Settled(bound, pending)'
    <3>1. Settled(b, S)
      BY <1>4, <1>7 DEF Clamping
    <3>2. Settled(bound, S)'
      BY <1>3, <1>4, <3>1, StaticMaps
    <3> QED BY <1>4, <3>2, Zenon
  <2>3. Clamping'
    BY <1>1, <1>3, <1>7, <2>1, <2>2, StaticNumbers DEF Clamping, Idle
  <2> QED BY <1>3, <2>3 DEF IInv
<1>8. CASE Running
  <2>1. Compiled'
    BY <1>1, <1>3, <1>8, StaticCompiled DEF Running
  <2>2. (\A x \in 1 .. NArgs + cursor - 1 : Stands(val[x], ref[x], x))'
    <3>1. SUFFICES ASSUME NEW x \in 1 .. t PROVE Stands(val[x], ref[x], x)'
      BY <1>4
    <3>2. PICK y, r : y = val[x] /\ r = ref[x] /\ Stands(y, r, x)
      BY <1>4, <1>8 DEF Running
    <3>3. Stands(y, r, x)'
      BY <1>1, <1>3, <3>2, StaticStands
    <3> QED BY <1>1, <3>2, <3>3 DEF Stands
  <2>3. Constants(cursor - 1)'
    <3>1. \A x : Def(x)' = Def(x)
      BY <1>3, StaticOperators
    <3> QED BY <1>1, <1>3, <1>8, <3>1, StaticNumbers, Zenon DEF Running, Constants
  <2>4. Running'
    BY <1>1, <1>3, <1>8, <2>1, <2>2, <2>3, StaticNumbers DEF Running
  <2> QED BY <1>3, <2>4 DEF IInv
<1> QED BY <1>5, <1>6, <1>7, <1>8 DEF IInv

(* No step of a program within the limits leaves the invariant. *)
LEMMA StepKeeps == IInv /\ Fits /\ [Next]_vars => IInv'
<1>1. SUFFICES ASSUME IInv, Fits, [Next]_vars PROVE IInv'
  OBVIOUS
<1>2. CASE \E k \in 1 .. MaxOps : k = Len(ops) + 1 /\ \E o \in Menus[unit.menu][k] : Emit(o)
  <2>1. PICK k \in 1 .. MaxOps : k = Len(ops) + 1 /\ \E o \in Menus[unit.menu][k] : Emit(o)
    BY <1>2
  <2>2. PICK o \in Menus[unit.menu][k] : Emit(o)
    BY <2>1
  <2> QED BY <1>1, <2>1, <2>2, EmitKeeps
<1>3. CASE StartPass
  BY <1>1, <1>3, StartPassKeeps
<1>4. CASE BoundOp
  BY <1>1, <1>4, BoundOpKeeps
<1>5. CASE CollectCandidates
  BY <1>1, <1>5, CollectKeeps
<1>6. CASE Clamp
  BY <1>1, <1>6, ClampKeeps
<1>7. CASE \E args \in [1 .. NArgs -> 0 .. P - 1] : Call(args)
  <2>1. PICK args \in [1 .. NArgs -> 0 .. P - 1] : Call(args)
    BY <1>7
  <2> QED BY <1>1, <2>1, CallKeeps
<1>8. CASE LowerOp
  BY <1>1, <1>8, LowerOpKeeps
<1>9. CASE UNCHANGED vars
  BY <1>1, <1>9, StutterKeeps
<1>10. CASE Terminated
  BY <1>9, <1>10, Zenon DEF Terminated
<1> QED BY <1>1, <1>2, <1>3, <1>4, <1>5, <1>6, <1>7, <1>8, <1>9, <1>10, Zenon DEF Next

(* While the pass computes within its limits, the inductive invariant holds. *)
THEOREM Invariance == Spec /\ []Fits => []IInv
BY InitIInv, StepKeeps, PTL DEF Spec

-----------------------------------------------------------------------------
\* What the invariant says.

(* Phase by phase, what is in the map and where the cursor is. *)
LEMMA MapTyped ==
  ASSUME IInv
  PROVE  /\ DOMAIN bound \subseteq Values
         /\ \A x \in DOMAIN bound : bound[x] \in 0 .. Double - 1
         /\ pending \subseteq DOMAIN bound
         /\ cursor \in 1 .. Len(ops) + 1
<1>1. PICK n \in Nat, l \in Nat, d \in Nat : n = NArgs /\ l = Len(ops) /\ d = Double
  <2>1. unit \in Units
    BY DEF IInv, Program
  <2> QED BY <2>1, ProgramFacts, WordFacts DEF IInv
<1>2. PICK m \in 0 .. l : DOMAIN bound = {} \/ MapOK(bound, m)
  <2>1. CASE DOMAIN bound = {}
    <3>1. 0 \in 0 .. l
      OBVIOUS
    <3> QED BY <2>1, <3>1
  <2>2. CASE Walking
    <3>1. cursor \in 1 .. l + 1 /\ MapOK(bound, cursor - 1)
      BY <1>1, <2>2 DEF Walking
    <3>2. cursor - 1 \in 0 .. l
      BY <3>1
    <3> QED BY <3>1, <3>2
  <2>3. CASE MapOK(bound, l)
    <3>1. l \in 0 .. l
      OBVIOUS
    <3> QED BY <2>3, <3>1
  <2> QED BY <1>1, <2>1, <2>2, <2>3 DEF IInv, Building, Clamping, Running, Compiled
<1>3. DOMAIN bound \subseteq Values
  <2>1. DOMAIN bound \subseteq n + 1 .. n + m
    BY <1>1, <1>2 DEF MapOK
  <2>2. n + 1 .. n + m \subseteq 1 .. n + l
    OBVIOUS
  <2> QED BY <1>1, <2>1, <2>2 DEF Values
<1>4. \A x \in DOMAIN bound : bound[x] \in 0 .. Double - 1
  <2>1. \A x \in DOMAIN bound : bound[x] \in Nat /\ bound[x] + 1 < d
    BY <1>1, <1>2 DEF MapOK
  <2> QED BY <1>1, <2>1
<1>5. pending \subseteq DOMAIN bound
  BY DEF IInv, Building, Walking, Clamping, Running
<1>6. cursor \in 1 .. l + 1
  BY <1>1 DEF IInv, Building, Walking, Clamping, Running
<1> QED BY <1>1, <1>3, <1>4, <1>5, <1>6, SMTT(30)

(* Before the call there is no value; after it, every value stands for its   *)
(* residue.                                                                  *)
LEMMA ValuesStand ==
  ASSUME IInv
  PROVE  /\ flags \subseteq {"nsw"}
         /\ \A x \in DOMAIN val : Compiled /\ Stands(val[x], ref[x], x)
         /\ phase \in {"build", "bounds", "clamp", "run"}
         /\ phase = "run" => Running
<1>1. CASE Running
  <2>1. PICK t : t = NArgs + cursor - 1 /\ Len(val) = t /\ val \in Seq(Lowered)
    BY <1>1 DEF Running
  <2>2. DOMAIN val = 1 .. t
    BY <2>1
  <2> QED BY <1>1, <2>1, <2>2 DEF Running
<1>2. CASE Building \/ Walking \/ Clamping
  <2>1. val = <<>> /\ flags = {} /\ phase \in {"build", "bounds", "clamp"}
    BY <1>2 DEF Building, Walking, Clamping, Idle
  <2>2. DOMAIN val = {}
    BY <2>1
  <2> QED BY <2>1, <2>2
<1> QED BY <1>1, <1>2 DEF IInv

(* The type invariant and the soundness of the bounds. *)
LEMMA IInvBounded == IInv => Bounded
<1>1. SUFFICES ASSUME IInv PROVE Bounded
  OBVIOUS
<1>2. unit \in Units /\ Program
  BY <1>1 DEF IInv, Program
<1>3. TypeOK
  <2>1. Len(ops) <= MaxOps /\ cursor \in 1 .. MaxOps + 1
    <3>1. PICK l \in Nat, m \in Nat : l = Len(ops) /\ m = MaxOps /\ l <= m
      <4>1. Menus[unit.menu] \in Seq(SUBSET Operations(unit))
        BY <1>2, UnitFacts
      <4>2. MaxOps \in Nat
        BY <4>1 DEF MaxOps
      <4> QED BY <1>2, <4>2, ProgramFacts DEF Program
    <3>2. cursor \in 1 .. l + 1
      BY <1>1, <3>1, MapTyped
    <3> QED BY <3>1, <3>2, SMTT(30)
  <2>2. \A v \in DOMAIN val : val[v].word \in Word /\ ref[v] \in 0 .. P - 1
    <3>1. SUFFICES ASSUME NEW v \in DOMAIN val PROVE val[v].word \in Word /\ ref[v] \in 0 .. P - 1
      OBVIOUS
    <3>2. Stands(val[v], ref[v], v)
      BY <1>1, ValuesStand
    <3>3. val[v] \in Lowered /\ ref[v] \in 0 .. P - 1
      BY <3>2 DEF Stands
    <3> QED BY <3>3 DEF Lowered
  <2>3. flags \subseteq {"nuw", "nsw"} /\ phase \in {"build", "bounds", "clamp", "run"}
    BY <1>1, ValuesStand
  <2> QED BY <1>1, <1>2, <2>1, <2>2, <2>3, MapTyped DEF TypeOK
<1>4. BoundSound
  <2>1. SUFFICES ASSUME NEW v \in DOMAIN val PROVE val[v].word <= LookupUmax(v)
    BY DEF BoundSound
  <2>2. Compiled /\ Stands(val[v], ref[v], v)
    BY <1>1, ValuesStand
  <2>3. LookupUmax(v) = UmaxIn(bound, v)
    BY <2>2, CompiledFacts
  <2> QED BY <2>2, <2>3 DEF Stands
<1> QED BY <1>3, <1>4 DEF Bounded

(* A word that stands for a residue leaves it modulo p. *)
LEMMA IInvCongruent == IInv => Congruent
<1>1. SUFFICES ASSUME IInv, NEW v \in DOMAIN val PROVE val[v].word % P = ref[v]
  BY DEF Congruent
<1>2. PICK p \in Nat : p = P /\ p > 0
  <2>1. unit \in Units
    BY <1>1 DEF IInv, Program
  <2> QED BY <2>1, UnitFacts
<1>3. PICK r \in 0 .. p - 1 : r = ref[v] /\ val[v].word % p = r % p
  <2>1. Stands(val[v], ref[v], v)
    BY <1>1, ValuesStand
  <2>2. SameMod(val[v].word, ref[v], P) /\ ref[v] \in 0 .. P - 1
    BY <2>1 DEF Stands
  <2> QED BY <1>2, <2>2 DEF SameMod
<1>4. r % p = r
  BY <1>2, DivSmall
<1> QED BY <1>2, <1>3, <1>4

(* The bound of the returned value, which no consumer may keep, is p - 1. *)
LEMMA IInvReturnCanonical == IInv => ReturnCanonical
<1>1. SUFFICES ASSUME IInv, Finished PROVE val[Returned].word = ref[Returned]
  BY DEF ReturnCanonical
<1>2. Running /\ Compiled
  BY <1>1, ValuesStand DEF Finished, Running
<1>3. PICK n \in Nat, l \in Nat, x \in Nat :
        n = NArgs /\ l = Len(ops) /\ x = Returned /\ x = n + l /\ n >= 1 /\ unit \in Units
  BY <1>2, CompiledFacts DEF Returned
<1>4. Stands(val[x], ref[x], x)
  <2>1. cursor \in 1 .. l + 1 /\ cursor > l
    BY <1>1, <1>2, <1>3 DEF Running, Finished
  <2>2. x \in 1 .. n + cursor - 1
    BY <1>3, <2>1
  <2> QED BY <1>2, <1>3, <2>2 DEF Running
<1>5. KpIn(bound, x) = 1 /\ UmaxIn(bound, x) <= P - 1
  <2>1. \A y \in DOMAIN bound : bound[y] \in Nat /\ bound[y] + 1 < Double
    BY <1>2, CompiledFacts
  <2>2. ~ KpIn(bound, x) > 1
    <3>1. CASE x \in DOMAIN bound
      <4>1. KpIn(bound, x) > 1 => Benefits(bound, x)
        BY <1>2, <3>1 DEF Compiled, Settled
      <4> QED BY <1>3, <4>1 DEF Benefits
    <3>2. CASE x \notin DOMAIN bound
      <4>1. KpIn(bound, x) = 1
        BY <1>3, <3>2, KpCanonical DEF KpIn, UmaxIn
      <4> QED BY <4>1
    <3> QED BY <3>1, <3>2
  <2>3. PICK p \in Nat, u \in Nat, k \in Nat :
          p = P /\ u = UmaxIn(bound, x) /\ k = KpIn(bound, x) /\ k >= 1 /\ (k > 1 <=> u >= p)
    BY <1>3, <2>1, UmaxFacts, UnitFacts
  <2> QED BY <2>2, <2>3
<1> QED BY <1>2, <1>3, <1>4, <1>5, CanonicalOperand

(* Only signed promises are ever broken. *)
LEMMA IInvNoUnsignedWrap == IInv => NoUnsignedWrap
BY ValuesStand DEF NoUnsignedWrap

(* Erasing bounds never makes another one useless. *)
LEMMA IInvOnePassSuffices == IInv => OnePassSuffices
<1>1. SUFFICES ASSUME IInv, phase = "run", NEW v \in DOMAIN bound, LookupKp(v) > 1
      PROVE  AllBenefit(v)
  BY DEF OnePassSuffices
<1>2. Compiled
  BY <1>1, ValuesStand DEF Running
<1>3. Benefits(bound, v)
  <2>1. KpIn(bound, v) > 1
    BY <1>1, <1>2, CompiledFacts
  <2> QED BY <1>2, <2>1 DEF Compiled, Settled
<1>4. \A k \in Users(v) : Accepts(ops[k], v)
  BY <1>2, <1>3, AcceptsIs DEF Compiled, Benefits
<1> QED BY <1>3, <1>4 DEF AllBenefit, Benefits

(* The pass's map is well formed at every step, and no word exceeds the      *)
(* bound from which the Convert patterns decided what to reduce.             *)
THEOREM BoundsHold == Spec /\ []Fits => []Bounded
BY Invariance, IInvBounded, PTL

(* Whatever reductions were left out before it, a lowered value is congruent *)
(* to the residue it stands for.                                             *)
THEOREM LoweringCongruent == Spec /\ []Fits => []Congruent
BY Invariance, IInvCongruent, PTL

(* The function returns the canonical representative of its result.          *)
THEOREM ReturnsCanonical == Spec /\ []Fits => []ReturnCanonical
BY Invariance, IInvReturnCanonical, PTL

(* No emitted addition or shift breaks its promise not to wrap unsigned.     *)
THEOREM AdditionsNeverWrap == Spec /\ []Fits => []NoUnsignedWrap
BY Invariance, IInvNoUnsignedWrap, PTL

(* A second pass of phase 2 would erase nothing more.                        *)
THEOREM SecondPassIdle == Spec /\ []Fits => []OnePassSuffices
BY Invariance, IInvOnePassSuffices, PTL
=============================================================================
