------------------------------ MODULE Pippengers ------------------------------
(***************************************************************************)
(* The bucket algorithm that elliptic_curve.msm lowers to                  *)
(* (PippengersGeneric and its base class Pippengers).                      *)
(*                                                                         *)
(* The scalars are cut into windows of bitsPerWindow bits.  A window adds  *)
(* every point to the bucket of its digit, reduces the buckets to a window *)
(* sum, and the window sums are combined from the highest window down.     *)
(* With the attribute parallel the windows are the iterations of an        *)
(* scf.parallel, each on its own row of buckets; without it they run in    *)
(* turn and share one row, which each of them clears.                      *)
(*                                                                         *)
(* The points are formal: an element of the group is the vector of its     *)
(* coefficients over the operands.  What holds here holds in every         *)
(* commutative group.                                                      *)
(***************************************************************************)
EXTENDS Integers

CONSTANTS
  NumScalarMuls,  \* the number of scalars and of points
  ScalarBits,     \* the storage width of the scalar field
  Scalar,         \* the scalars that occur, in standard form
  Attributes,     \* of the operation: [parallel, windowBits, degree]
  None            \* the result is not there yet

ASSUME SizeAssumption == /\ NumScalarMuls \in Nat
                         /\ ScalarBits \in Nat \ {0}
ASSUME ScalarAssumption == Scalar \subseteq 0 .. 2^ScalarBits - 1
ASSUME AttributesAssumption ==
  Attributes \subseteq [parallel: BOOLEAN, windowBits: 0 .. ScalarBits, degree: Nat]
\* Laws of exponents, which the provers do not know.
ASSUME ExponentAssumption ==
  /\ 2^1 = 2 /\ \A n \in 0 .. 2 * ScalarBits : 2^n \in Nat \ {0}
  /\ \A m, n \in 0 .. ScalarBits : 2^(m + n) = 2^m * 2^n

VARIABLES
  scalars,     \* the operand, converted from Montgomery form
  parallel,    \* the attribute
  bitsPerWindow,
  phase,       \* "init", "windows", "combine" or "done"
  todo,        \* the buckets the first parallel loop has yet to clear
  pc,          \* what each window does
  i,           \* each window's loop counter
  loaded,      \* the sum a window is about to store to a bucket
  windowSum,   \* each window's loop-carried sums
  runningSum,
  buckets,     \* allBuckets
  windowSums,
  cursor,      \* the loop of windowReduction
  acc,
  result

vars == <<scalars, parallel, bitsPerWindow, phase, todo, pc, i, loaded, windowSum, runningSum, buckets,
          windowSums, cursor, acc, result>>

registers == <<loaded, windowSum, runningSum>>
operands == <<scalars, parallel, bitsPerWindow>>

-----------------------------------------------------------------------------
\* ceil(lambda / s) windows of n + 2^(s+1) - 1 additions each
PointAddCost(lambda, n, s) == ((lambda + s - 1) \div s) * (n + 2^(s + 1) - 1)

\* estimateOptimalWindowBits: the loop leaves at the first size whose
\* successor is not cheaper, which need not be the cheapest of all.
EstimateOptimalWindowBits(lambda, n) ==
  LET Stops(s) == s = lambda \/ PointAddCost(lambda, n, s + 1) >= PointAddCost(lambda, n, s)
  IN  CHOOSE s \in 1 .. lambda : Stops(s) /\ \A k \in 1 .. s - 1 : ~Stops(k)

\* Mutant of NumWindows: a last, shorter window is forgotten.
WholeWindows == ScalarBits \div bitsPerWindow

\* computeWindowsCount
NumWindows == (ScalarBits + bitsPerWindow - 1) \div bitsPerWindow

\* There is no bucket for the digit zero.
NumBuckets == 2^bitsPerWindow - 1

Term   == 1 .. NumScalarMuls
Window == 0 .. NumWindows - 1
Bucket == 0 .. NumBuckets - 1
Row    == IF parallel THEN Window ELSE {0}

-----------------------------------------------------------------------------
\* The group.
ZeroPoint == [t \in Term |-> 0]
PointOf(t) == [u \in Term |-> IF u = t THEN 1 ELSE 0]
Add(x, y) == [t \in Term |-> x[t] + y[t]]
Doubled(x, k) == [t \in Term |-> 2^k * x[t]]

\* Fresh memory holds anything; this stands for all that is not zero.
Stale == [t \in Term |-> 99]

-----------------------------------------------------------------------------
Init ==
  /\ scalars \in [Term -> Scalar]
  /\ \E op \in Attributes :
       /\ parallel = op.parallel
       /\ bitsPerWindow = IF op.windowBits > 0 THEN op.windowBits
                          ELSE EstimateOptimalWindowBits(ScalarBits, 2^op.degree)
  /\ phase = IF parallel THEN "init" ELSE "windows"
  /\ todo = IF parallel THEN Row \X Bucket ELSE {}
  /\ pc = [j \in Window |-> "idle"]
  /\ i = [j \in Window |-> 0]
  /\ loaded = [j \in Window |-> ZeroPoint]
  /\ windowSum = [j \in Window |-> ZeroPoint]
  /\ runningSum = [j \in Window |-> ZeroPoint]
  /\ buckets = [r \in Row |-> [k \in Bucket |-> Stale]]
  /\ windowSums = [j \in Window |-> ZeroPoint]
  /\ cursor = 1 /\ acc = ZeroPoint
  /\ result = None

\* The parallel loop that clears all the buckets, one iteration.
ClearBucket(r, k) ==
  /\ phase = "init" /\ <<r, k>> \in todo
  /\ buckets' = [buckets EXCEPT ![r][k] = ZeroPoint]
  /\ todo' = todo \ {<<r, k>>}
  /\ UNCHANGED <<operands, phase, pc, i, registers, windowSums, cursor, acc, result>>

\* ... and its end.
StartWindows ==
  /\ phase = "init" /\ todo = {}
  /\ phase' = "windows"
  /\ UNCHANGED <<operands, todo, pc, i, registers, buckets, windowSums, cursor, acc, result>>

\* Mutant of RowOf: the subview of the window's buckets has no offset.
RowZero(j) == 0

\* The subview of window j.
RowOf(j) == IF parallel THEN j ELSE 0

\* Mutant of Enter: the buckets are only cleared before the first window.
EnterClearOnce(j) ==
  /\ phase = "windows" /\ pc[j] = "idle"
  /\ parallel \/ \A k \in 0 .. j - 1 : pc[k] = "done"
  /\ buckets' = IF parallel \/ j > 0 THEN buckets
                ELSE [buckets EXCEPT ![0] = [k \in Bucket |-> ZeroPoint]]
  /\ pc' = [pc EXCEPT ![j] = "acc"]
  /\ UNCHANGED <<operands, phase, todo, i, registers, windowSums, cursor, acc, result>>

\* Window j begins: in turn and with cleared buckets, or at any time.
Enter(j) ==
  /\ phase = "windows" /\ pc[j] = "idle"
  /\ parallel \/ \A k \in 0 .. j - 1 : pc[k] = "done"
  /\ buckets' = IF parallel THEN buckets
                ELSE [buckets EXCEPT ![0] = [k \in Bucket |-> ZeroPoint]]
  /\ pc' = [pc EXCEPT ![j] = "acc"]
  /\ UNCHANGED <<operands, phase, todo, i, registers, windowSums, cursor, acc, result>>

WindowOffset(j) == bitsPerWindow * j

\* scalarDecomposition: shift right, truncate.
Digit(s, j) == (s \div 2^WindowOffset(j)) % 2^bitsPerWindow

\* Window j is at scalar number i[j] + 1.
Accumulating(j) == phase = "windows" /\ pc[j] = "acc" /\ i[j] < NumScalarMuls
TermOf(j) == i[j] + 1
NextTerm(j) == i' = [i EXCEPT ![j] = i[j] + 1]

\* bucketSingleAcc with nothing to add: the scalar is zero, or it is one and
\* this is not the first window, or its digit is zero.
Skip(j) ==
  /\ Accumulating(j)
  /\ LET s == scalars[TermOf(j)]
     IN  \/ s = 0
         \/ s = 1 /\ WindowOffset(j) # 0
         \/ s > 1 /\ Digit(s, j) = 0
  /\ NextTerm(j)
  /\ UNCHANGED <<operands, phase, todo, pc, registers, buckets, windowSums, cursor, acc, result>>

UnitHere(j) == WindowOffset(j) = 0

\* scalarIsOneBranch
AddUnit(j) ==
  /\ Accumulating(j)
  /\ scalars[TermOf(j)] = 1 /\ UnitHere(j)
  /\ windowSum' = [windowSum EXCEPT ![j] = Add(windowSum[j], PointOf(TermOf(j)))]
  /\ NextTerm(j)
  /\ UNCHANGED <<operands, phase, todo, pc, loaded, runningSum, buckets, windowSums,
                 cursor, acc, result>>

\* scalarIsNotOneBranch: load and add, then store.
LoadBucket(j) ==
  /\ Accumulating(j)
  /\ LET s == scalars[TermOf(j)]
     IN  /\ s > 1 /\ Digit(s, j) # 0
         /\ loaded' = [loaded EXCEPT ![j] =
              Add(buckets[RowOf(j)][Digit(s, j) - 1], PointOf(TermOf(j)))]
  /\ pc' = [pc EXCEPT ![j] = "store"]
  /\ UNCHANGED <<operands, phase, todo, i, windowSum, runningSum, buckets, windowSums,
                 cursor, acc, result>>

StoreBucket(j) ==
  /\ pc[j] = "store"
  /\ buckets' = [buckets EXCEPT ![RowOf(j)][Digit(scalars[TermOf(j)], j) - 1] = loaded[j]]
  /\ pc' = [pc EXCEPT ![j] = "acc"]
  /\ NextTerm(j)
  /\ UNCHANGED <<operands, phase, todo, registers, windowSums, cursor, acc, result>>

StartReduction(j) ==
  /\ phase = "windows" /\ pc[j] = "acc" /\ i[j] = NumScalarMuls
  /\ pc' = [pc EXCEPT ![j] = "reduce"]
  /\ i' = [i EXCEPT ![j] = 0]
  /\ UNCHANGED <<operands, phase, todo, registers, buckets, windowSums, cursor, acc, result>>

\* The n-th bucket that bucketReduction visits.
Descending(n) == NumBuckets - n - 1

\* bucketReduction, one iteration: the running sum joins the window sum once
\* for every bucket below it.
ReduceBucket(j) ==
  /\ pc[j] = "reduce" /\ i[j] < NumBuckets
  /\ LET rSum == Add(runningSum[j], buckets[RowOf(j)][Descending(i[j])])
     IN  /\ runningSum' = [runningSum EXCEPT ![j] = rSum]
         /\ windowSum' = [windowSum EXCEPT ![j] = Add(windowSum[j], rSum)]
  /\ i' = [i EXCEPT ![j] = i[j] + 1]
  /\ UNCHANGED <<operands, phase, todo, pc, loaded, buckets, windowSums, cursor, acc, result>>

StoreWindow(j) ==
  /\ pc[j] = "reduce" /\ i[j] = NumBuckets
  /\ windowSums' = [windowSums EXCEPT ![j] = windowSum[j]]
  /\ pc' = [pc EXCEPT ![j] = "done"]
  /\ UNCHANGED <<operands, phase, todo, i, registers, buckets, cursor, acc, result>>

\* The loop over the windows is left; windowReduction begins.
JoinWindows ==
  /\ phase = "windows" /\ \A j \in Window : pc[j] = "done"
  /\ phase' = "combine"
  /\ UNCHANGED <<operands, todo, pc, i, registers, buckets, windowSums, cursor, acc, result>>

\* windowReduction, one iteration: add a window sum, then double once for
\* every bit of a window.
CombineWindow ==
  /\ phase = "combine" /\ cursor < NumWindows
  /\ acc' = Doubled(Add(acc, windowSums[NumWindows - cursor]), bitsPerWindow)
  /\ cursor' = cursor + 1
  /\ UNCHANGED <<operands, phase, todo, pc, i, registers, buckets, windowSums, result>>

Finish ==
  /\ phase = "combine" /\ cursor >= NumWindows
  /\ result' = Add(acc, windowSums[0])
  /\ phase' = "done"
  /\ UNCHANGED <<operands, todo, pc, i, registers, buckets, windowSums, cursor, acc>>

Terminated == phase = "done" /\ UNCHANGED vars

WindowStep(j) == \/ Enter(j) \/ Skip(j) \/ AddUnit(j) \/ LoadBucket(j) \/ StoreBucket(j)
                 \/ StartReduction(j) \/ ReduceBucket(j) \/ StoreWindow(j)

Next == \/ \E r \in Row, k \in Bucket : ClearBucket(r, k)
        \/ StartWindows
        \/ \E j \in Window : WindowStep(j)
        \/ JoinWindows \/ CombineWindow \/ Finish \/ Terminated

Spec == Init /\ [][Next]_vars

-----------------------------------------------------------------------------
Combination == [Term -> Int]

\* The type invariant.
TypeOK ==
  /\ scalars \in [Term -> Scalar] /\ parallel \in BOOLEAN
  /\ bitsPerWindow \in 1 .. ScalarBits
  /\ phase \in {"init", "windows", "combine", "done"}
  /\ todo \subseteq Row \X Bucket
  /\ pc \in [Window -> {"idle", "acc", "store", "reduce", "done"}]
  /\ i \in [Window -> Nat]
  /\ \A j \in Window : i[j] \in 0 .. (IF pc[j] \in {"reduce", "done"}
                                      THEN NumBuckets ELSE NumScalarMuls)
  /\ {loaded, windowSum, runningSum, windowSums} \subseteq [Window -> Combination]
  /\ buckets \in [Row -> [Bucket -> Combination]]
  /\ cursor \in 1 .. NumWindows
  /\ acc \in Combination /\ result \in Combination \cup {None}

\* The cells a window's next step reads, and writes.
Reads(j) ==
  CASE Accumulating(j) /\ scalars[TermOf(j)] > 1 /\ Digit(scalars[TermOf(j)], j) # 0 ->
         {<<RowOf(j), Digit(scalars[TermOf(j)], j) - 1>>}
    [] pc[j] = "reduce" /\ i[j] < NumBuckets -> {<<RowOf(j), Descending(i[j])>>}
    [] OTHER -> {}
Writes(j) ==
  IF pc[j] = "store" THEN {<<RowOf(j), Digit(scalars[TermOf(j)], j) - 1>>} ELSE {}

\* Parallel windows never contend for a bucket: their load, add and store of
\* a bucket is not atomic and needs no lock.
NoRace == \A j, k \in Window : j # k => Writes(j) \cap (Reads(k) \cup Writes(k)) = {}

\* While a window accumulates, every bucket of its row holds exactly the
\* points seen so far that have its digit; nothing of an earlier window, of
\* fresh memory or of a unit scalar is left in it.
Placed(j, t) == t <= i[j] /\ scalars[t] > 1

BucketsHold ==
  \A j \in Window : pc[j] \in {"acc", "store"} =>
    \A k \in Bucket : buckets[RowOf(j)][k] =
      [t \in Term |-> IF Placed(j, t) /\ Digit(scalars[t], j) = k + 1 THEN 1 ELSE 0]

\* A finished window has summed its digit of every scalar, the scalars that
\* are one included although they never enter a bucket.
WindowSumRight ==
  \A j \in Window : pc[j] = "done" =>
    windowSums[j] = [t \in Term |-> Digit(scalars[t], j)]

\* The sums of a run, from the buckets to the windows: the indices stay in
\* their ranges, and buckets and finished windows hold what they stand for.
SumsHold == TypeOK /\ BucketsHold /\ WindowSumRight

\* The whole lowering computes sum of scalars[t] * points[t], in one step as
\* its user sees it.
Op == INSTANCE MultiScalar
OpSpec == Op!Spec
=============================================================================
