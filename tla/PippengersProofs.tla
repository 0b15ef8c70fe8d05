--------------------------- MODULE PippengersProofs ---------------------------
(***************************************************************************)
(* The bucket algorithm is right for every number of scalars, every width, *)
(* every size of the windows and every interleaving of parallel windows.   *)
(***************************************************************************)
EXTENDS Pippengers, ArithLemmas

-----------------------------------------------------------------------------
(* The sizes. *)

(* The loop of the estimate stops, at a size within the scalar. *)
LEMMA EstimateInRange ==
  ASSUME NEW n
  PROVE  EstimateOptimalWindowBits(ScalarBits, n) \in 1 .. ScalarBits
<1> DEFINE Stops(s) == \/ s = ScalarBits
                       \/ PointAddCost(ScalarBits, n, s + 1) >= PointAddCost(ScalarBits, n, s)
           T == {s \in 1 .. ScalarBits : Stops(s)}
<1>1. ScalarBits \in T /\ T \in SUBSET Nat
  BY SizeAssumption
<1>2. PICK s \in T : \A k \in T : s <= k
  BY <1>1, LeastNatural
<1>3. s \in 1 .. ScalarBits /\ Stops(s) /\ \A k \in 1 .. s - 1 : k \in 1 .. ScalarBits /\ k \notin T
  BY <1>2, SizeAssumption
<1>4. \E x \in 1 .. ScalarBits : Stops(x) /\ \A k \in 1 .. x - 1 : ~ Stops(k)
  BY <1>3
<1> HIDE DEF Stops
<1>5. (CHOOSE x \in 1 .. ScalarBits : Stops(x) /\ \A k \in 1 .. x - 1 : ~ Stops(k)) \in 1 .. ScalarBits
  BY <1>4, Zenon
<1> QED BY <1>5 DEF EstimateOptimalWindowBits, Stops

(* What the sizes of windows and buckets have to do with the width.          *)
LEMMA Sizes ==
  ASSUME bitsPerWindow \in 1 .. ScalarBits
  PROVE  /\ NumWindows \in Nat \ {0} /\ NumBuckets \in Nat \ {0}
         /\ 2^bitsPerWindow \in Nat /\ 2^bitsPerWindow >= 2
         /\ bitsPerWindow * NumWindows \in ScalarBits .. 2 * ScalarBits - 1
         /\ \A j \in Window : /\ j \in Nat /\ WindowOffset(j) \in 0 .. ScalarBits - 1
                              /\ 2^WindowOffset(j) \in Nat \ {0}
                              /\ 2^(bitsPerWindow * (j + 1)) = 2^WindowOffset(j) * 2^bitsPerWindow
<1> DEFINE b == bitsPerWindow
           W == NumWindows
<1>1. b \in Nat /\ b > 0 /\ ScalarBits \in Nat /\ b <= ScalarBits /\ ScalarBits > 0
  BY SizeAssumption
<1>2. PICK r \in 0 .. b - 1 : W \in Int /\ ScalarBits + b - 1 = b * W + r
  BY <1>1, DivModBasics DEF NumWindows
<1>3. b * W \in ScalarBits .. ScalarBits + b - 1
  BY <1>1, <1>2
<1>4. W >= 1
  <2> SUFFICES ASSUME W <= 0 PROVE FALSE
    BY <1>2
  <2>1. b * W <= b * 0
    BY <1>1, <1>2, MulMono
  <2> QED BY <2>1, <1>3, <1>1
<1>5. 2^b \in Nat /\ 2^b >= 2
  <2>1. b - 1 \in 0 .. ScalarBits /\ 1 \in 0 .. ScalarBits /\ (b - 1) + 1 = b /\ b - 1 \in 0 .. 2 * ScalarBits
    BY <1>1
  <2>2. 2^b = 2^(b - 1) * 2^1 /\ 2^1 = 2 /\ 2^(b - 1) \in Nat \ {0}
    BY <2>1, ExponentAssumption
  <2> HIDE DEF b
  <2> QED BY <2>2
<1>6. NumBuckets \in Nat \ {0}
  BY <1>5 DEF NumBuckets
<1>7. ASSUME NEW j \in Window
      PROVE  /\ j \in Nat /\ WindowOffset(j) \in 0 .. ScalarBits - 1
             /\ 2^WindowOffset(j) \in Nat \ {0}
             /\ 2^(b * (j + 1)) = 2^WindowOffset(j) * 2^b
  <2>1. j \in Nat /\ j <= W - 1
    BY <1>2, <1>4 DEF Window
  <2>2. b * j <= b * (W - 1) /\ b * (W - 1) = b * W - b /\ b * j \in Nat /\ b * (j + 1) = b * j + b
    <3> HIDE DEF b, W
    <3>1. b * j <= b * (W - 1)
      BY <1>1, <1>2, <2>1, MulMono
    <3> QED BY <1>1, <1>2, <2>1, <3>1
  <2>3. b * j <= ScalarBits - 1
    <3> HIDE DEF b, W
    <3> QED BY <2>2, <1>3, <1>1
  <2>4. b * j \in 0 .. 2 * ScalarBits /\ b * j \in 0 .. ScalarBits /\ b \in 0 .. ScalarBits
    BY <2>2, <2>3, <1>1
  <2>5. 2^(b * j) \in Nat \ {0} /\ 2^(b * j + b) = 2^(b * j) * 2^b
    BY <2>4, ExponentAssumption
  <2> QED BY <2>1, <2>2, <2>3, <2>5 DEF WindowOffset
<1> QED BY <1>1, <1>2, <1>3, <1>4, <1>5, <1>6, <1>7

-----------------------------------------------------------------------------
(* The digits of a scalar. *)

LEMMA ScalarFacts ==
  ASSUME NEW s \in Scalar
  PROVE  s \in Nat /\ s < 2^ScalarBits /\ 2^ScalarBits \in Nat
<1>1. ScalarBits \in 0 .. 2 * ScalarBits
  BY SizeAssumption
<1>2. 2^ScalarBits \in Nat
  BY <1>1, ExponentAssumption
<1> QED BY <1>2, ScalarAssumption

(* A digit has a bucket unless it is zero. *)
LEMMA DigitRange ==
  ASSUME bitsPerWindow \in 1 .. ScalarBits, NEW s \in Scalar, NEW j \in Window
  PROVE  Digit(s, j) \in 0 .. NumBuckets
<1>1. 2^WindowOffset(j) \in Nat \ {0} /\ 2^bitsPerWindow \in Nat /\ 2^bitsPerWindow >= 2 /\ s \in Nat
  BY Sizes, ScalarFacts
<1>2. s \div 2^WindowOffset(j) \in Int
  BY <1>1, DivModBasics
<1> DEFINE q == s \div 2^WindowOffset(j)
           B == 2^bitsPerWindow
<1> HIDE DEF q, B
<1>3. q % B \in 0 .. B - 1
  BY <1>1, <1>2, DivModBasics DEF q, B
<1> QED BY <1>3 DEF Digit, NumBuckets, q, B

(* Zero has no digits, and one only its lowest. *)
LEMMA DigitOfUnit ==
  ASSUME bitsPerWindow \in 1 .. ScalarBits, NEW j \in Window
  PROVE  /\ Digit(0, j) = 0
         /\ Digit(1, j) = IF UnitHere(j) THEN 1 ELSE 0
<1> DEFINE o == WindowOffset(j)
           P == 2^o
           B == 2^bitsPerWindow
<1>1. o \in 0 .. ScalarBits - 1 /\ P \in Nat \ {0} /\ B \in Nat /\ B >= 2
  BY Sizes
<1>2. 0 \div P = 0
  <2> HIDE DEF P
  <2> QED BY <1>1, DivSmall
<1>3. 0 % B = 0 /\ 1 % B = 1
  <2> HIDE DEF B
  <2> QED BY <1>1, DivSmall
<1>4. CASE o = 0
  <2>1. P = 1
    BY <1>4
  <2>2. 1 = 1 * 1 + 0 /\ 0 \in 0 .. 1 - 1
    OBVIOUS
  <2>3. 1 \div 1 = 1
    BY <2>2, DivModUnique
  <2> QED BY <1>2, <1>3, <1>4, <2>1, <2>3 DEF Digit, UnitHere
<1>5. CASE o # 0
  <2>1. o - 1 \in 0 .. ScalarBits /\ 1 \in 0 .. ScalarBits /\ (o - 1) + 1 = o /\ o - 1 \in 0 .. 2 * ScalarBits
    <3> HIDE DEF o, P, B
    <3> QED BY <1>1, <1>5, SizeAssumption
  <2>2. P = 2^(o - 1) * 2^1 /\ 2^1 = 2 /\ 2^(o - 1) \in Nat \ {0}
    <3> HIDE DEF o
    <3> QED BY <2>1, ExponentAssumption
  <2>3. P >= 2
    <3> HIDE DEF P, o
    <3> QED BY <2>2
  <2>4. 1 \div P = 0
    <3> HIDE DEF P
    <3> QED BY <2>3, <1>1, DivSmall
  <2> QED BY <1>2, <1>3, <1>5, <2>4 DEF Digit, UnitHere
<1> QED BY <1>4, <1>5

(* The scalar from a window upwards is that from the next window upwards,   *)
(* moved by a window, and the window's digit.                                *)
LEMMA Horner ==
  ASSUME bitsPerWindow \in 1 .. ScalarBits, NEW s \in Scalar, NEW j \in Window
  PROVE  s \div 2^(bitsPerWindow * j) =
           2^bitsPerWindow * (s \div 2^(bitsPerWindow * (j + 1))) + Digit(s, j)
<1> DEFINE P == 2^WindowOffset(j)
           B == 2^bitsPerWindow
           q == s \div P
<1>1. P \in Nat \ {0} /\ B \in Nat /\ B >= 2 /\ 2^(bitsPerWindow * (j + 1)) = P * B /\ s \in Nat
  BY Sizes, ScalarFacts
<1> HIDE DEF P, B
<1>2. q \in Int
  BY <1>1, DivModBasics
<1>3. s \div (P * B) = q \div B
  BY <1>1, DivDiv
<1>4. q = B * (q \div B) + (q % B)
  <2> HIDE DEF q
  <2> QED BY <1>1, <1>2, DivModBasics
<1> QED BY <1>1, <1>3, <1>4 DEF P, B, Digit, WindowOffset

(* Above the last window nothing is left. *)
LEMMA NothingAbove ==
  ASSUME bitsPerWindow \in 1 .. ScalarBits, NEW s \in Scalar
  PROVE  s \div 2^(bitsPerWindow * NumWindows) = 0
<1> DEFINE e == bitsPerWindow * NumWindows
           H == 2^ScalarBits
           K == 2^(e - ScalarBits)
<1>1. e \in ScalarBits .. 2 * ScalarBits - 1 /\ ScalarBits \in Nat
  BY Sizes, SizeAssumption
<1>2. /\ ScalarBits \in 0 .. ScalarBits /\ e - ScalarBits \in 0 .. ScalarBits
      /\ ScalarBits + (e - ScalarBits) = e /\ e - ScalarBits \in 0 .. 2 * ScalarBits
  <2> HIDE DEF e
  <2> QED BY <1>1
<1>3. 2^e = H * K /\ K \in Nat \ {0}
  <2> HIDE DEF e
  <2> QED BY <1>2, ExponentAssumption
<1>4. s \in Nat /\ s < H /\ H \in Nat
  BY ScalarFacts
<1> HIDE DEF H, K
<1>5. H * 1 <= H * K /\ H * K \in Nat
  <2>1. 1 <= K
    BY <1>3
  <2> QED BY <2>1, <1>3, <1>4, MulMono
<1>6. s < H * K
  BY <1>4, <1>5
<1>7. s \div (H * K) = 0
  BY <1>4, <1>5, <1>6, DivSmall
<1> QED BY <1>3, <1>7
-----------------------------------------------------------------------------
(* The invariant. *)

(* The points among the first m that have a bucket's digit, or are one. *)
Gathered(j, k, m) ==
  [t \in Term |-> IF t <= m /\ scalars[t] > 1 /\ Digit(scalars[t], j) = k + 1 THEN 1 ELSE 0]
Units(j, m) == [t \in Term |-> IF t <= m /\ scalars[t] = 1 /\ UnitHere(j) THEN 1 ELSE 0]

(* The sums after the m highest buckets. *)
Running(j, m) ==
  [t \in Term |-> IF scalars[t] > 1 /\ Digit(scalars[t], j) > NumBuckets - m THEN 1 ELSE 0]
Summed(j, m) ==
  [t \in Term |-> IF scalars[t] = 1 THEN Digit(scalars[t], j)
                  ELSE IF Digit(scalars[t], j) > NumBuckets - m THEN Digit(scalars[t], j) - (NumBuckets - m)
                  ELSE 0]
Digits(j) == [t \in Term |-> Digit(scalars[t], j)]

(* The scalars from window m upwards, moved up by a window. *)
From(m) == [t \in Term |-> 2^bitsPerWindow * (scalars[t] \div 2^(bitsPerWindow * m))]

Working == {"acc", "store", "reduce"}

(* What a window has done. *)
WindowInv(j) ==
  /\ pc[j] = "idle" => i[j] = 0 /\ windowSum[j] = ZeroPoint /\ runningSum[j] = ZeroPoint
  /\ pc[j] \in {"acc", "store"} =>
       /\ \A k \in Bucket : buckets[RowOf(j)][k] = Gathered(j, k, i[j])
       /\ windowSum[j] = Units(j, i[j]) /\ runningSum[j] = ZeroPoint
  /\ pc[j] = "store" =>
       /\ i[j] < NumScalarMuls /\ scalars[TermOf(j)] > 1 /\ Digit(scalars[TermOf(j)], j) # 0
       /\ loaded[j] = Add(buckets[RowOf(j)][Digit(scalars[TermOf(j)], j) - 1], PointOf(TermOf(j)))
  /\ pc[j] = "reduce" =>
       /\ \A k \in Bucket : buckets[RowOf(j)][k] = Gathered(j, k, NumScalarMuls)
       /\ windowSum[j] = Summed(j, i[j]) /\ runningSum[j] = Running(j, i[j])
  /\ pc[j] = "done" => windowSums[j] = Digits(j)

(* The phases, and the serial windows, follow one another. *)
PhaseInv ==
  /\ phase = "init" => parallel /\ \A j \in Window : pc[j] = "idle"
  /\ phase # "init" => todo = {}
  /\ phase \in {"combine", "done"} => \A j \in Window : pc[j] = "done"
InTurn == ~ parallel => \A j, k \in Window : j < k /\ pc[k] # "idle" => pc[j] = "done"

Cleared ==
  parallel => \A r \in Row, k \in Bucket :
    pc[r] = "idle" /\ <<r, k>> \notin todo => buckets[r][k] = ZeroPoint

ResultInv ==
  /\ phase \in {"init", "windows"} => cursor = 1 /\ acc = ZeroPoint
  /\ phase = "combine" => acc = From(NumWindows - cursor + 1)
  /\ phase # "done" => result = None
  /\ phase = "done" => result = scalars

(* The inductive invariant. *)
Inv == TypeOK /\ PhaseInv /\ InTurn /\ Cleared /\ ResultInv /\ \A j \in Window : WindowInv(j)

(* Sums of points are points. *)
LEMMA GroupFacts ==
  /\ ZeroPoint \in Combination /\ Stale \in Combination
  /\ \A t \in Term : PointOf(t) \in Combination
  /\ \A x, y \in Combination : Add(x, y) \in Combination
BY DEF ZeroPoint, Stale, PointOf, Add, Combination

LEMMA InitInv == Init => Inv
<1> SUFFICES ASSUME Init PROVE Inv
  OBVIOUS
<1>1. bitsPerWindow \in 1 .. ScalarBits /\ parallel \in BOOLEAN
  <2>1. PICK op \in Attributes : /\ parallel = op.parallel
                                 /\ bitsPerWindow = IF op.windowBits > 0 THEN op.windowBits
                                      ELSE EstimateOptimalWindowBits(ScalarBits, 2^op.degree)
    BY DEF Init
  <2>2. op.parallel \in BOOLEAN /\ op.windowBits \in 0 .. ScalarBits
    BY AttributesAssumption
  <2> QED BY <2>1, <2>2, EstimateInRange, SizeAssumption
<1>2. NumWindows \in Nat \ {0} /\ NumBuckets \in Nat \ {0}
  BY <1>1, Sizes
<1>3. /\ scalars \in [Term -> Scalar]
      /\ phase = (IF parallel THEN "init" ELSE "windows") /\ todo = (IF parallel THEN Row \X Bucket ELSE {})
      /\ pc = [j \in Window |-> "idle"] /\ i = [j \in Window |-> 0]
      /\ loaded = [j \in Window |-> ZeroPoint] /\ windowSum = [j \in Window |-> ZeroPoint]
      /\ runningSum = [j \in Window |-> ZeroPoint] /\ windowSums = [j \in Window |-> ZeroPoint]
      /\ buckets = [r \in Row |-> [k \in Bucket |-> Stale]]
      /\ cursor = 1 /\ acc = ZeroPoint /\ result = None
  BY DEF Init
<1>4. TypeOK
  <2>1. {loaded, windowSum, runningSum, windowSums} \subseteq [Window -> Combination]
    BY <1>3, GroupFacts
  <2>2. buckets \in [Row -> [Bucket -> Combination]]
    BY <1>3, GroupFacts
  <2>3. \A j \in Window : i[j] \in 0 .. (IF pc[j] \in {"reduce", "done"} THEN NumBuckets ELSE NumScalarMuls)
    BY <1>3, SizeAssumption
  <2>4. /\ phase \in {"init", "windows", "combine", "done"} /\ todo \subseteq Row \X Bucket
        /\ pc \in [Window -> {"idle", "acc", "store", "reduce", "done"}]
        /\ cursor \in 1 .. NumWindows /\ acc \in Combination /\ result \in Combination \cup {None}
        /\ i \in [Window -> Nat]
    BY <1>2, <1>3, GroupFacts
  <2> QED BY <1>1, <1>3, <2>1, <2>2, <2>3, <2>4 DEF TypeOK
<1>5. PhaseInv /\ InTurn
  BY <1>1, <1>3 DEF PhaseInv, InTurn
<1>6. Cleared
  BY <1>3 DEF Cleared
<1>7. ResultInv
  BY <1>3 DEF ResultInv
<1>8. ASSUME NEW j \in Window PROVE WindowInv(j)
  BY <1>3 DEF WindowInv
<1> QED BY <1>4, <1>5, <1>6, <1>7, <1>8 DEF Inv
-----------------------------------------------------------------------------
(* What a step leaves alone. *)

(* No step changes the operands, nor what is computed from them. *)
LEMMA OperandsFixed ==
  ASSUME UNCHANGED operands
  PROVE  /\ scalars' = scalars /\ parallel' = parallel /\ bitsPerWindow' = bitsPerWindow
         /\ NumWindows' = NumWindows /\ NumBuckets' = NumBuckets
         /\ Window' = Window /\ Bucket' = Bucket /\ Row' = Row
         /\ \A j : RowOf(j)' = RowOf(j)
         /\ \A s, j : Digit(s, j)' = Digit(s, j)
         /\ \A j, k, m : Gathered(j, k, m)' = Gathered(j, k, m)
         /\ \A j, m : /\ Units(j, m)' = Units(j, m) /\ Running(j, m)' = Running(j, m)
                      /\ Summed(j, m)' = Summed(j, m)
         /\ \A j : Digits(j)' = Digits(j)
         /\ \A m : From(m)' = From(m)
<1>1. scalars' = scalars /\ parallel' = parallel /\ bitsPerWindow' = bitsPerWindow
  BY DEF operands
<1>2. NumWindows' = NumWindows /\ NumBuckets' = NumBuckets
  BY <1>1 DEF NumWindows, NumBuckets
<1>3. Window' = Window /\ Bucket' = Bucket
  BY <1>2 DEF Window, Bucket
<1>4. Row' = Row /\ \A j : RowOf(j)' = RowOf(j)
  BY <1>1, <1>3 DEF Row, RowOf
<1>5. /\ \A s, j : Digit(s, j)' = Digit(s, j)
      /\ \A j : UnitHere(j)' <=> UnitHere(j)
  BY <1>1 DEF Digit, UnitHere, WindowOffset
<1>6. \A j, k, m : Gathered(j, k, m)' = Gathered(j, k, m)
  BY <1>1, <1>5 DEF Gathered
<1>7. \A j, m : Units(j, m)' = Units(j, m)
  BY <1>1, <1>5 DEF Units
<1>8. \A j, m : Running(j, m)' = Running(j, m)
  BY <1>1, <1>2, <1>5 DEF Running
<1>9. \A j, m : Summed(j, m)' = Summed(j, m)
  BY <1>1, <1>2, <1>5 DEF Summed
<1>10. \A j : Digits(j)' = Digits(j)
  BY <1>1, <1>5 DEF Digits
<1>11. \A m : From(m)' = From(m)
  BY <1>1 DEF From
<1> QED BY <1>1, <1>2, <1>3, <1>4, <1>5, <1>6, <1>7, <1>8, <1>9, <1>10, <1>11

(* What a window at work, or about to begin, may rely on. *)
Begins(j) == pc[j] = "idle" => parallel \/ \A k \in 0 .. j - 1 : pc[k] = "done"

(* Nobody else works on the row of a window that works or begins. *)
LEMMA RowsApart ==
  ASSUME Inv, NEW j \in Window, pc[j] # "done", Begins(j), NEW k \in Window, k # j
  PROVE  RowOf(k) = RowOf(j) => pc[k] \notin Working
<1>1. j \in Nat /\ k \in Nat
  BY Sizes DEF Inv, TypeOK
<1>2. CASE parallel
  BY <1>2 DEF RowOf
<1>3. CASE ~ parallel /\ k < j
  <2>1. pc[k] = "done"
    BY <1>1, <1>3 DEF Inv, InTurn, Begins
  <2> QED BY <2>1 DEF Working
<1>4. CASE ~ parallel /\ j < k
  <2>1. pc[k] = "idle"
    BY <1>4 DEF Inv, InTurn
  <2> QED BY <2>1 DEF Working
<1> QED BY <1>1, <1>2, <1>3, <1>4

(* A window that does nothing, and whose buckets nobody touches, keeps its part. *)
LEMMA Undisturbed ==
  ASSUME Inv, NEW k \in Window,
         UNCHANGED operands, pc'[k] = pc[k], i'[k] = i[k], loaded'[k] = loaded[k],
         windowSum'[k] = windowSum[k], runningSum'[k] = runningSum[k], windowSums'[k] = windowSums[k],
         pc[k] \in Working => buckets'[RowOf(k)] = buckets[RowOf(k)]
  PROVE  WindowInv(k)'
<1>1. WindowInv(k)
  BY DEF Inv
<1>2. pc[k] \in Working => buckets'[RowOf(k)] = buckets[RowOf(k)]
  OBVIOUS
<1>3. scalars' = scalars /\ Bucket' = Bucket /\ RowOf(k)' = RowOf(k)
  BY OperandsFixed
<1>4. /\ \A s : Digit(s, k)' = Digit(s, k)
      /\ \A x, m : Gathered(k, x, m)' = Gathered(k, x, m)
      /\ \A m : /\ Units(k, m)' = Units(k, m) /\ Running(k, m)' = Running(k, m)
                /\ Summed(k, m)' = Summed(k, m)
      /\ Digits(k)' = Digits(k)
  BY OperandsFixed
<1>5. TermOf(k)' = TermOf(k)
  BY DEF TermOf
<1>6. CASE pc[k] = "idle"
  BY <1>1, <1>6 DEF WindowInv, ZeroPoint, Term
<1>7. CASE pc[k] = "acc"
  <2>1. buckets'[RowOf(k)] = buckets[RowOf(k)]
    BY <1>2, <1>7 DEF Working
  <2>2. \A x \in Bucket : buckets[RowOf(k)][x] = Gathered(k, x, i[k])
    BY <1>1, <1>7 DEF WindowInv
  <2>3. \A x \in Bucket' : (buckets[RowOf(k)][x] = Gathered(k, x, i[k]))'
    BY <1>3, <1>4, <2>1, <2>2 DEF Gathered
  <2>4. (windowSum[k] = Units(k, i[k]) /\ runningSum[k] = ZeroPoint)'
    BY <1>1, <1>4, <1>7 DEF WindowInv, ZeroPoint
  <2> QED BY <1>7, <2>3, <2>4 DEF WindowInv
<1>8. CASE pc[k] = "store"
  <2>1. buckets'[RowOf(k)] = buckets[RowOf(k)]
    BY <1>2, <1>8 DEF Working
  <2>2. /\ \A x \in Bucket : buckets[RowOf(k)][x] = Gathered(k, x, i[k])
        /\ windowSum[k] = Units(k, i[k]) /\ runningSum[k] = ZeroPoint
        /\ i[k] < NumScalarMuls /\ scalars[TermOf(k)] > 1 /\ Digit(scalars[TermOf(k)], k) # 0
        /\ loaded[k] = Add(buckets[RowOf(k)][Digit(scalars[TermOf(k)], k) - 1], PointOf(TermOf(k)))
    BY <1>1, <1>8 DEF WindowInv
  <2>3. \A x \in Bucket' : (buckets[RowOf(k)][x] = Gathered(k, x, i[k]))'
    BY <1>3, <1>4, <2>1, <2>2 DEF Gathered
  <2>4. (windowSum[k] = Units(k, i[k]) /\ runningSum[k] = ZeroPoint)'
    BY <1>4, <2>2 DEF ZeroPoint
  <2>5. (i[k] < NumScalarMuls /\ scalars[TermOf(k)] > 1 /\ Digit(scalars[TermOf(k)], k) # 0)'
    BY <1>3, <1>4, <1>5, <2>2
  <2>6. (loaded[k] = Add(buckets[RowOf(k)][Digit(scalars[TermOf(k)], k) - 1], PointOf(TermOf(k))))'
    BY <1>3, <1>4, <1>5, <2>1, <2>2 DEF Add, PointOf
  <2> QED BY <1>8, <2>3, <2>4, <2>5, <2>6 DEF WindowInv
<1>9. CASE pc[k] = "reduce"
  <2>1. buckets'[RowOf(k)] = buckets[RowOf(k)]
    BY <1>2, <1>9 DEF Working
  <2>2. /\ \A x \in Bucket : buckets[RowOf(k)][x] = Gathered(k, x, NumScalarMuls)
        /\ windowSum[k] = Summed(k, i[k]) /\ runningSum[k] = Running(k, i[k])
    BY <1>1, <1>9 DEF WindowInv
  <2>3. \A x \in Bucket' : (buckets[RowOf(k)][x] = Gathered(k, x, NumScalarMuls))'
    BY <1>3, <1>4, <2>1, <2>2
  <2>4. (windowSum[k] = Summed(k, i[k]) /\ runningSum[k] = Running(k, i[k]))'
    BY <1>4, <2>2
  <2> QED BY <1>9, <2>3, <2>4 DEF WindowInv
<1>10. CASE pc[k] = "done"
  <2>1. (windowSums[k] = Digits(k))'
    BY <1>1, <1>4, <1>10 DEF WindowInv
  <2> QED BY <1>10, <2>1 DEF WindowInv
<1> QED BY <1>6, <1>7, <1>8, <1>9, <1>10 DEF Inv, TypeOK

(* A step of window j does not disturb another one. *)
LEMMA Elsewhere ==
  ASSUME Inv, NEW j \in Window, pc[j] # "done", Begins(j), NEW k \in Window, k # j,
         UNCHANGED operands, pc'[k] = pc[k], i'[k] = i[k], loaded'[k] = loaded[k],
         windowSum'[k] = windowSum[k], runningSum'[k] = runningSum[k], windowSums'[k] = windowSums[k],
         RowOf(k) # RowOf(j) => buckets'[RowOf(k)] = buckets[RowOf(k)]
  PROVE  WindowInv(k)'
BY RowsApart, Undisturbed

(* A step of window j leaves the phases, the turns and the result as they are. *)
LEMMA WindowStepFrame ==
  ASSUME Inv, phase = "windows", NEW j \in Window, pc[j] # "done", Begins(j),
         UNCHANGED <<operands, phase, todo, cursor, acc, result>>,
         NEW label, label # "idle", pc' = [pc EXCEPT ![j] = label],
         \A r \in Row : r # RowOf(j) => buckets'[r] = buckets[r]
  PROVE  PhaseInv' /\ InTurn' /\ Cleared' /\ ResultInv'
<1>1. /\ scalars' = scalars /\ parallel' = parallel /\ NumWindows' = NumWindows
      /\ Window' = Window /\ Row' = Row /\ Bucket' = Bucket
      /\ \A m : From(m)' = From(m)
  BY OperandsFixed
<1>2. \A k \in Window : pc'[k] = IF k = j THEN label ELSE pc[k]
  BY DEF Inv, TypeOK
<1>3. PhaseInv'
  BY <1>1 DEF Inv, PhaseInv
<1>4. InTurn'
  <2> SUFFICES ASSUME ~ parallel, NEW h \in Window, NEW k \in Window, h < k, pc'[k] # "idle"
               PROVE  pc'[h] = "done"
    BY <1>1 DEF InTurn
  <2>1. h \in Nat /\ k \in Nat /\ j \in Nat
    BY Sizes DEF Inv, TypeOK
  <2>2. CASE k = j
    <3>1. pc[h] = "done"
      BY <2>1, <2>2 DEF Inv, InTurn, Begins
    <3> QED BY <2>1, <2>2, <3>1, <1>2
  <2>3. CASE k # j
    <3>1. pc[h] = "done"
      BY <2>3, <1>2 DEF Inv, InTurn
    <3> QED BY <3>1, <1>2
  <2> QED BY <2>2, <2>3
<1>5. Cleared'
  <2> SUFFICES ASSUME parallel, NEW r \in Row, NEW k \in Bucket, pc'[r] = "idle", <<r, k>> \notin todo
               PROVE  buckets'[r][k] = ZeroPoint
    BY <1>1 DEF Cleared, ZeroPoint
  <2>1. r \in Window /\ r # j
    BY <1>2 DEF Row
  <2>2. pc[r] = "idle" /\ r # RowOf(j)
    BY <2>1, <1>2 DEF RowOf
  <2> QED BY <2>2 DEF Inv, Cleared
<1>6. ResultInv'
  BY <1>1 DEF Inv, ResultInv, ZeroPoint
<1> QED BY <1>3, <1>4, <1>5, <1>6
(* What is left to show of a step of window j. *)
LEMMA WindowStepInv ==
  ASSUME Inv, phase = "windows", NEW j \in Window, pc[j] # "done", Begins(j),
         UNCHANGED <<operands, phase, todo, cursor, acc, result>>,
         NEW label, label # "idle", pc' = [pc EXCEPT ![j] = label],
         \A r \in Row : r # RowOf(j) => buckets'[r] = buckets[r],
         \A k \in Window : k # j =>
           /\ i'[k] = i[k] /\ loaded'[k] = loaded[k] /\ windowSum'[k] = windowSum[k]
           /\ runningSum'[k] = runningSum[k] /\ windowSums'[k] = windowSums[k],
         TypeOK', WindowInv(j)'
  PROVE  Inv'
<1>1. PhaseInv' /\ InTurn' /\ Cleared' /\ ResultInv'
  BY WindowStepFrame
<1>2. Window' = Window
  BY OperandsFixed
<1>3. ASSUME NEW k \in Window, k # j PROVE WindowInv(k)'
  <2>1. RowOf(k) \in Row
    BY DEF RowOf, Row
  <2>2. pc'[k] = pc[k]
    BY <1>3 DEF Inv, TypeOK
  <2> QED BY <1>3, <2>1, <2>2, Elsewhere
<1> QED BY <1>1, <1>2, <1>3 DEF Inv

LEMMA WorkingFacts ==
  ASSUME Inv, NEW j \in Window, pc[j] \in Working
  PROVE  phase = "windows" /\ pc[j] # "done" /\ Begins(j)
BY DEF Inv, TypeOK, PhaseInv, Working, Begins

(* The types, one by one. *)
LEMMA Types ==
  ASSUME TypeOK
  PROVE  /\ scalars \in [Term -> Scalar] /\ parallel \in BOOLEAN /\ bitsPerWindow \in 1 .. ScalarBits
         /\ pc \in [Window -> {"idle", "acc", "store", "reduce", "done"}]
         /\ i \in [Window -> Nat]
         /\ \A j \in Window : i[j] \in 0 .. (IF pc[j] \in {"reduce", "done"} THEN NumBuckets ELSE NumScalarMuls)
         /\ loaded \in [Window -> Combination] /\ windowSum \in [Window -> Combination]
         /\ runningSum \in [Window -> Combination] /\ windowSums \in [Window -> Combination]
         /\ buckets \in [Row -> [Bucket -> Combination]]
         /\ NumWindows \in Nat \ {0} /\ NumBuckets \in Nat \ {0} /\ NumScalarMuls \in Nat
         /\ \A j \in Window : j \in Nat /\ RowOf(j) \in Row
<1>1. bitsPerWindow \in 1 .. ScalarBits
  BY DEF TypeOK
<1> QED BY <1>1, Sizes, SizeAssumption DEF TypeOK, RowOf, Row

-----------------------------------------------------------------------------
(* The steps. *)

LEMMA EnterInv ==
  ASSUME Inv, NEW j \in Window, Enter(j)
  PROVE  Inv'
<1>1. /\ phase = "windows" /\ pc[j] = "idle" /\ (parallel \/ \A k \in 0 .. j - 1 : pc[k] = "done")
      /\ buckets' = (IF parallel THEN buckets ELSE [buckets EXCEPT ![0] = [k \in Bucket |-> ZeroPoint]])
      /\ pc' = [pc EXCEPT ![j] = "acc"] /\ i' = i
      /\ loaded' = loaded /\ windowSum' = windowSum /\ runningSum' = runningSum /\ windowSums' = windowSums
      /\ UNCHANGED <<operands, phase, todo, cursor, acc, result>>
  BY DEF Enter, registers
<1>2. TypeOK /\ todo = {}
  BY <1>1 DEF Inv, PhaseInv
<1>3. Begins(j)
  BY <1>1 DEF Begins
<1>4. /\ Window' = Window /\ Row' = Row /\ Bucket' = Bucket /\ NumWindows' = NumWindows
      /\ NumBuckets' = NumBuckets /\ scalars' = scalars /\ parallel' = parallel
      /\ bitsPerWindow' = bitsPerWindow /\ RowOf(j)' = RowOf(j)
      /\ \A k, m : Gathered(j, k, m)' = Gathered(j, k, m)
      /\ \A m : Units(j, m)' = Units(j, m)
  BY <1>1, OperandsFixed
<1>5. TypeOK'
  <2>1. buckets' \in [Row -> [Bucket -> Combination]]
    BY <1>1, <1>2, Types, GroupFacts
  <2>2. pc' \in [Window -> {"idle", "acc", "store", "reduce", "done"}]
    BY <1>1, <1>2, Types
  <2>3. \A k \in Window : i'[k] \in 0 .. (IF pc'[k] \in {"reduce", "done"} THEN NumBuckets ELSE NumScalarMuls)
    BY <1>1, <1>2, Types
  <2> QED BY <1>1, <1>2, <1>4, <2>1, <2>2, <2>3 DEF TypeOK
<1>6. \A r \in Row : r # RowOf(j) => buckets'[r] = buckets[r]
  BY <1>1, <1>2, Types DEF RowOf, Row
<1>7. WindowInv(j)'
  <2>1. i[j] = 0 /\ windowSum[j] = ZeroPoint /\ runningSum[j] = ZeroPoint
    BY <1>1 DEF Inv, WindowInv
  <2>2. \A k \in Bucket : buckets'[RowOf(j)][k] = ZeroPoint
    <3>1. CASE parallel
      BY <3>1, <1>1, <1>2 DEF Inv, Cleared, Row, RowOf
    <3>2. CASE ~ parallel
      BY <3>2, <1>1, <1>2, Types DEF RowOf
    <3> QED BY <3>1, <3>2
  <2>3. \A k \in Bucket : Gathered(j, k, 0) = ZeroPoint
    BY DEF Gathered, ZeroPoint, Term
  <2>4. Units(j, 0) = ZeroPoint
    BY DEF Units, ZeroPoint, Term
  <2>5. pc'[j] = "acc"
    BY <1>1, <1>2, Types
  <2> QED BY <1>1, <1>4, <2>1, <2>2, <2>3, <2>4, <2>5 DEF WindowInv, ZeroPoint
<1> QED BY <1>1, <1>3, <1>5, <1>6, <1>7, WindowStepInv
(* One scalar more is in the bucket of its digit, if it is more than one. *)
LEMMA GatherNext ==
  ASSUME NEW j, NEW k, NEW m \in Nat
  PROVE  Gathered(j, k, m + 1) =
           IF m + 1 \in Term /\ scalars[m + 1] > 1 /\ Digit(scalars[m + 1], j) = k + 1
           THEN Add(Gathered(j, k, m), PointOf(m + 1)) ELSE Gathered(j, k, m)
<1>1. \A t \in Term : t <= m + 1 <=> t <= m \/ t = m + 1
  BY SizeAssumption DEF Term
<1>2. \A t \in Term : t = m + 1 => ~ (t <= m)
  BY SizeAssumption DEF Term
<1>3. CASE m + 1 \in Term /\ scalars[m + 1] > 1 /\ Digit(scalars[m + 1], j) = k + 1
  <2>1. ASSUME NEW t \in Term
        PROVE  Gathered(j, k, m + 1)[t] = Gathered(j, k, m)[t] + PointOf(m + 1)[t]
    BY <1>1, <1>2, <1>3 DEF Gathered, PointOf
  <2>2. Gathered(j, k, m + 1) = [t \in Term |-> Gathered(j, k, m + 1)[t]]
    BY DEF Gathered
  <2> QED BY <1>3, <2>1, <2>2 DEF Add
<1>4. CASE ~ (m + 1 \in Term /\ scalars[m + 1] > 1 /\ Digit(scalars[m + 1], j) = k + 1)
  BY <1>1, <1>2, <1>4 DEF Gathered
<1> QED BY <1>3, <1>4

LEMMA UnitsNext ==
  ASSUME NEW j, NEW m \in Nat
  PROVE  Units(j, m + 1) =
           IF m + 1 \in Term /\ scalars[m + 1] = 1 /\ UnitHere(j)
           THEN Add(Units(j, m), PointOf(m + 1)) ELSE Units(j, m)
<1>1. \A t \in Term : t <= m + 1 <=> t <= m \/ t = m + 1
  BY SizeAssumption DEF Term
<1>2. \A t \in Term : t = m + 1 => ~ (t <= m)
  BY SizeAssumption DEF Term
<1>3. CASE m + 1 \in Term /\ scalars[m + 1] = 1 /\ UnitHere(j)
  <2>1. ASSUME NEW t \in Term
        PROVE  Units(j, m + 1)[t] = Units(j, m)[t] + PointOf(m + 1)[t]
    BY <1>1, <1>2, <1>3 DEF Units, PointOf
  <2>2. Units(j, m + 1) = [t \in Term |-> Units(j, m + 1)[t]]
    BY DEF Units
  <2> QED BY <1>3, <2>1, <2>2 DEF Add
<1>4. CASE ~ (m + 1 \in Term /\ scalars[m + 1] = 1 /\ UnitHere(j))
  BY <1>1, <1>2, <1>4 DEF Units
<1> QED BY <1>3, <1>4

(* The scalar at which an accumulating window is. *)
LEMMA AtScalar ==
  ASSUME TypeOK, NEW j \in Window, pc[j] \in {"acc", "store"}, i[j] < NumScalarMuls
  PROVE  /\ i[j] \in Nat /\ i[j] + 1 \in 1 .. NumScalarMuls
         /\ TermOf(j) \in Term /\ TermOf(j) = i[j] + 1 /\ scalars[TermOf(j)] \in Scalar
         /\ scalars[TermOf(j)] \in Nat
         /\ Digit(scalars[TermOf(j)], j) \in 0 .. NumBuckets
<1>1. i[j] \in 0 .. NumScalarMuls /\ NumScalarMuls \in Nat /\ scalars \in [Term -> Scalar]
      /\ bitsPerWindow \in 1 .. ScalarBits
  BY Types
<1>2. TermOf(j) \in Term /\ TermOf(j) = i[j] + 1
  BY <1>1 DEF TermOf, Term
<1>3. scalars[TermOf(j)] \in Scalar
  BY <1>1, <1>2
<1> QED BY <1>1, <1>2, <1>3, DigitRange, ScalarFacts DEF Term

LEMMA SkipInv ==
  ASSUME Inv, NEW j \in Window, Skip(j)
  PROVE  Inv'
<1>1. /\ phase = "windows" /\ pc[j] = "acc" /\ i[j] < NumScalarMuls
      /\ LET s == scalars[TermOf(j)]
         IN  s = 0 \/ (s = 1 /\ ~ UnitHere(j)) \/ (s > 1 /\ Digit(s, j) = 0)
      /\ i' = [i EXCEPT ![j] = i[j] + 1] /\ pc' = pc /\ buckets' = buckets
      /\ loaded' = loaded /\ windowSum' = windowSum /\ runningSum' = runningSum /\ windowSums' = windowSums
      /\ UNCHANGED <<operands, phase, todo, cursor, acc, result>>
  BY DEF Skip, Accumulating, NextTerm, UnitHere, registers
<1>2. TypeOK /\ WindowInv(j) /\ Begins(j) /\ pc[j] # "done"
  BY <1>1 DEF Inv, Begins
<1>3. /\ Window' = Window /\ Row' = Row /\ Bucket' = Bucket /\ NumWindows' = NumWindows
      /\ NumBuckets' = NumBuckets /\ scalars' = scalars /\ parallel' = parallel
      /\ bitsPerWindow' = bitsPerWindow /\ RowOf(j)' = RowOf(j)
      /\ \A k, m : Gathered(j, k, m)' = Gathered(j, k, m)
      /\ \A m : Units(j, m)' = Units(j, m)
  BY <1>1, OperandsFixed
<1>4. i[j] \in Nat /\ i[j] + 1 \in 1 .. NumScalarMuls /\ TermOf(j) = i[j] + 1 /\ scalars[TermOf(j)] \in Nat
  BY <1>1, <1>2, AtScalar
<1>5. pc' = [pc EXCEPT ![j] = "acc"] /\ pc'[j] = "acc" /\ i'[j] = i[j] + 1
  BY <1>1, <1>2, Types
<1>6. TypeOK'
  <2>1. \A k \in Window : i'[k] \in 0 .. (IF pc'[k] \in {"reduce", "done"} THEN NumBuckets ELSE NumScalarMuls)
    BY <1>1, <1>2, <1>4, Types
  <2>2. i' \in [Window -> Nat]
    BY <1>1, <1>2, <1>4, Types
  <2> QED BY <1>1, <1>2, <1>3, <2>1, <2>2 DEF TypeOK
<1>7. WindowInv(j)'
  <2>1. \A k \in Bucket : k \in Nat
    BY DEF Bucket
  <2>2. \A k \in Bucket : Gathered(j, k, i[j] + 1) = Gathered(j, k, i[j])
    BY <1>1, <1>4, <2>1, GatherNext
  <2>3. Units(j, i[j] + 1) = Units(j, i[j])
    BY <1>1, <1>4, UnitsNext
  <2>4. /\ \A k \in Bucket : buckets[RowOf(j)][k] = Gathered(j, k, i[j])
        /\ windowSum[j] = Units(j, i[j]) /\ runningSum[j] = ZeroPoint
    BY <1>1, <1>2 DEF WindowInv
  <2> QED BY <1>1, <1>3, <1>5, <2>2, <2>3, <2>4 DEF WindowInv, ZeroPoint
<1>8. \A k \in Window : k # j => i'[k] = i[k]
  BY <1>1, <1>2, Types
<1> QED BY <1>1, <1>2, <1>5, <1>6, <1>7, <1>8, WindowStepInv

LEMMA AddUnitInv ==
  ASSUME Inv, NEW j \in Window, AddUnit(j)
  PROVE  Inv'
<1>1. /\ phase = "windows" /\ pc[j] = "acc" /\ i[j] < NumScalarMuls
      /\ scalars[TermOf(j)] = 1 /\ UnitHere(j)
      /\ i' = [i EXCEPT ![j] = i[j] + 1] /\ pc' = pc /\ buckets' = buckets
      /\ windowSum' = [windowSum EXCEPT ![j] = Add(windowSum[j], PointOf(TermOf(j)))]
      /\ loaded' = loaded /\ runningSum' = runningSum /\ windowSums' = windowSums
      /\ UNCHANGED <<operands, phase, todo, cursor, acc, result>>
  BY DEF AddUnit, Accumulating, NextTerm
<1>2. TypeOK /\ WindowInv(j) /\ Begins(j) /\ pc[j] # "done"
  BY <1>1 DEF Inv, Begins
<1>3. /\ Window' = Window /\ Row' = Row /\ Bucket' = Bucket /\ NumWindows' = NumWindows
      /\ NumBuckets' = NumBuckets /\ scalars' = scalars /\ parallel' = parallel
      /\ bitsPerWindow' = bitsPerWindow /\ RowOf(j)' = RowOf(j)
      /\ \A k, m : Gathered(j, k, m)' = Gathered(j, k, m)
      /\ \A m : Units(j, m)' = Units(j, m)
  BY <1>1, OperandsFixed
<1>4. i[j] \in Nat /\ i[j] + 1 \in 1 .. NumScalarMuls /\ TermOf(j) = i[j] + 1 /\ TermOf(j) \in Term
  BY <1>1, <1>2, AtScalar
<1>5. pc' = [pc EXCEPT ![j] = "acc"] /\ pc'[j] = "acc" /\ i'[j] = i[j] + 1
      /\ windowSum'[j] = Add(windowSum[j], PointOf(TermOf(j)))
  BY <1>1, <1>2, Types
<1>6. TypeOK'
  <2>1. \A k \in Window : i'[k] \in 0 .. (IF pc'[k] \in {"reduce", "done"} THEN NumBuckets ELSE NumScalarMuls)
    BY <1>1, <1>2, <1>4, Types
  <2>2. i' \in [Window -> Nat]
    BY <1>1, <1>2, <1>4, Types
  <2>3. windowSum' \in [Window -> Combination]
    BY <1>1, <1>2, <1>4, Types, GroupFacts
  <2> QED BY <1>1, <1>2, <1>3, <2>1, <2>2, <2>3 DEF TypeOK
<1>7. WindowInv(j)'
  <2>1. \A k \in Bucket : Gathered(j, k, i[j] + 1) = Gathered(j, k, i[j])
    BY <1>1, <1>4, GatherNext
  <2>2. Units(j, i[j] + 1) = Add(Units(j, i[j]), PointOf(i[j] + 1))
    BY <1>1, <1>4, UnitsNext
  <2>3. /\ \A k \in Bucket : buckets[RowOf(j)][k] = Gathered(j, k, i[j])
        /\ windowSum[j] = Units(j, i[j]) /\ runningSum[j] = ZeroPoint
    BY <1>1, <1>2 DEF WindowInv
  <2> QED BY <1>1, <1>3, <1>4, <1>5, <2>1, <2>2, <2>3 DEF WindowInv, ZeroPoint
<1>8. \A k \in Window : k # j => i'[k] = i[k] /\ windowSum'[k] = windowSum[k]
  BY <1>1, <1>2, Types
<1> QED BY <1>1, <1>2, <1>5, <1>6, <1>7, <1>8, WindowStepInv

LEMMA LoadBucketInv ==
  ASSUME Inv, NEW j \in Window, LoadBucket(j)
  PROVE  Inv'
<1> DEFINE d == Digit(scalars[TermOf(j)], j)
<1>1. /\ phase = "windows" /\ pc[j] = "acc" /\ i[j] < NumScalarMuls
      /\ scalars[TermOf(j)] > 1 /\ d # 0
      /\ loaded' = [loaded EXCEPT ![j] = Add(buckets[RowOf(j)][d - 1], PointOf(TermOf(j)))]
      /\ pc' = [pc EXCEPT ![j] = "store"] /\ i' = i /\ buckets' = buckets
      /\ windowSum' = windowSum /\ runningSum' = runningSum /\ windowSums' = windowSums
      /\ UNCHANGED <<operands, phase, todo, cursor, acc, result>>
  BY DEF LoadBucket, Accumulating
<1>2. TypeOK /\ WindowInv(j) /\ Begins(j) /\ pc[j] # "done"
  BY <1>1 DEF Inv, Begins
<1>3. /\ Window' = Window /\ Row' = Row /\ Bucket' = Bucket /\ NumWindows' = NumWindows
      /\ NumBuckets' = NumBuckets /\ scalars' = scalars /\ parallel' = parallel
      /\ bitsPerWindow' = bitsPerWindow /\ RowOf(j)' = RowOf(j)
      /\ \A s : Digit(s, j)' = Digit(s, j)
      /\ \A k, m : Gathered(j, k, m)' = Gathered(j, k, m)
      /\ \A m : Units(j, m)' = Units(j, m)
  BY <1>1, OperandsFixed
<1>4. TermOf(j) \in Term /\ d \in 0 .. NumBuckets /\ d - 1 \in Bucket
  BY <1>1, <1>2, AtScalar, Types DEF Bucket
<1>5. pc'[j] = "store" /\ loaded'[j] = Add(buckets[RowOf(j)][d - 1], PointOf(TermOf(j)))
  BY <1>1, <1>2, Types
<1>6. TypeOK'
  <2>1. \A k \in Window : i'[k] \in 0 .. (IF pc'[k] \in {"reduce", "done"} THEN NumBuckets ELSE NumScalarMuls)
    BY <1>1, <1>2, Types
  <2>2. pc' \in [Window -> {"idle", "acc", "store", "reduce", "done"}]
    BY <1>1, <1>2, Types
  <2>3. loaded' \in [Window -> Combination]
    <3>1. Add(buckets[RowOf(j)][d - 1], PointOf(TermOf(j))) \in Combination
      BY <1>2, <1>4, Types, GroupFacts
    <3> QED BY <1>1, <1>2, <3>1, Types
  <2> QED BY <1>1, <1>2, <1>3, <2>1, <2>2, <2>3 DEF TypeOK
<1>7. WindowInv(j)'
  <2>1. /\ \A k \in Bucket : buckets[RowOf(j)][k] = Gathered(j, k, i[j])
        /\ windowSum[j] = Units(j, i[j]) /\ runningSum[j] = ZeroPoint
    BY <1>1, <1>2 DEF WindowInv
  <2>2. TermOf(j)' = TermOf(j) /\ d' = d
    BY <1>1, <1>3 DEF TermOf
  <2>3. (/\ \A k \in Bucket : buckets[RowOf(j)][k] = Gathered(j, k, i[j])
         /\ windowSum[j] = Units(j, i[j]) /\ runningSum[j] = ZeroPoint)'
    BY <1>1, <1>3, <2>1 DEF ZeroPoint
  <2>4. (i[j] < NumScalarMuls /\ scalars[TermOf(j)] > 1 /\ d # 0)'
    BY <1>1, <1>3, <2>2
  <2>5. (loaded[j] = Add(buckets[RowOf(j)][d - 1], PointOf(TermOf(j))))'
    BY <1>1, <1>3, <1>5, <2>2 DEF Add, PointOf
  <2> QED BY <1>5, <2>3, <2>4, <2>5 DEF WindowInv
<1>8. \A k \in Window : k # j => loaded'[k] = loaded[k]
  BY <1>1, <1>2, Types
<1> QED BY <1>1, <1>2, <1>6, <1>7, <1>8, WindowStepInv
LEMMA StoreBucketInv ==
  ASSUME Inv, NEW j \in Window, StoreBucket(j)
  PROVE  Inv'
<1> DEFINE d == Digit(scalars[TermOf(j)], j)
<1>1. /\ pc[j] = "store"
      /\ buckets' = [buckets EXCEPT ![RowOf(j)][d - 1] = loaded[j]]
      /\ i' = [i EXCEPT ![j] = i[j] + 1] /\ pc' = [pc EXCEPT ![j] = "acc"]
      /\ loaded' = loaded /\ windowSum' = windowSum /\ runningSum' = runningSum /\ windowSums' = windowSums
      /\ UNCHANGED <<operands, phase, todo, cursor, acc, result>>
  BY DEF StoreBucket, NextTerm, registers
<1>2. TypeOK /\ WindowInv(j) /\ Begins(j) /\ pc[j] # "done" /\ phase = "windows"
  BY <1>1, WorkingFacts DEF Inv, Working
<1>3. /\ Window' = Window /\ Row' = Row /\ Bucket' = Bucket /\ NumWindows' = NumWindows
      /\ NumBuckets' = NumBuckets /\ scalars' = scalars /\ parallel' = parallel
      /\ bitsPerWindow' = bitsPerWindow /\ RowOf(j)' = RowOf(j)
      /\ \A k, m : Gathered(j, k, m)' = Gathered(j, k, m)
      /\ \A m : Units(j, m)' = Units(j, m)
  BY <1>1, OperandsFixed
<1>4. /\ \A k \in Bucket : buckets[RowOf(j)][k] = Gathered(j, k, i[j])
      /\ windowSum[j] = Units(j, i[j]) /\ runningSum[j] = ZeroPoint
      /\ i[j] < NumScalarMuls /\ scalars[TermOf(j)] > 1 /\ d # 0
      /\ loaded[j] = Add(buckets[RowOf(j)][d - 1], PointOf(TermOf(j)))
  BY <1>1, <1>2 DEF WindowInv
<1>5. /\ TermOf(j) \in Term /\ TermOf(j) = i[j] + 1 /\ i[j] \in Nat /\ i[j] + 1 \in 1 .. NumScalarMuls
      /\ d \in 0 .. NumBuckets
  BY <1>1, <1>2, <1>4, AtScalar
<1>6. d - 1 \in Bucket /\ d \in Nat
  BY <1>2, <1>4, <1>5, Types DEF Bucket
<1>7. pc'[j] = "acc" /\ i'[j] = i[j] + 1
  BY <1>1, <1>2, Types
<1> HIDE DEF d
<1>8. /\ \A r \in Row : r # RowOf(j) => buckets'[r] = buckets[r]
      /\ \A k \in Bucket : buckets'[RowOf(j)][k] = IF k = d - 1 THEN loaded[j] ELSE buckets[RowOf(j)][k]
      /\ buckets' \in [Row -> [Bucket -> Combination]]
  <2>1. buckets \in [Row -> [Bucket -> Combination]] /\ RowOf(j) \in Row /\ loaded[j] \in Combination
    BY <1>2, Types
  <2> QED BY <1>1, <1>6, <2>1
<1>9. TypeOK'
  <2>1. \A k \in Window : i'[k] \in 0 .. (IF pc'[k] \in {"reduce", "done"} THEN NumBuckets ELSE NumScalarMuls)
    BY <1>1, <1>2, <1>5, Types
  <2>2. pc' \in [Window -> {"idle", "acc", "store", "reduce", "done"}]
    BY <1>1, <1>2, Types
  <2>3. i' \in [Window -> Nat]
    BY <1>1, <1>2, <1>5, Types
  <2> QED BY <1>1, <1>2, <1>3, <1>8, <2>1, <2>2, <2>3 DEF TypeOK
<1>10. WindowInv(j)'
  <2>1. ASSUME NEW k \in Bucket
        PROVE  buckets'[RowOf(j)][k] = Gathered(j, k, i[j] + 1)
    <3>1. k \in Nat
      BY DEF Bucket
    <3>2. CASE k = d - 1
      <4>1. Gathered(j, k, i[j] + 1) = Add(Gathered(j, k, i[j]), PointOf(i[j] + 1))
        BY <1>4, <1>5, <1>6, <3>1, <3>2, GatherNext DEF d
      <4> QED BY <1>4, <1>5, <1>8, <3>2, <4>1
    <3>3. CASE k # d - 1
      <4>1. Gathered(j, k, i[j] + 1) = Gathered(j, k, i[j])
        <5>1. d # k + 1
          BY <1>6, <3>1, <3>3
        <5> QED BY <1>5, <5>1, GatherNext DEF d
      <4> QED BY <1>4, <1>8, <3>3, <4>1
    <3> QED BY <3>2, <3>3
  <2>2. Units(j, i[j] + 1) = Units(j, i[j])
    BY <1>4, <1>5, UnitsNext
  <2> QED BY <1>1, <1>3, <1>4, <1>7, <2>1, <2>2 DEF WindowInv, ZeroPoint
<1>11. \A k \in Window : k # j => i'[k] = i[k]
  BY <1>1, <1>2, Types
<1> QED BY <1>1, <1>2, <1>8, <1>9, <1>10, <1>11, WindowStepInv

(* Before the first bucket and after the last. *)
LEMMA SumsAtEnds ==
  ASSUME TypeOK, NEW j \in Window
  PROVE  /\ Summed(j, 0) = Units(j, NumScalarMuls) /\ Running(j, 0) = ZeroPoint
         /\ Summed(j, NumBuckets) = Digits(j)
<1>1. /\ NumBuckets \in Nat /\ NumScalarMuls \in Nat /\ bitsPerWindow \in 1 .. ScalarBits
      /\ \A t \in Term : scalars[t] \in Scalar /\ t <= NumScalarMuls
  <2>1. \A t \in Term : t <= NumScalarMuls
    BY SizeAssumption DEF Term
  <2> QED BY <2>1, Types
<1>2. /\ Digit(1, j) = IF UnitHere(j) THEN 1 ELSE 0
      /\ \A t \in Term : Digit(scalars[t], j) \in 0 .. NumBuckets
  BY <1>1, DigitRange, DigitOfUnit
<1>3. Summed(j, 0) = Units(j, NumScalarMuls)
  BY <1>1, <1>2 DEF Summed, Units
<1>4. Running(j, 0) = ZeroPoint
  BY <1>1, <1>2 DEF Running, ZeroPoint
<1>5. Summed(j, NumBuckets) = Digits(j)
  BY <1>1, <1>2 DEF Summed, Digits
<1> QED BY <1>3, <1>4, <1>5

(* One bucket more. *)
LEMMA SumsNext ==
  ASSUME TypeOK, NEW j \in Window, NEW m \in 0 .. NumBuckets - 1
  PROVE  /\ Descending(m) \in Bucket
         /\ Running(j, m + 1) = Add(Running(j, m), Gathered(j, Descending(m), NumScalarMuls))
         /\ Summed(j, m + 1) = Add(Summed(j, m), Running(j, m + 1))
<1>1. /\ NumBuckets \in Nat /\ NumScalarMuls \in Nat /\ bitsPerWindow \in 1 .. ScalarBits
      /\ \A t \in Term : scalars[t] \in Scalar /\ t <= NumScalarMuls
  <2>1. \A t \in Term : t <= NumScalarMuls
    BY SizeAssumption DEF Term
  <2> QED BY <2>1, Types
<1>2. /\ Digit(0, j) = 0
      /\ \A t \in Term : Digit(scalars[t], j) \in 0 .. NumBuckets /\ scalars[t] \in Nat
  BY <1>1, DigitRange, DigitOfUnit, ScalarFacts
<1>3. Descending(m) \in Bucket /\ Descending(m) + 1 = NumBuckets - m
  BY <1>1 DEF Descending, Bucket
<1>4. Running(j, m + 1) = Add(Running(j, m), Gathered(j, Descending(m), NumScalarMuls))
  <2>1. ASSUME NEW t \in Term
        PROVE  Running(j, m + 1)[t] = Running(j, m)[t] + Gathered(j, Descending(m), NumScalarMuls)[t]
    BY <1>1, <1>2, <1>3 DEF Running, Gathered
  <2> QED BY <2>1 DEF Add, Running
<1>5. Summed(j, m + 1) = Add(Summed(j, m), Running(j, m + 1))
  <2>1. ASSUME NEW t \in Term
        PROVE  Summed(j, m + 1)[t] = Summed(j, m)[t] + Running(j, m + 1)[t]
    <3>1. CASE scalars[t] = 0
      BY <3>1, <1>1, <1>2 DEF Running, Summed
    <3>2. CASE scalars[t] = 1
      BY <3>2, <1>1, <1>2 DEF Running, Summed
    <3>3. CASE scalars[t] > 1
      BY <3>3, <1>1, <1>2 DEF Running, Summed
    <3> QED BY <3>1, <3>2, <3>3, <1>2
  <2> QED BY <2>1 DEF Add, Summed
<1> QED BY <1>3, <1>4, <1>5

LEMMA StartReductionInv ==
  ASSUME Inv, NEW j \in Window, StartReduction(j)
  PROVE  Inv'
<1>1. /\ phase = "windows" /\ pc[j] = "acc" /\ i[j] = NumScalarMuls
      /\ pc' = [pc EXCEPT ![j] = "reduce"] /\ i' = [i EXCEPT ![j] = 0] /\ buckets' = buckets
      /\ loaded' = loaded /\ windowSum' = windowSum /\ runningSum' = runningSum /\ windowSums' = windowSums
      /\ UNCHANGED <<operands, phase, todo, cursor, acc, result>>
  BY DEF StartReduction, registers
<1>2. TypeOK /\ WindowInv(j) /\ Begins(j) /\ pc[j] # "done"
  BY <1>1 DEF Inv, Begins
<1>3. /\ Window' = Window /\ Row' = Row /\ Bucket' = Bucket /\ NumWindows' = NumWindows
      /\ NumBuckets' = NumBuckets /\ scalars' = scalars /\ parallel' = parallel
      /\ bitsPerWindow' = bitsPerWindow /\ RowOf(j)' = RowOf(j)
      /\ \A k, m : Gathered(j, k, m)' = Gathered(j, k, m)
      /\ \A m : Summed(j, m)' = Summed(j, m) /\ Running(j, m)' = Running(j, m)
  BY <1>1, OperandsFixed
<1>4. pc'[j] = "reduce" /\ i'[j] = 0
  BY <1>1, <1>2, Types
<1>5. TypeOK'
  <2>1. \A k \in Window : i'[k] \in 0 .. (IF pc'[k] \in {"reduce", "done"} THEN NumBuckets ELSE NumScalarMuls)
    BY <1>1, <1>2, Types
  <2>2. pc' \in [Window -> {"idle", "acc", "store", "reduce", "done"}]
    BY <1>1, <1>2, Types
  <2>3. i' \in [Window -> Nat]
    BY <1>1, <1>2, Types
  <2> QED BY <1>1, <1>2, <1>3, <2>1, <2>2, <2>3 DEF TypeOK
<1>6. WindowInv(j)'
  <2>1. /\ \A k \in Bucket : buckets[RowOf(j)][k] = Gathered(j, k, NumScalarMuls)
        /\ windowSum[j] = Summed(j, 0) /\ runningSum[j] = Running(j, 0)
    BY <1>1, <1>2, SumsAtEnds DEF WindowInv
  <2> QED BY <1>1, <1>3, <1>4, <2>1 DEF WindowInv
<1>7. \A k \in Window : k # j => i'[k] = i[k]
  BY <1>1, <1>2, Types
<1> QED BY <1>1, <1>2, <1>5, <1>6, <1>7, WindowStepInv

LEMMA ReduceBucketInv ==
  ASSUME Inv, NEW j \in Window, ReduceBucket(j)
  PROVE  Inv'
<1> DEFINE rSum == Add(runningSum[j], buckets[RowOf(j)][Descending(i[j])])
<1>1. /\ pc[j] = "reduce" /\ i[j] < NumBuckets
      /\ runningSum' = [runningSum EXCEPT ![j] = rSum]
      /\ windowSum' = [windowSum EXCEPT ![j] = Add(windowSum[j], rSum)]
      /\ i' = [i EXCEPT ![j] = i[j] + 1] /\ pc' = pc /\ buckets' = buckets
      /\ loaded' = loaded /\ windowSums' = windowSums
      /\ UNCHANGED <<operands, phase, todo, cursor, acc, result>>
  BY DEF ReduceBucket
<1>2. TypeOK /\ WindowInv(j) /\ Begins(j) /\ pc[j] # "done" /\ phase = "windows"
  BY <1>1, WorkingFacts DEF Inv, Working
<1>3. /\ Window' = Window /\ Row' = Row /\ Bucket' = Bucket /\ NumWindows' = NumWindows
      /\ NumBuckets' = NumBuckets /\ scalars' = scalars /\ parallel' = parallel
      /\ bitsPerWindow' = bitsPerWindow /\ RowOf(j)' = RowOf(j)
      /\ \A k, m : Gathered(j, k, m)' = Gathered(j, k, m)
      /\ \A m : Summed(j, m)' = Summed(j, m) /\ Running(j, m)' = Running(j, m)
  BY <1>1, OperandsFixed
<1>4. i[j] \in 0 .. NumBuckets - 1 /\ NumBuckets \in Nat
  BY <1>1, <1>2, Types
<1>5. /\ \A k \in Bucket : buckets[RowOf(j)][k] = Gathered(j, k, NumScalarMuls)
      /\ windowSum[j] = Summed(j, i[j]) /\ runningSum[j] = Running(j, i[j])
  BY <1>1, <1>2 DEF WindowInv
<1>6. Descending(i[j]) \in Bucket /\ rSum = Running(j, i[j] + 1)
      /\ Add(windowSum[j], rSum) = Summed(j, i[j] + 1)
  BY <1>2, <1>4, <1>5, SumsNext
<1>7. rSum \in Combination /\ Add(windowSum[j], rSum) \in Combination
  <2>1. /\ runningSum[j] \in Combination /\ windowSum[j] \in Combination
        /\ buckets[RowOf(j)][Descending(i[j])] \in Combination
    BY <1>2, <1>6, Types
  <2> QED BY <2>1, GroupFacts
<1> HIDE DEF rSum
<1>8. pc' = [pc EXCEPT ![j] = "reduce"] /\ pc'[j] = "reduce" /\ i'[j] = i[j] + 1
      /\ runningSum'[j] = rSum /\ windowSum'[j] = Add(windowSum[j], rSum)
  BY <1>1, <1>2, Types
<1>9. TypeOK'
  <2>1. \A k \in Window : i'[k] \in 0 .. (IF pc'[k] \in {"reduce", "done"} THEN NumBuckets ELSE NumScalarMuls)
    BY <1>1, <1>2, <1>4, Types
  <2>2. i' \in [Window -> Nat]
    BY <1>1, <1>2, <1>4, Types
  <2>3. runningSum' \in [Window -> Combination] /\ windowSum' \in [Window -> Combination]
    BY <1>1, <1>2, <1>7, Types
  <2> QED BY <1>1, <1>2, <1>3, <2>1, <2>2, <2>3 DEF TypeOK
<1>10. WindowInv(j)'
  BY <1>1, <1>3, <1>5, <1>6, <1>8 DEF WindowInv
<1>11. \A k \in Window : k # j => i'[k] = i[k] /\ runningSum'[k] = runningSum[k] /\ windowSum'[k] = windowSum[k]
  BY <1>1, <1>2, Types
<1> QED BY <1>1, <1>2, <1>8, <1>9, <1>10, <1>11, WindowStepInv

LEMMA StoreWindowInv ==
  ASSUME Inv, NEW j \in Window, StoreWindow(j)
  PROVE  Inv'
<1>1. /\ pc[j] = "reduce" /\ i[j] = NumBuckets
      /\ windowSums' = [windowSums EXCEPT ![j] = windowSum[j]]
      /\ pc' = [pc EXCEPT ![j] = "done"] /\ i' = i /\ buckets' = buckets
      /\ loaded' = loaded /\ windowSum' = windowSum /\ runningSum' = runningSum
      /\ UNCHANGED <<operands, phase, todo, cursor, acc, result>>
  BY DEF StoreWindow, registers
<1>2. TypeOK /\ WindowInv(j) /\ Begins(j) /\ pc[j] # "done" /\ phase = "windows"
  BY <1>1, WorkingFacts DEF Inv, Working
<1>3. /\ Window' = Window /\ Row' = Row /\ Bucket' = Bucket /\ NumWindows' = NumWindows
      /\ NumBuckets' = NumBuckets /\ scalars' = scalars /\ parallel' = parallel
      /\ bitsPerWindow' = bitsPerWindow /\ RowOf(j)' = RowOf(j)
      /\ Digits(j)' = Digits(j)
  BY <1>1, OperandsFixed
<1>4. windowSum[j] = Digits(j)
  BY <1>1, <1>2, SumsAtEnds DEF WindowInv
<1>5. pc'[j] = "done" /\ windowSums'[j] = windowSum[j]
  BY <1>1, <1>2, Types
<1>6. TypeOK'
  <2>1. \A k \in Window : i'[k] \in 0 .. (IF pc'[k] \in {"reduce", "done"} THEN NumBuckets ELSE NumScalarMuls)
    BY <1>1, <1>2, Types
  <2>2. pc' \in [Window -> {"idle", "acc", "store", "reduce", "done"}]
    BY <1>1, <1>2, Types
  <2>3. windowSums' \in [Window -> Combination]
    BY <1>1, <1>2, Types
  <2> QED BY <1>1, <1>2, <1>3, <2>1, <2>2, <2>3 DEF TypeOK
<1>7. WindowInv(j)'
  BY <1>3, <1>4, <1>5 DEF WindowInv
<1>8. \A k \in Window : k # j => windowSums'[k] = windowSums[k]
  BY <1>1, <1>2, Types
<1> QED BY <1>1, <1>2, <1>6, <1>7, <1>8, WindowStepInv
LEMMA ClearBucketInv ==
  ASSUME Inv, NEW r \in Row, NEW k \in Bucket, ClearBucket(r, k)
  PROVE  Inv'
<1>1. /\ phase = "init" /\ buckets' = [buckets EXCEPT ![r][k] = ZeroPoint] /\ todo' = todo \ {<<r, k>>}
      /\ pc' = pc /\ i' = i /\ loaded' = loaded /\ windowSum' = windowSum /\ runningSum' = runningSum
      /\ windowSums' = windowSums /\ UNCHANGED <<operands, phase, cursor, acc, result>>
  BY DEF ClearBucket, registers
<1>2. TypeOK /\ parallel /\ \A j \in Window : pc[j] = "idle"
  BY <1>1 DEF Inv, PhaseInv
<1>3. /\ Window' = Window /\ Row' = Row /\ Bucket' = Bucket /\ NumWindows' = NumWindows
      /\ NumBuckets' = NumBuckets /\ scalars' = scalars /\ parallel' = parallel
      /\ bitsPerWindow' = bitsPerWindow
  BY <1>1, OperandsFixed
<1>4. TypeOK'
  <2>1. buckets' \in [Row -> [Bucket -> Combination]]
    BY <1>1, <1>2, Types, GroupFacts
  <2>2. todo' \subseteq Row \X Bucket
    BY <1>1, <1>2 DEF TypeOK
  <2> QED BY <1>1, <1>2, <1>3, <2>1, <2>2 DEF TypeOK
<1>5. PhaseInv' /\ InTurn' /\ ResultInv'
  BY <1>1, <1>2, <1>3 DEF Inv, PhaseInv, InTurn, ResultInv, ZeroPoint
<1>6. Cleared'
  <2> SUFFICES ASSUME NEW q \in Row, NEW x \in Bucket, <<q, x>> \notin todo'
               PROVE  buckets'[q][x] = ZeroPoint
    BY <1>3 DEF Cleared, ZeroPoint
  <2>1. CASE q = r /\ x = k
    BY <2>1, <1>1, <1>2, Types
  <2>2. CASE ~ (q = r /\ x = k)
    <3>1. <<q, x>> \notin todo /\ pc[q] = "idle"
      BY <2>2, <1>1, <1>2 DEF Row
    <3>2. buckets[q][x] = ZeroPoint
      BY <3>1, <1>2 DEF Inv, Cleared
    <3> QED BY <2>2, <3>2, <1>1, <1>2, Types
  <2> QED BY <2>1, <2>2
<1>7. ASSUME NEW j \in Window PROVE WindowInv(j)'
  BY <1>1, <1>2, Undisturbed DEF Working
<1> QED BY <1>3, <1>4, <1>5, <1>6, <1>7 DEF Inv

(* The other steps change no window. *)
LEMMA NoWindowStep ==
  ASSUME Inv, UNCHANGED <<operands, pc, i, registers, buckets, windowSums>>
  PROVE  /\ Window' = Window /\ NumWindows' = NumWindows /\ NumBuckets' = NumBuckets
         /\ Row' = Row /\ Bucket' = Bucket
         /\ scalars' = scalars /\ parallel' = parallel /\ bitsPerWindow' = bitsPerWindow
         /\ \A m : From(m)' = From(m)
         /\ InTurn' /\ \A j \in Window' : WindowInv(j)'
<1>1. /\ Window' = Window /\ NumWindows' = NumWindows /\ NumBuckets' = NumBuckets
      /\ Row' = Row /\ Bucket' = Bucket
      /\ scalars' = scalars /\ parallel' = parallel /\ bitsPerWindow' = bitsPerWindow
      /\ \A m : From(m)' = From(m)
  BY OperandsFixed
<1>2. InTurn'
  BY <1>1 DEF Inv, InTurn
<1>3. ASSUME NEW j \in Window PROVE WindowInv(j)'
  BY Undisturbed DEF registers
<1> QED BY <1>1, <1>2, <1>3

LEMMA StartWindowsInv ==
  ASSUME Inv, StartWindows
  PROVE  Inv'
<1>1. /\ phase = "init" /\ todo = {} /\ phase' = "windows" /\ todo' = todo /\ buckets' = buckets
      /\ UNCHANGED <<operands, pc, i, registers, buckets, windowSums>>
      /\ UNCHANGED <<cursor, acc, result>> /\ pc' = pc
  BY DEF StartWindows
<1>2. /\ Window' = Window /\ NumWindows' = NumWindows /\ NumBuckets' = NumBuckets
      /\ Row' = Row /\ Bucket' = Bucket /\ scalars' = scalars /\ parallel' = parallel /\ bitsPerWindow' = bitsPerWindow
      /\ InTurn' /\ \A j \in Window' : WindowInv(j)'
  BY <1>1, NoWindowStep
<1>3. TypeOK'
  BY <1>1, <1>2 DEF Inv, TypeOK, registers
<1>4. PhaseInv' /\ ResultInv' /\ Cleared'
  BY <1>1, <1>2 DEF Inv, PhaseInv, ResultInv, Cleared, ZeroPoint
<1> QED BY <1>2, <1>3, <1>4 DEF Inv

(* Nothing is above the highest window. *)
LEMMA FromTop ==
  ASSUME TypeOK
  PROVE  From(NumWindows) = ZeroPoint
<1>1. bitsPerWindow \in 1 .. ScalarBits /\ \A t \in Term : scalars[t] \in Scalar
  BY Types
<1>2. 2^bitsPerWindow \in Nat
  BY <1>1, Sizes
<1>3. \A t \in Term : scalars[t] \div 2^(bitsPerWindow * NumWindows) = 0
  BY <1>1, NothingAbove
<1>4. 2^bitsPerWindow * 0 = 0
  BY <1>2
<1> QED BY <1>3, <1>4 DEF From, ZeroPoint

LEMMA JoinWindowsInv ==
  ASSUME Inv, JoinWindows
  PROVE  Inv'
<1>1. /\ phase = "windows" /\ (\A j \in Window : pc[j] = "done") /\ phase' = "combine"
      /\ todo' = todo /\ buckets' = buckets /\ pc' = pc
      /\ UNCHANGED <<operands, pc, i, registers, buckets, windowSums>>
      /\ UNCHANGED <<cursor, acc, result>>
  BY DEF JoinWindows
<1>2. /\ Window' = Window /\ NumWindows' = NumWindows /\ NumBuckets' = NumBuckets
      /\ Row' = Row /\ Bucket' = Bucket /\ scalars' = scalars /\ parallel' = parallel /\ bitsPerWindow' = bitsPerWindow
      /\ (\A m : From(m)' = From(m)) /\ InTurn' /\ \A j \in Window' : WindowInv(j)'
  BY <1>1, NoWindowStep
<1>3. TypeOK'
  BY <1>1, <1>2 DEF Inv, TypeOK, registers
<1>4. PhaseInv' /\ Cleared'
  BY <1>1, <1>2 DEF Inv, PhaseInv, Cleared, ZeroPoint
<1>5. ResultInv'
  <2>1. cursor = 1 /\ acc = ZeroPoint /\ result = None /\ NumWindows \in Nat
    BY <1>1, Types DEF Inv, ResultInv
  <2>2. NumWindows - cursor + 1 = NumWindows
    BY <2>1
  <2>3. acc = From(NumWindows - cursor + 1)
    BY <2>1, <2>2, FromTop DEF Inv
  <2> QED BY <1>1, <1>2, <2>1, <2>3 DEF ResultInv
<1> QED BY <1>2, <1>3, <1>4, <1>5 DEF Inv

(* Adding a window to what is above it. *)
LEMMA FromNext ==
  ASSUME TypeOK, NEW m \in Window
  PROVE  Add(From(m + 1), Digits(m)) = [t \in Term |-> scalars[t] \div 2^(bitsPerWindow * m)]
<1>1. bitsPerWindow \in 1 .. ScalarBits /\ \A t \in Term : scalars[t] \in Scalar
  BY Types
<1>2. \A t \in Term : From(m + 1)[t] + Digits(m)[t] = scalars[t] \div 2^(bitsPerWindow * m)
  BY <1>1, Horner DEF From, Digits
<1> QED BY <1>2 DEF Add

LEMMA CombineWindowInv ==
  ASSUME Inv, CombineWindow
  PROVE  Inv'
<1> DEFINE m == NumWindows - cursor
<1>1. /\ phase = "combine" /\ cursor < NumWindows
      /\ acc' = Doubled(Add(acc, windowSums[m]), bitsPerWindow) /\ cursor' = cursor + 1
      /\ UNCHANGED <<operands, pc, i, registers, buckets, windowSums>>
      /\ phase' = phase /\ todo' = todo /\ result' = result /\ pc' = pc /\ buckets' = buckets
  BY DEF CombineWindow
<1>2. /\ Window' = Window /\ NumWindows' = NumWindows /\ NumBuckets' = NumBuckets
      /\ Row' = Row /\ Bucket' = Bucket /\ scalars' = scalars /\ parallel' = parallel /\ bitsPerWindow' = bitsPerWindow
      /\ (\A x : From(x)' = From(x)) /\ InTurn' /\ \A j \in Window' : WindowInv(j)'
  BY <1>1, NoWindowStep
<1>3. TypeOK /\ NumWindows \in Nat /\ cursor \in 1 .. NumWindows /\ acc \in Combination
  BY Types DEF Inv, TypeOK
<1>4. m \in Window /\ m + 1 = NumWindows - cursor + 1 /\ NumWindows - (cursor + 1) + 1 = m
  BY <1>1, <1>3 DEF Window
<1> HIDE DEF m
<1>5. windowSums[m] = Digits(m) /\ acc = From(m + 1) /\ result = None
  BY <1>1, <1>4 DEF Inv, PhaseInv, WindowInv, ResultInv
<1>6. acc' = From(m)
  <2>1. Add(acc, windowSums[m]) = [t \in Term |-> scalars[t] \div 2^(bitsPerWindow * m)]
    BY <1>3, <1>4, <1>5, FromNext
  <2> QED BY <1>1, <2>1 DEF Doubled, From
<1>7. acc' \in Combination
  <2>1. Add(acc, windowSums[m]) \in Combination
    BY <1>3, <1>4, Types, GroupFacts
  <2>2. 2^bitsPerWindow \in Nat
    BY <1>3, Sizes, Types
  <2>3. \A x \in Combination : Doubled(x, bitsPerWindow) \in Combination
    BY <2>2 DEF Doubled, Combination
  <2> QED BY <1>1, <2>1, <2>3
<1>8. TypeOK'
  <2>1. cursor' \in 1 .. NumWindows
    BY <1>1, <1>3
  <2> QED BY <1>1, <1>2, <1>3, <1>7, <2>1 DEF TypeOK, registers
<1>9. PhaseInv' /\ Cleared'
  BY <1>1, <1>2 DEF Inv, PhaseInv, Cleared, ZeroPoint
<1>10. ResultInv'
  <2>1. (NumWindows - cursor + 1)' = m
    BY <1>1, <1>2, <1>4
  <2> QED BY <1>1, <1>2, <1>5, <1>6, <2>1 DEF ResultInv
<1> QED BY <1>2, <1>8, <1>9, <1>10 DEF Inv

(* The lowest window completes the sum: the result is the scalars themselves. *)
LEMMA FinishResult ==
  ASSUME Inv, Finish
  PROVE  result = None /\ result' = scalars
<1>1. phase = "combine" /\ cursor >= NumWindows /\ result' = Add(acc, windowSums[0])
  BY DEF Finish
<1>2. TypeOK /\ NumWindows \in Nat \ {0} /\ cursor \in 1 .. NumWindows
  BY Types DEF Inv, TypeOK
<1>3. 0 \in Window /\ NumWindows - cursor + 1 = 0 + 1
  BY <1>1, <1>2 DEF Window
<1>4. windowSums[0] = Digits(0) /\ acc = From(0 + 1) /\ result = None
  BY <1>1, <1>3 DEF Inv, PhaseInv, WindowInv, ResultInv
<1>5. result' = [t \in Term |-> scalars[t] \div 2^(bitsPerWindow * 0)]
  BY <1>1, <1>2, <1>3, <1>4, FromNext
<1>6. bitsPerWindow * 0 = 0 /\ 2^0 = 1
  BY <1>2, Types
<1>7. \A t \in Term : scalars[t] \div 1 = scalars[t]
  <2> SUFFICES ASSUME NEW t \in Term PROVE scalars[t] \div 1 = scalars[t]
    OBVIOUS
  <2>1. scalars[t] \in Nat
    BY <1>2, Types, ScalarFacts
  <2>2. scalars[t] = 1 * scalars[t] + 0 /\ 0 \in 0 .. 1 - 1
    BY <2>1
  <2> QED BY <2>1, <2>2, DivModUnique
<1>8. result' = [t \in Term |-> scalars[t]]
  BY <1>5, <1>6, <1>7
<1> QED BY <1>2, <1>4, <1>8, Types

LEMMA FinishInv ==
  ASSUME Inv, Finish
  PROVE  Inv'
<1>1. /\ phase = "combine" /\ phase' = "done"
      /\ UNCHANGED <<operands, pc, i, registers, buckets, windowSums>>
      /\ todo' = todo /\ cursor' = cursor /\ acc' = acc /\ pc' = pc /\ buckets' = buckets
  BY DEF Finish
<1>2. /\ Window' = Window /\ NumWindows' = NumWindows /\ NumBuckets' = NumBuckets
      /\ Row' = Row /\ Bucket' = Bucket /\ scalars' = scalars /\ parallel' = parallel /\ bitsPerWindow' = bitsPerWindow
      /\ InTurn' /\ \A j \in Window' : WindowInv(j)'
  BY <1>1, NoWindowStep
<1>3. result' = scalars
  BY FinishResult
<1>4. TypeOK'
  <2>1. scalars \in Combination
    BY Types, ScalarFacts DEF Inv, Combination
  <2> QED BY <1>1, <1>2, <1>3, <2>1 DEF Inv, TypeOK, registers
<1>5. PhaseInv' /\ Cleared' /\ ResultInv'
  BY <1>1, <1>2, <1>3 DEF Inv, PhaseInv, Cleared, ResultInv, ZeroPoint
<1> QED BY <1>2, <1>4, <1>5 DEF Inv

LEMMA StutterInv ==
  ASSUME Inv, UNCHANGED vars
  PROVE  Inv'
<1>1. /\ UNCHANGED <<operands, pc, i, registers, buckets, windowSums>>
      /\ phase' = phase /\ todo' = todo /\ cursor' = cursor /\ acc' = acc /\ result' = result
      /\ pc' = pc /\ buckets' = buckets
  BY DEF vars, operands, registers
<1>2. /\ Window' = Window /\ NumWindows' = NumWindows /\ NumBuckets' = NumBuckets
      /\ Row' = Row /\ Bucket' = Bucket /\ scalars' = scalars /\ parallel' = parallel /\ bitsPerWindow' = bitsPerWindow
      /\ (\A m : From(m)' = From(m)) /\ InTurn' /\ \A j \in Window' : WindowInv(j)'
  BY <1>1, NoWindowStep
<1>3. TypeOK'
  BY <1>1, <1>2 DEF Inv, TypeOK, registers
<1>4. PhaseInv' /\ Cleared' /\ ResultInv'
  BY <1>1, <1>2 DEF Inv, PhaseInv, Cleared, ResultInv, ZeroPoint
<1> QED BY <1>2, <1>3, <1>4 DEF Inv

(* Inv is an invariant. *)
THEOREM InvInvariant == Spec => []Inv
<1>1. ASSUME Inv, NEW j \in Window, WindowStep(j) PROVE Inv'
  BY <1>1, EnterInv, SkipInv, AddUnitInv, LoadBucketInv, StoreBucketInv, StartReductionInv, ReduceBucketInv,
     StoreWindowInv DEF WindowStep
<1>2. Inv /\ [Next]_vars => Inv'
  BY <1>1, ClearBucketInv, StartWindowsInv, JoinWindowsInv, CombineWindowInv, FinishInv, StutterInv
     DEF Next, Terminated
<1> QED BY <1>2, InitInv, PTL DEF Spec

-----------------------------------------------------------------------------
(* The results. *)

(* No two windows that run at the same time are at one bucket, of which one  *)
(* is storing it, so that accumulation and reduction need no lock.           *)
THEOREM NeverRaces == Spec => []NoRace
<1>1. Inv => NoRace
  <2> SUFFICES ASSUME Inv, NEW j \in Window, NEW k \in Window, j # k
               PROVE  Writes(j) \cap (Reads(k) \cup Writes(k)) = {}
    BY DEF NoRace
  <2>1. CASE pc[j] # "store"
    BY <2>1 DEF Writes
  <2>2. CASE pc[j] = "store" /\ pc[k] \notin Working
    BY <2>2 DEF Writes, Reads, Working, Accumulating
  <2>3. CASE pc[j] = "store" /\ pc[k] \in Working
    <3>1. RowOf(k) # RowOf(j)
      BY <2>3, WorkingFacts, RowsApart DEF Working
    <3>2. /\ \A x \in Writes(j) : x[1] = RowOf(j)
          /\ \A x \in Reads(k) \cup Writes(k) : x[1] = RowOf(k)
      BY DEF Writes, Reads
    <3> QED BY <3>1, <3>2
  <2> QED BY <2>1, <2>2, <2>3
<1> QED BY <1>1, InvInvariant, PTL

(* The indices stay in their ranges, a bucket holds the points of its digit  *)
(* while its window accumulates, and a finished window its digit of every    *)
(* scalar.                                                                   *)
THEOREM SumsAlwaysHold == Spec => []SumsHold
<1>1. Inv => BucketsHold
  <2> SUFFICES ASSUME Inv, NEW j \in Window, pc[j] \in {"acc", "store"}, NEW k \in Bucket
               PROVE  buckets[RowOf(j)][k] =
                        [t \in Term |-> IF Placed(j, t) /\ Digit(scalars[t], j) = k + 1 THEN 1 ELSE 0]
    BY DEF BucketsHold
  <2>1. buckets[RowOf(j)][k] = Gathered(j, k, i[j])
    BY DEF Inv, WindowInv
  <2> QED BY <2>1 DEF Gathered, Placed
<1>2. Inv => WindowSumRight
  BY DEF Inv, WindowInv, WindowSumRight, Digits
<1>3. Inv => SumsHold
  BY <1>1, <1>2 DEF Inv, SumsHold
<1> QED BY <1>3, InvInvariant, PTL

(* The whole algorithm, whatever its windows do, is the multi-scalar product *)
(* in one step.                                                              *)
THEOREM ComputesTheSum == Spec => OpSpec
<1>1. Init => Op!Init
  BY DEF Init, Op!Init
<1>2. Inv /\ [Next]_vars => [Op!Multiply]_<<scalars, result>>
  <2> SUFFICES ASSUME Inv, [Next]_vars PROVE [Op!Multiply]_<<scalars, result>>
    OBVIOUS
  <2>1. CASE Finish
    BY <2>1, FinishResult DEF Op!Multiply, Finish, operands
  <2>2. ASSUME NEW j \in Window, WindowStep(j) PROVE UNCHANGED <<scalars, result>>
    BY <2>2 DEF WindowStep, Enter, Skip, AddUnit, LoadBucket, StoreBucket, StartReduction, ReduceBucket,
                StoreWindow, operands
  <2>3. ASSUME NEW r \in Row, NEW k \in Bucket, ClearBucket(r, k) PROVE UNCHANGED <<scalars, result>>
    BY <2>3 DEF ClearBucket, operands
  <2>4. CASE StartWindows \/ JoinWindows \/ CombineWindow \/ Terminated \/ UNCHANGED vars
    BY <2>4 DEF StartWindows, JoinWindows, CombineWindow, Terminated, operands, vars
  <2> QED BY <2>1, <2>2, <2>3, <2>4 DEF Next
<1> QED BY <1>1, <1>2, InvInvariant, PTL DEF Spec, OpSpec, Op!Spec
=============================================================================
