---------------------------- MODULE ReducersProofs ----------------------------
(***************************************************************************)
(* The reductions the lowering emits for a product are correct for every   *)
(* modulus and every width: they yield the residue, in the range the rest  *)
(* of the lowering relies on.  The multi-limb Montgomery reduction has a   *)
(* module of its own, MontRedcProofs.                                      *)
(***************************************************************************)
EXTENDS Reducers, ArithLemmas

\* A modulus of a mod_arith type.
IsModulus == WordSize \in Nat /\ P \in Nat /\ P >= 3 /\ P < WordSize

(* Numbers that differ by a multiple of the modulus have one residue. *)
LEMMA SameResidue ==
  ASSUME NEW b \in Int, NEW m \in Nat, m > 0, NEW k \in Int
  PROVE  (b + m * k) % m = b % m
<1> DEFINE q == b \div m
           r == b % m
           a == b + m * k
<1>1. q \in Int /\ r \in 0 .. m - 1 /\ b = m * q + r
  BY DivModBasics
<1>2. a = m * (q + k) + r /\ a \in Int
  <2>1. m * (q + k) = m * q + m * k
    BY <1>1
  <2> QED BY <1>1, <2>1
<1>3. q + k \in Int
  BY <1>1
<1> HIDE DEF q, r, a
<1>4. a % m = r
  BY <1>1, <1>2, <1>3, DivModUnique
<1> QED BY <1>4 DEF a, r

(* A number below the modulus is its own residue. *)
LEMMA OwnResidue ==
  ASSUME NEW a \in Int, NEW m \in Nat, m > 0, NEW k \in Int, NEW x \in 0 .. m - 1,
         x = a + m * k
  PROVE  x = a % m
<1>1. a = m * (-k) + x
  <2>1. m * (-k) = -(m * k)
    OBVIOUS
  <2> QED BY <2>1
<1>2. -k \in Int /\ m \in Nat /\ m > 0
  OBVIOUS
<1> DEFINE j == -k
<1> HIDE DEF j
<1>3. j \in Int /\ a = m * j + x
  BY <1>1, <1>2 DEF j
<1> QED BY <1>3, DivModUnique

(* Below twice the modulus one conditional subtraction yields the residue.   *)
LEMMA OneSubtraction ==
  ASSUME NEW a \in Int, NEW m \in Nat, m > 0, NEW k \in Int, NEW r \in Int,
         r = a + m * k, 0 <= r, r < 2 * m
  PROVE  (IF r >= m THEN r - m ELSE r) = a % m
<1>1. CASE r >= m
  <2> DEFINE x == r - m
             j == k - 1
  <2>1. x \in 0 .. m - 1 /\ j \in Int
    BY <1>1
  <2>2. x = a + m * j
    <3>1. m * (k - 1) = m * k - m
      BY SMT
    <3> QED BY <3>1
  <2> HIDE DEF x, j
  <2>3. x = a % m
    BY <2>1, <2>2, OwnResidue
  <2> QED BY <1>1, <2>3 DEF x
<1>2. CASE ~ r >= m
  <2>1. r \in 0 .. m - 1
    BY <1>2
  <2>2. r = a % m
    BY <2>1, OwnResidue
  <2> QED BY <1>2, <2>2
<1> QED BY <1>1, <1>2

-----------------------------------------------------------------------------
(* BarrettReducer::reduce: for canonical operands the quotient estimated     *)
(* with floor(2^2w / p) is at most one too small, so that its single         *)
(* conditional subtraction makes the result canonical.                       *)
THEOREM BarrettReduces ==
  ASSUME IsModulus, NEW x \in 0 .. P - 1, NEW y \in 0 .. P - 1
  PROVE  BarrettReduce(x, y).word = (x * y) % P
<1> USE DEF IsModulus
<1> DEFINE prod == x * y
           D    == WordSize * WordSize
           mu   == D \div P
           s    == D % P
           q    == (prod * mu) \div D
           z    == (prod * mu) % D
           r    == prod - q * P
<1>1. D \in Nat /\ D > 0 /\ prod \in Nat /\ prod < D
  <2>1. x * y <= x * WordSize /\ WordSize * x <= WordSize * (WordSize - 1)
    BY MulMono
  <2>2. x * WordSize = WordSize * x /\ WordSize * (WordSize - 1) < WordSize * WordSize
    BY SMT
  <2> QED BY <2>1, <2>2, SMT
<1>2. mu \in Int /\ s \in 0 .. P - 1 /\ D = P * mu + s
  BY <1>1, DivModBasics
<1>3. mu \in Nat
  BY <1>1, <1>2, SMT
<1>4. q \in Int /\ z \in 0 .. D - 1 /\ prod * mu = D * q + z
  BY <1>1, <1>3, DivModBasics
<1>5. q >= 0
  BY <1>1, <1>3, <1>4, SMT
<1> HIDE DEF prod, D, mu, s, q, z
\* q * P * D lies between prod * D - 2 P D and prod * D.
<1>6. (prod - q * P) * D = prod * s + z * P
  <2>1. (prod * mu) * P = prod * (D - s)
    <3>1. (prod * mu) * P = prod * (P * mu) /\ P * mu = D - s
      BY <1>1, <1>2, <1>3, SMT
    <3> QED BY <3>1
  <2>2. (prod * mu) * P = (D * q + z) * P
    BY <1>4
  <2>3. (D * q + z) * P = (q * P) * D + z * P
    BY <1>1, <1>4, SMT
  <2>4. prod * (D - s) = prod * D - prod * s /\ (prod - q * P) * D = prod * D - (q * P) * D
    BY <1>1, <1>2, <1>4, SMT
  <2> QED BY <2>1, <2>2, <2>3, <2>4, <1>1, <1>2, <1>4, SMT
<1>7. /\ 0 <= prod * s /\ prod * s <= prod * P /\ 0 <= z * P
      /\ P * prod <= P * (D - 1) /\ P * z <= P * (D - 1)
  BY <1>1, <1>2, <1>4, MulMono, SMT
<1>8. 0 <= (prod - q * P) * D /\ (prod - q * P) * D < (2 * P) * D
  <2>1. P * (D - 1) < P * D /\ prod * P = P * prod /\ z * P = P * z
    BY <1>1, <1>4, SMT
  <2>2. (2 * P) * D = P * D + P * D
    BY <1>1, SMT
  <2> QED BY <1>6, <1>7, <2>1, <2>2, <1>1, <1>2, <1>4, SMT
<1>9. r \in Int /\ 0 <= r /\ r < 2 * P
  <2> DEFINE v == prod - q * P
  <2>1. v \in Int
    BY <1>1, <1>4
  <2> HIDE DEF v
  <2>2. 0 <= v * D /\ v * D < (2 * P) * D
    BY <1>8 DEF v
  <2>3. ~ v < 0
    BY <1>1, <2>1, <2>2, SMT
  <2>4. ~ v >= 2 * P
    <3>1. v >= 2 * P => D * (2 * P) <= D * v
      BY <1>1, <2>1, MulMono
    <3> QED BY <1>1, <2>1, <2>2, <3>1, SMT
  <2> QED BY <2>1, <2>3, <2>4 DEF v
<1>10. BarrettReduce(x, y).word = IF r >= P THEN r - P ELSE r
  BY DEF BarrettReduce, Plain, prod, D, mu, q
<1>11. r = prod + P * (-q) /\ -q \in Int /\ P > 0
  BY <1>1, <1>4, <1>9, SMT
<1> DEFINE k == -q
<1> HIDE DEF r, k
<1>12. (IF r >= P THEN r - P ELSE r) = prod % P
  <2>1. k \in Int /\ r = prod + P * k
    BY <1>11 DEF k
  <2>2. P \in Nat /\ P > 0 /\ prod \in Int /\ r \in Int /\ 0 <= r /\ r < 2 * P
    BY <1>1, <1>9, <1>11
  <2> QED BY ONLY <2>1, <2>2, OneSubtraction, Zenon
<1> QED BY <1>10, <1>12 DEF prod, r

(* The Mersenne branch of ConvertMul: the two halves of a product of         *)
(* canonical operands add up to less than twice the modulus.                 *)
THEOREM MersenneReduces ==
  ASSUME IsModulus, NEW t \in 0 .. (P - 1) * (P - 1)
  PROVE  MersenneReduce(t).word = t % P
<1> USE DEF IsModulus
<1> DEFINE a == t \div (P + 1)
           b == t % (P + 1)
           r == a + b
           k == -a
<1>1. t \in Nat /\ P + 1 \in Nat /\ P + 1 > 0
  BY SMT
<1>2. a \in Int /\ b \in 0 .. P /\ t = (P + 1) * a + b
  BY <1>1, DivModBasics
<1>3. t < (P + 1) * (P - 1)
  BY SMT
<1>4. a \in 0 .. P - 2
  <2>1. P - 1 \in Nat
    BY SMT
  <2> HIDE DEF a
  <2>2. t \div (P + 1) \in 0 .. (P - 1) - 1
    BY ONLY <1>1, <1>3, <2>1, DivBound
  <2> QED BY <2>2 DEF a
<1> HIDE DEF a, b
<1>5. r \in Int /\ 0 <= r /\ r < 2 * P /\ k \in Int /\ r = t + P * k
  BY <1>1, <1>2, <1>4, SMT
<1>6. MersenneReduce(t).word = IF r >= P THEN r - P ELSE r
  BY DEF MersenneReduce, Plain, a, b
<1>7. P \in Nat /\ P > 0 /\ t \in Int
  BY <1>1
<1> HIDE DEF r, k
<1>8. (IF r >= P THEN r - P ELSE r) = t % P
  BY ONLY <1>5, <1>7, OneSubtraction, Zenon
<1> QED BY <1>6, <1>8

-----------------------------------------------------------------------------
\* The modulus is odd and the size of a word a power of two: it has an inverse.
Invertible == \E x \in Word : (P * x) % WordSize = 1

(* montAttr.getNInv() is that inverse.                                       *)
LEMMA HasNInv ==
  ASSUME Invertible
  PROVE  NInv \in Word /\ (P * NInv) % WordSize = 1
BY DEF Invertible, NInv

(* reduceSingleLimb: the multiple of the modulus with the low word of t is   *)
(* m * n for m = t * n^-1.                                                   *)
LEMMA LowWordCancels ==
  ASSUME IsModulus, Invertible, NEW t \in Int, NEW m \in Int, NEW j \in Int,
         m = MulI(Low(t), NInv) + WordSize * j
  PROVE  /\ Low(m * P) = Low(t)
         /\ \E v \in Int : t = m * P + WordSize * v
<1> USE DEF IsModulus
<1> DEFINE lo == t % WordSize
           hi == t \div WordSize
           c  == lo * NInv
           cq == c \div WordSize
           w  == c % WordSize
           e  == (P * NInv) \div WordSize
<1>0. WordSize \in Nat /\ WordSize > 0 /\ NInv \in Int
  BY HasNInv, SMT DEF Word
<1>1. lo \in Int /\ hi \in Int /\ t = WordSize * hi + lo
  BY <1>0, DivModBasics
<1>2. cq \in Int /\ w \in Int /\ c = WordSize * cq + w /\ c \in Int
  BY <1>0, <1>1, DivModBasics
<1>3. e \in Int /\ P * NInv = WordSize * e + 1
  <2>1. P * NInv \in Int
    BY <1>0
  <2> QED BY <2>1, <1>0, DivModBasics, HasNInv
<1>4. m = w + WordSize * j
  BY DEF MulI, Low
<1> HIDE DEF hi, cq, w, e
<1>5. c * P = lo * (WordSize * e + 1)
  <2>1. c * P = lo * (P * NInv)
    BY <1>0, <1>1, SMT
  <2> QED BY <2>1, <1>3
<1> DEFINE v == hi - lo * e + cq * P - j * P
<1>6. v \in Int
  BY <1>0, <1>1, <1>2, <1>3
<1>7. t = m * P + WordSize * v
  <2>1. m * P = (c - WordSize * cq) * P + WordSize * (j * P)
    BY <1>0, <1>2, <1>4, SMT
  <2>2. (c - WordSize * cq) * P = c * P - WordSize * (cq * P)
    BY <1>0, <1>2, SMT
  <2>3. lo * (WordSize * e + 1) = WordSize * (lo * e) + lo
    BY <1>0, <1>1, <1>3, SMT
  <2>4. WordSize * v = WordSize * hi - WordSize * (lo * e) + WordSize * (cq * P) - WordSize * (j * P)
    BY <1>0, <1>1, <1>2, <1>3, SMT
  <2> DEFINE mp == m * P
             cp == c * P
             x1 == WordSize * hi
             x2 == WordSize * (lo * e)
             x3 == WordSize * (cq * P)
             x4 == WordSize * (j * P)
             y  == WordSize * v
  <2>5. /\ mp = cp - x3 + x4 /\ cp = x2 + lo /\ y = x1 - x2 + x3 - x4 /\ t = x1 + lo
    BY <2>1, <2>2, <2>3, <2>4, <1>1, <1>5
  <2>6. {mp, cp, x1, x2, x3, x4, y, lo} \subseteq Int
    BY <1>0, <1>1, <1>2, <1>3, <1>6
  <2> HIDE DEF mp, cp, x1, x2, x3, x4, y, lo
  <2>7. t = mp + y
    BY <2>5, <2>6
  <2> QED BY <2>7 DEF mp, y
<1> HIDE DEF v, lo, c
<1>8. Low(m * P) = Low(t)
  <2> DEFINE mp == m * P
             k == hi - v
  <2>1. k \in Int /\ mp \in Int /\ mp = WordSize * k + lo
    BY <1>0, <1>1, <1>6, <1>7, SMT
  <2>2. lo \in 0 .. WordSize - 1
    BY <1>0, DivModBasics DEF lo
  <2> HIDE DEF k, mp
  <2>3. mp % WordSize = lo
    BY <1>0, <2>1, <2>2, DivModUnique
  <2> QED BY <2>3 DEF Low, mp, lo
<1> QED BY <1>6, <1>7, <1>8

(* The low words being equal, the difference of the high words is the exact  *)
(* quotient, cut to a word.                                                  *)
LEMMA HighDifference ==
  ASSUME IsModulus, NEW u \in Int, NEW v \in Int
  PROVE  /\ SubI(High(u + WordSize * v), High(u)) = v % WordSize
         /\ (u + WordSize * v) \div WordSize = (u \div WordSize) + v
<1> DEFINE t == u + WordSize * v
           x == t \div WordSize
           y == u \div WordSize
           r == u % WordSize
           a == x \div WordSize
           b == y \div WordSize
           d == (x % WordSize) - (y % WordSize)
           k == b - a
<1>0. WordSize \in Nat /\ WordSize > 0
  BY SMT DEF IsModulus
<1>1. y \in Int /\ r \in 0 .. WordSize - 1 /\ u = WordSize * y + r
  BY <1>0, DivModBasics
<1>t. t \in Int /\ t = u + WordSize * v
  BY <1>0
<1> HIDE DEF t, x, y, r
<1>2. x = y + v
  <2> DEFINE q == y + v
  <2>1. q \in Int /\ t = WordSize * q + r
    BY <1>0, <1>1, <1>t, SMT
  <2> HIDE DEF q
  <2>2. t \div WordSize = q
    BY <1>0, <1>1, <1>t, <2>1, DivModUnique
  <2> QED BY <2>2 DEF x, q
<1>3. x \in Int
  BY <1>1, <1>2
<1>4. /\ a \in Int /\ x % WordSize \in 0 .. WordSize - 1 /\ x = WordSize * a + (x % WordSize)
      /\ b \in Int /\ y % WordSize \in 0 .. WordSize - 1 /\ y = WordSize * b + (y % WordSize)
  BY <1>0, <1>1, <1>3, DivModBasics
<1>5. d \in Int /\ k \in Int /\ d = v + WordSize * k
  <2> DEFINE xr == x % WordSize
             yr == y % WordSize
  <2>1. a \in Int /\ b \in Int /\ xr \in Int /\ yr \in Int
    BY <1>4
  <2>2. x = WordSize * a + xr /\ y = WordSize * b + yr
    BY <1>4
  <2> HIDE DEF a, b, xr, yr
  <2>3. WordSize * (b - a) = WordSize * b - WordSize * a
    BY <1>0, <2>1
  <2>4. xr - yr = v + WordSize * (b - a)
    BY <1>0, <1>1, <1>2, <1>3, <2>1, <2>2, <2>3
  <2> QED BY <2>1, <2>4 DEF xr, yr
<1> HIDE DEF d, k
<1>6. (v + WordSize * k) % WordSize = v % WordSize
  BY <1>0, <1>5, SameResidue
<1> QED BY <1>2, <1>5, <1>6 DEF SubI, High, d, x, y, t

(* A small difference cut to a word, and the modulus added to it.            *)
LEMMA WordOfDifference ==
  ASSUME IsModulus, NEW v \in -(P - 1) .. P - 1
  PROVE  /\ v >= 0 => v % WordSize = v
         /\ v < 0 => v % WordSize = v + WordSize
         /\ v < 0 => AddI(v % WordSize, P) = v + P
         /\ ~ SignBitSet => AddI(v % WordSize, P) = v + P
<1> USE DEF IsModulus
<1>0. WordSize \in Nat /\ WordSize > 0 /\ P \in Nat /\ P < WordSize /\ v \in Int
  BY SMT
<1>1. ASSUME v >= 0 PROVE v % WordSize = v
  <2>1. v \in Nat /\ v < WordSize
    BY <1>0, <1>1
  <2> QED BY <2>1, <1>0, DivSmall
<1>2. ASSUME v < 0 PROVE v % WordSize = v + WordSize
  <2> DEFINE r == v + WordSize
             q == -1
  <2>1. r \in 0 .. WordSize - 1 /\ q \in Int /\ v = WordSize * q + r
    BY <1>0, <1>2
  <2> HIDE DEF r, q
  <2>2. v % WordSize = r
    BY <1>0, <2>1, DivModUnique
  <2> QED BY <2>2 DEF r
<1>3. ASSUME v < 0 PROVE AddI(v % WordSize, P) = v + P
  <2> DEFINE r == v + P
             q == 1
             s == (v + WordSize) + P
  <2>1. r \in 0 .. WordSize - 1 /\ q \in Int /\ s \in Int /\ s = WordSize * q + r
    BY <1>0, <1>3
  <2> HIDE DEF r, q, s
  <2>2. s % WordSize = r
    BY <1>0, <2>1, DivModUnique
  <2> QED BY <2>2, <1>2, <1>3 DEF AddI, r, s
<1>4. ASSUME ~ SignBitSet PROVE AddI(v % WordSize, P) = v + P
  <2>1. CASE v < 0
    BY <2>1, <1>3
  <2>2. CASE v >= 0
    <3> DEFINE r == v + P
    <3>1. r \in Nat /\ r < WordSize
      BY <1>0, <1>4, <2>2 DEF SignBitSet
    <3>2. r % WordSize = r
      BY <3>1, <1>0, DivSmall
    <3> QED BY <3>2, <1>1, <2>2 DEF AddI
  <2> QED BY <2>1, <2>2, <1>0
<1> QED BY <1>1, <1>2, <1>3, <1>4

(* getCanonicalDiff in both its forms: a difference above minus the modulus  *)
(* is lifted by the modulus exactly when it is negative.  With the sign bit  *)
(* in use the comparison must be of the numbers themselves.                  *)
LEMMA CanonicalDiffLifts ==
  ASSUME IsModulus, NEW v \in -(P - 1) .. P - 1, NEW x \in Word, NEW y \in Word,
         SubI(x, y) = v % WordSize, SignBitSet => x - y = v
  PROVE  CanonicalDiff(x, y).word = IF v < 0 THEN v + P ELSE v
<1> USE DEF IsModulus
<1>0. P \in Nat /\ WordSize \in Nat /\ P < WordSize /\ v \in Int /\ x \in Int /\ y \in Int
  BY SMT DEF Word
<1>1. CASE SignBitSet
  <2>1. x < y <=> v < 0
    BY <1>0, <1>1
  <2>2. CanonicalDiff(x, y).word = IF v < 0 THEN AddI(v % WordSize, P) ELSE v % WordSize
    BY <1>1, <2>1 DEF CanonicalDiff, Plain
  <2>3. CASE v < 0
    <3>1. AddI(v % WordSize, P) = v + P
      BY <2>3, WordOfDifference
    <3> QED BY <2>2, <2>3, <3>1
  <2>4. CASE ~ v < 0
    <3>1. v % WordSize = v
      BY <1>0, <2>4, WordOfDifference
    <3> QED BY <2>2, <2>4, <3>1
  <2> QED BY <2>3, <2>4
<1>2. CASE ~ SignBitSet
  <2>1. CanonicalDiff(x, y).word = MinUI(v % WordSize, v + P)
    BY <1>2, WordOfDifference DEF CanonicalDiff, MinOp
  <2>2. CASE v < 0
    <3>1. v % WordSize = v + WordSize
      BY <2>2, WordOfDifference
    <3> QED BY <1>0, <2>1, <2>2, <3>1 DEF MinUI
  <2>3. CASE v >= 0
    <3>1. v % WordSize = v
      BY <2>3, WordOfDifference
    <3> QED BY <1>0, <2>1, <2>3, <3>1 DEF MinUI
  <2> QED BY <1>0, <2>2, <2>3
<1> QED BY <1>1, <1>2

\* What the callers of reduce() guarantee: a product below the modulus times
\* R or, of signed forms, one of at most half that size.
ReducesFrom(t, fromSigned) ==
  IF fromSigned THEN /\ ~ SignBitSet
                     /\ -(P * WordSize) < 2 * t
                     /\ 2 * t < P * WordSize
  ELSE 0 <= t /\ t < P * WordSize

(* The quotient of a single-limb reduction lies between the modulus and its  *)
(* negative, for signed products as well.                                    *)
LEMMA QuotientBounds ==
  ASSUME IsModulus, Invertible, NEW t \in Int, NEW fromSigned \in BOOLEAN,
         ReducesFrom(t, fromSigned), NEW m, NEW v \in Int,
         m = IF fromSigned THEN Signed(MulI(Low(t), NInv)) ELSE MulI(Low(t), NInv),
         t = m * P + WordSize * v
  PROVE  v \in -(P - 1) .. P - 1
<1> USE DEF IsModulus
<1> DEFINE w == MulI(Low(t), NInv)
           WP == P * WordSize
           mp == m * P
           wv == WordSize * v
<1>0. WordSize \in Nat /\ WordSize > 0 /\ P \in Nat /\ P > 0
  BY SMT
<1>1. w \in 0 .. WordSize - 1
  <2>1. Low(t) * NInv \in Int
    <3>1. Low(t) \in Int
      BY <1>0, DivModBasics DEF Low
    <3>2. NInv \in Int
      BY <1>0, HasNInv DEF Word
    <3> QED BY <3>1, <3>2
  <2> QED BY <1>0, <2>1, DivModBasics DEF MulI
<1>2. m \in Int
  BY <1>0, <1>1 DEF Signed
<1>3. -WP < wv /\ wv < WP
  <2>0. mp \in Int /\ wv \in Int /\ WP \in Int /\ t = mp + wv
    BY <1>0, <1>2
  <2>1. CASE ~ fromSigned
    <3>1. m = w /\ 0 <= t /\ t < WP
      BY <2>1 DEF ReducesFrom
    <3>2. P * 0 <= P * m /\ P * m <= P * (WordSize - 1)
      BY <1>0, <1>1, <1>2, <3>1, MulMono
    <3>3. P * m = mp /\ P * 0 = 0 /\ P * (WordSize - 1) < WP /\ P * (WordSize - 1) \in Int
      BY <1>0, <1>2
    <3> HIDE DEF mp, wv, WP
    <3> QED BY ONLY <2>0, <3>1, <3>2, <3>3
  <2>2. CASE fromSigned
    <3>1. -WP < 2 * t /\ 2 * t < WP
      BY <2>2 DEF ReducesFrom
    <3>2. -WordSize <= 2 * m /\ 2 * m < WordSize
      BY <1>0, <1>1, <2>2 DEF Signed
    <3>3. P * (-WordSize) <= P * (2 * m) /\ P * (2 * m) <= P * WordSize
      BY <1>0, <1>2, <3>2, MulMono
    <3>4. P * (2 * m) = 2 * mp /\ P * (-WordSize) = -WP
      BY <1>0, <1>2
    <3>5. -WP <= 2 * mp /\ 2 * mp <= WP
      BY <3>3, <3>4
    <3> HIDE DEF mp, wv, WP
    <3> QED BY ONLY <2>0, <3>1, <3>5
  <2> QED BY <2>1, <2>2
<1> HIDE DEF mp, w
<1>4. ~ v >= P
  <2>1. v >= P => WordSize * P <= WordSize * v
    BY <1>0, MulMono
  <2> QED BY <1>0, <1>3, <2>1
<1>5. ~ v <= -P
  <2>1. v <= -P => WordSize * v <= WordSize * (-P)
    BY <1>0, MulMono
  <2>2. WordSize * (-P) = -WP
    BY <1>0
  <2> QED BY <1>0, <1>3, <2>1, <2>2
<1> QED BY <1>0, <1>4, <1>5

(* reduceSingleLimb: from high words alone, for products of words and of     *)
(* signed forms, the Montgomery residue comes out canonical, or below twice  *)
(* the modulus when the caller is content with that.                         *)
THEOREM SingleLimbReduces ==
  ASSUME IsModulus, Invertible, NEW t \in Int,
         NEW fromSigned \in BOOLEAN, ReducesFrom(t, fromSigned),
         NEW lazy \in BOOLEAN, lazy => ~ SignBitSet
  PROVE  /\ ReduceSingleLimb(t, fromSigned, lazy).word \in 0 .. (IF lazy THEN 2 * P ELSE P) - 1
         /\ (WordSize * ReduceSingleLimb(t, fromSigned, lazy).word) % P = t % P
<1> USE DEF IsModulus
<1> DEFINE w == MulI(Low(t), NInv)
           m == IF fromSigned THEN Signed(w) ELSE w
           u == m * P
           r == ReduceSingleLimb(t, fromSigned, lazy).word
<1>0. WordSize \in Nat /\ WordSize > 0 /\ P \in Nat /\ P > 0
  BY SMT
<1>1. w \in 0 .. WordSize - 1
  <2>1. Low(t) * NInv \in Int
    <3>1. Low(t) \in Int
      BY <1>0, DivModBasics DEF Low
    <3>2. NInv \in Int
      BY <1>0, HasNInv DEF Word
    <3> QED BY <3>1, <3>2
  <2> QED BY <1>0, <2>1, DivModBasics DEF MulI
<1> HIDE DEF w
<1>2. \E j \in {0, -1} : m = w + WordSize * j
  <2>1. m = w + WordSize * 0 \/ m = w + WordSize * (-1)
    BY <1>0, <1>1 DEF Signed
  <2> QED BY <2>1
<1>3. m \in Int /\ u \in Int
  BY <1>0, <1>1 DEF Signed
<1>4. PICK v \in Int : t = m * P + WordSize * v
  <2>1. PICK j \in {0, -1} : m = w + WordSize * j
    BY <1>2
  <2> HIDE DEF m
  <2>2. j \in Int /\ m \in Int /\ m = MulI(Low(t), NInv) + WordSize * j
    BY <1>3, <2>1 DEF w
  <2> QED BY <2>2, LowWordCancels
<1>5. v \in -(P - 1) .. P - 1
  BY <1>4, QuotientBounds DEF w
<1>6. SubI(High(t), High(u)) = v % WordSize /\ (t \div WordSize) = (u \div WordSize) + v
  <2>1. u + WordSize * v = t
    BY <1>3, <1>4
  <2> HIDE DEF u
  <2>2. /\ SubI(High(u + WordSize * v), High(u)) = v % WordSize
        /\ (u + WordSize * v) \div WordSize = (u \div WordSize) + v
    BY <1>3, HighDifference
  <2> QED BY ONLY <2>1, <2>2, Zenon
<1>7. r = IF lazy THEN AddI(SubI(High(t), High(u)), P) ELSE CanonicalDiff(High(t), High(u)).word
  BY DEF ReduceSingleLimb, AddOp, w
<1> HIDE DEF m, r
<1>8. \E k \in {0, 1} : r = v + P * k /\ r \in 0 .. (IF lazy THEN 2 * P ELSE P) - 1
  <2>1. CASE lazy
    <3>1. r = v + P
      BY <1>5, <1>6, <1>7, <2>1, WordOfDifference
    <3>2. r = v + P * 1 /\ r \in 0 .. 2 * P - 1
      BY <1>0, <1>5, <3>1
    <3> QED BY <2>1, <3>2
  <2>2. CASE ~ lazy
    <3>1. High(t) \in Word /\ High(u) \in Word
      BY <1>0, <1>3, DivModBasics DEF High, Word
    <3>2. ASSUME SignBitSet PROVE High(t) - High(u) = v
      <4>1. ~ fromSigned /\ m \in 0 .. WordSize - 1 /\ t \in Nat /\ t < P * WordSize
        BY <1>1, <3>2 DEF ReducesFrom, m
      <4>2. u \in Nat /\ u < WordSize * P
        <5>1. P * 0 <= P * m /\ P * m <= P * (WordSize - 1)
          BY <1>0, <4>1, MulMono
        <5>2. P * m = u /\ P * 0 = 0 /\ P * (WordSize - 1) < WordSize * P
          BY <1>0, <1>3
        <5> HIDE DEF u
        <5> QED BY <1>3, <5>1, <5>2
      <4>3. t < WordSize * P
        BY <1>0, <4>1
      <4> HIDE DEF u
      <4>4. (t \div WordSize) \in 0 .. P - 1 /\ (u \div WordSize) \in 0 .. P - 1
        BY <1>0, <4>1, <4>2, <4>3, DivBound
      <4>5. High(t) = t \div WordSize /\ High(u) = u \div WordSize
        <5>1. ASSUME NEW z \in 0 .. P - 1 PROVE z % WordSize = z
          <6>1. z \in Nat /\ z < WordSize
            OBVIOUS
          <6> QED BY <1>0, <6>1, DivSmall
        <5> QED BY <4>4, <5>1 DEF High
      <4> QED BY <1>6, <4>4, <4>5
    <3>3. r = IF v < 0 THEN v + P ELSE v
      BY <1>5, <1>6, <1>7, <2>2, <3>1, <3>2, CanonicalDiffLifts
    <3>4. CASE v < 0
      <4>1. r = v + P * 1 /\ r \in 0 .. P - 1
        BY <1>0, <1>5, <3>3, <3>4
      <4> QED BY <2>2, <4>1
    <3>5. CASE ~ v < 0
      <4>1. r = v + P * 0 /\ r \in 0 .. P - 1
        BY <1>0, <1>5, <3>3, <3>5
      <4> QED BY <2>2, <4>1
    <3> QED BY <3>4, <3>5
  <2> QED BY <2>1, <2>2
<1>9. PICK k \in {0, 1} : r = v + P * k
  BY <1>8
<1>10. (WordSize * r) % P = t % P
  <2> DEFINE n == WordSize * k - m
  <2>1. WordSize * r = t + P * n /\ n \in Int
    <3>1. WordSize * r = WordSize * v + P * (WordSize * k) /\ WordSize * k \in Int
      BY <1>0, <1>5, <1>9
    <3>2. P * (WordSize * k - m) = P * (WordSize * k) - m * P
      BY <1>0, <1>3, <1>9
    <3> QED BY <1>0, <1>3, <1>4, <1>5, <3>1, <3>2
  <2>2. (t + P * n) % P = t % P
    <3> HIDE DEF n
    <3> QED BY <1>0, <2>1, SameResidue
  <2> QED BY <2>1, <2>2
<1> QED BY <1>8, <1>10 DEF r

-----------------------------------------------------------------------------
(* SolinasReducer::reduce: 2^w is worth eps = 2^h - 1 and 2^(w + h) minus    *)
(* one; after the correction of a borrow and of a carry nothing borrows or   *)
(* carries again, whatever words are multiplied, and one conditional         *)
(* subtraction makes the result canonical.                                   *)
THEOREM SolinasReduces ==
  ASSUME \E h \in Nat : h >= 2 /\ WordSize = h * h /\ P = WordSize - h + 1,
         NEW t \in 0 .. (WordSize - 1) * (WordSize - 1), NEW lazy \in BOOLEAN
  PROVE  /\ SolinasReduce(t, lazy).word \in 0 .. (IF lazy THEN WordSize ELSE P) - 1
         /\ SolinasReduce(t, lazy).word % P = t % P
<1> DEFINE half == CHOOSE h \in Word : h * h = WordSize
           eps  == half - 1
           lo   == Low(t)
           hi   == High(t)
           hiHi == hi \div half
           hiLo == hi % half
           raw  == SubI(lo, hiHi)
           t0   == IF lo < hiHi THEN SubI(raw, eps) ELSE raw
           t1   == SubI((hiLo * half) % WordSize, hiLo)
           t2   == IF AddCarry(t0, t1) = 1 THEN AddI(AddSum(t0, t1), eps)
                   ELSE AddSum(t0, t1)
<1>0. half \in Nat /\ half >= 2 /\ WordSize = half * half /\ P = WordSize - half + 1
  <2>1. PICK h \in Nat : h >= 2 /\ WordSize = h * h /\ P = WordSize - h + 1
    OBVIOUS
  <2>2. WordSize \in Nat /\ h < WordSize
    <3>1. h * 2 <= h * h /\ h * h \in Nat
      BY <2>1, MulMono
    <3> QED BY <2>1, <3>1
  <2>3. half \in Word /\ half * half = WordSize
    <3>1. h \in Word /\ h * h = WordSize
      BY <2>1, <2>2 DEF Word
    <3> QED BY <3>1, Zenon
  <2>4. half \in Nat
    BY <2>2, <2>3 DEF Word
  <2> HIDE DEF half
  <2>5. ASSUME half < h PROVE FALSE
    <3>1. h * half <= h * (h - 1) /\ h * (h - 1) < h * h /\ half * half <= half * h
      BY <2>1, <2>4, <2>5, MulMono
    <3>2. h * half = half * h
      BY <2>4
    <3> QED BY <2>1, <2>3, <2>4, <3>1, <3>2
  <2>6. ASSUME h < half PROVE FALSE
    <3>1. half * h <= half * (half - 1) /\ half * (half - 1) < half * half /\ h * h <= h * half
      BY <2>1, <2>4, <2>6, MulMono
    <3>2. h * half = half * h
      BY <2>4
    <3> QED BY <2>1, <2>3, <2>4, <3>1, <3>2
  <2>7. half = h
    BY <2>4, <2>5, <2>6
  <2> QED BY <2>1, <2>7
<1>3. SolinasReduce(t, lazy).word = IF lazy THEN t2 ELSE MinUI(SubI(t2, P), t2)
  BY DEF SolinasReduce, Plain
<1> HIDE DEF half
<1>1. /\ WordSize \in Nat /\ WordSize >= 2 * half /\ P \in Nat /\ P > 0 /\ P < WordSize
      /\ P + eps = WordSize /\ eps \in Nat /\ eps >= 1 /\ eps = half - 1 /\ WordSize < 2 * P
  <2>1. half * 2 <= half * half /\ half * half \in Nat
    BY <1>0, MulMono
  <2> QED BY <1>0, <2>1
<1>4. lo \in 0 .. WordSize - 1 /\ hi \in 0 .. WordSize - 1 /\ t = WordSize * hi + lo
  <2>1. t \in Nat /\ WordSize > 0 /\ (WordSize - 1) * (WordSize - 1) < WordSize * (WordSize - 1)
    BY <1>1
  <2>2. (t \div WordSize) \in 0 .. (WordSize - 1) - 1
    <3>1. WordSize - 1 \in Nat /\ t < WordSize * (WordSize - 1)
      BY <1>1, <2>1
    <3> QED BY <1>1, <2>1, <3>1, DivBound
  <2> DEFINE x == t \div WordSize
  <2>3. x \in Nat /\ x < WordSize /\ hi = x % WordSize
    BY <1>1, <2>2 DEF High
  <2>4. lo \in 0 .. WordSize - 1 /\ t = WordSize * x + lo
    BY <1>1, <2>1, DivModBasics DEF Low
  <2> HIDE DEF x, hi, lo
  <2>5. hi = x
    BY <1>1, <2>3, DivSmall
  <2> QED BY <1>1, <2>3, <2>4, <2>5
<1> HIDE DEF lo, hi
<1>5. hiHi \in 0 .. half - 1 /\ hiLo \in 0 .. half - 1 /\ hi = half * hiHi + hiLo
  <2>1. hi \in Nat /\ hi < half * half /\ half > 0
    BY <1>0, <1>1, <1>4
  <2>2. (hi \div half) \in 0 .. half - 1
    BY <1>0, <2>1, DivBound
  <2> QED BY <1>0, <2>1, <2>2, DivModBasics
<1> HIDE DEF hiHi, hiLo
<1>6. \E k \in {0, 1} : t0 = lo - hiHi + P * k /\ t0 \in 0 .. WordSize - 1
  <2>0. /\ lo \in Int /\ hiHi \in Int /\ lo - hiHi \in Int /\ half \in Int
        /\ lo \in 0 .. WordSize - 1 /\ hiHi \in 0 .. half - 1
    BY <1>0, <1>4, <1>5
  <2>1. CASE lo < hiHi
    <3> DEFINE d == lo - hiHi
               e == d + WordSize
               n == -1
               f == e - eps
    <3>1. d \in Int /\ e \in 0 .. WordSize - 1 /\ n \in Int /\ d = WordSize * n + e
      BY <1>1, <2>0, <2>1
    <3> HIDE DEF d, n
    <3>2. d % WordSize = e
      BY <1>1, <3>1, DivModUnique
    <3>3. f \in Nat /\ f < WordSize /\ f = d + P * 1
      BY <1>1, <2>0, <2>1, <3>1 DEF d
    <3>4. f % WordSize = f
      BY <1>1, <3>3, DivSmall
    <3>5. t0 = f
      BY <2>1, <3>2, <3>4 DEF SubI, d
    <3> QED BY <1>1, <3>3, <3>5 DEF d
  <2>2. CASE ~ lo < hiHi
    <3> DEFINE d == lo - hiHi
    <3>1. d \in Nat /\ d < WordSize /\ d = lo - hiHi + P * 0
      BY <1>1, <2>0, <2>2
    <3>2. d % WordSize = d
      BY <1>1, <3>1, DivSmall
    <3>3. t0 = d
      BY <2>2, <3>2 DEF SubI
    <3> QED BY <1>1, <3>1, <3>3
  <2> QED BY <2>1, <2>2
<1>7. t1 = hiLo * eps /\ t1 \in 0 .. WordSize - 2 * half + 1
  <2> DEFINE x == hiLo * half
             y == hiLo * eps
  <2>1. x \in Nat /\ x < WordSize /\ y = x - hiLo /\ y \in Nat
    <3>1. half * hiLo <= half * (half - 1) /\ half * (half - 1) = half * half - half
      BY <1>0, <1>5, MulMono
    <3>2. half * hiLo = x /\ hiLo * (half - 1) = x - hiLo
      BY <1>0, <1>5
    <3>3. y \in Nat /\ x \in Nat
      BY <1>0, <1>1, <1>5
    <3> QED BY <1>0, <1>1, <3>1, <3>2, <3>3
  <2>2. y <= WordSize - 2 * half + 1
    <3>1. eps * hiLo <= eps * eps /\ eps * hiLo = y
      BY <1>0, <1>1, <1>5, MulMono
    <3>2. eps * eps = half * half - 2 * half + 1
      BY <1>0, <1>1
    <3> QED BY <1>0, <3>1, <3>2
  <2> HIDE DEF x, y
  <2>3. x % WordSize = x /\ y % WordSize = y
    <3>1. y < WordSize
      BY <1>0, <1>1, <2>1, <2>2
    <3> QED BY <1>1, <2>1, <3>1, DivSmall
  <2>4. t1 = y
    BY <2>1, <2>3 DEF SubI, x
  <2> QED BY <1>0, <1>1, <2>1, <2>2, <2>4 DEF y
<1> HIDE DEF t0, t1
<1>8. \E k \in {0, -1} : t2 = t0 + t1 + P * k /\ t2 \in 0 .. WordSize - 1
  <2> DEFINE x == t0 + t1
  <2>0. /\ x \in Nat /\ t0 \in 0 .. WordSize - 1 /\ t1 \in 0 .. WordSize - 2 * half + 1
        /\ x = t0 + t1
    BY <1>0, <1>1, <1>6, <1>7
  <2>1. CASE x < WordSize
    <3>1. x \div WordSize = 0 /\ x % WordSize = x
      BY <1>1, <2>0, <2>1, DivSmall
    <3>2. t2 = x
      BY <3>1 DEF AddCarry, AddSum
    <3>3. t2 = t0 + t1 + P * 0 /\ t2 \in 0 .. WordSize - 1
      BY <1>1, <2>0, <2>1, <3>2
    <3> QED BY <3>3
  <2>2. CASE ~ x < WordSize
    <3> DEFINE r == x - WordSize
               n == 1
               z == r + eps
    <3>1. x \in Int /\ r \in 0 .. WordSize - 1 /\ n \in Int /\ x = WordSize * n + r
      BY <1>0, <1>1, <2>0, <2>2
    <3>2. z \in Nat /\ z < WordSize
      BY <1>0, <1>1, <2>0, <2>2
    <3>3. z = t0 + t1 + P * (-1)
      BY <1>0, <1>1, <2>0
    <3> HIDE DEF x, r
    <3>4. x \div WordSize = 1 /\ x % WordSize = r
      BY <1>1, <3>1, DivModUnique
    <3>5. z % WordSize = z
      BY <1>1, <3>2, DivSmall
    <3>6. t2 = z
      BY <3>4, <3>5 DEF AddCarry, AddSum, AddI, x
    <3> QED BY <1>1, <3>2, <3>3, <3>6
  <2> QED BY <2>1, <2>2
<1> HIDE DEF t2
<1>9. \E k \in Int : t2 = t + P * k
  <2>1. PICK k1 \in {0, 1} : t0 = lo - hiHi + P * k1
    BY <1>6
  <2>2. PICK k2 \in {0, -1} : t2 = t0 + t1 + P * k2
    BY <1>8
  <2>3. hiLo * eps - hiHi = WordSize * hi - P * (hi + hiHi)
    <3>1. /\ hi \in Int /\ hiHi \in Int /\ hiLo \in Int /\ eps \in Int /\ half \in Int
          /\ hi = half * hiHi + hiLo
      BY <1>0, <1>1, <1>4, <1>5
    <3>2. WordSize * hi - P * (hi + hiHi) = eps * hi - P * hiHi
      <4>1. WordSize = P + eps
        BY <1>1
      <4>2. (P + eps) * hi - P * (hi + hiHi) = eps * hi - P * hiHi
        BY <1>1, <3>1
      <4> QED BY <4>1, <4>2
    <3>3. eps * hi = (eps * half) * hiHi + hiLo * eps
      BY <3>1
    <3>4. (eps * half) * hiHi = P * hiHi - hiHi
      <4>1. eps * half = P - 1
        BY <1>0, <1>1
      <4> QED BY <1>1, <3>1, <4>1
    <3> QED BY <1>1, <3>1, <3>2, <3>3, <3>4
  <2> DEFINE n == k1 + k2 - (hi + hiHi)
  <2>4. n \in Int /\ P * n = P * k1 + P * k2 - P * (hi + hiHi)
    BY <1>1, <1>4, <1>5
  <2>5. t2 = t + P * n
    <3> DEFINE a == P * k1
               b == P * k2
               c == P * (hi + hiHi)
               d == WordSize * hi
               e == hiLo * eps
    <3>1. /\ t0 = lo - hiHi + a /\ t2 = t0 + e + b /\ e - hiHi = d - c /\ t = d + lo
          /\ P * n = a + b - c
      BY <2>1, <2>2, <2>3, <2>4, <1>4, <1>7
    <3>2. {a, b, c, d, e, lo, hiHi} \subseteq Int
      BY <1>1, <1>4, <1>5
    <3> DEFINE pn == P * n
    <3>3. pn = a + b - c
      BY <3>1
    <3> HIDE DEF a, b, c, d, e, pn, n
    <3>4. t2 = t + pn
      BY <3>1, <3>2, <3>3
    <3> QED BY <3>4 DEF pn
  <2> QED BY <2>4, <2>5
<1>10. t2 % P = t % P
  <2>1. PICK k \in Int : t2 = t + P * k
    BY <1>9
  <2>2. (t + P * k) % P = t % P
    <3>1. t \in Int
      BY <1>1, <1>4
    <3> QED BY <1>1, <3>1, SameResidue
  <2> QED BY <2>1, <2>2
<1>11. CASE lazy
  BY <1>3, <1>8, <1>10, <1>11
<1>12. CASE ~ lazy
  <2> DEFINE r == IF t2 >= P THEN t2 - P ELSE t2
  <2>0. t2 \in Int /\ t2 >= 0 /\ t2 < WordSize /\ t2 < 2 * P /\ t2 = t2 + P * 0
    BY <1>1, <1>8
  <2>1. MinUI(SubI(t2, P), t2) = r
    <3>1. CASE t2 >= P
      <4> DEFINE d == t2 - P
      <4>1. d \in Nat /\ d < WordSize
        BY <1>1, <2>0, <3>1
      <4>2. d % WordSize = d
        BY <1>1, <4>1, DivSmall
      <4> QED BY <1>1, <2>0, <3>1, <4>1, <4>2 DEF SubI, MinUI
    <3>2. CASE ~ t2 >= P
      <4> DEFINE d == t2 - P
                 e == d + WordSize
                 n == -1
      <4>1. d \in Int /\ e \in 0 .. WordSize - 1 /\ n \in Int /\ d = WordSize * n + e /\ ~ e <= t2
        BY <1>1, <2>0, <3>2
      <4> HIDE DEF d, e, n
      <4>2. d % WordSize = e
        BY <1>1, <4>1, DivModUnique
      <4> QED BY <3>2, <4>1, <4>2 DEF SubI, MinUI, d
    <3> QED BY <3>1, <3>2
  <2>2. r = t2 % P
    <3> HIDE DEF r
    <3>1. (IF t2 >= P THEN t2 - P ELSE t2) = t2 % P
      BY <1>1, <2>0, OneSubtraction
    <3> QED BY <3>1 DEF r
  <2>3. r \in 0 .. P - 1 /\ r % P = r
    <3>1. r \in Nat /\ r < P
      BY <1>1, <2>0
    <3> HIDE DEF r
    <3>2. r % P = r
      BY <1>1, <3>1, DivSmall
    <3> QED BY <1>1, <3>1, <3>2
  <2> QED BY <1>3, <1>10, <1>12, <2>1, <2>2, <2>3
<1> QED BY <1>11, <1>12

-----------------------------------------------------------------------------
\* The modulus is odd and a word has a whole number of bits.
IsOddModulus == /\ IsModulus
                /\ P % 2 = 1
                /\ \E w \in Nat : w >= 1 /\ WordSize = 2^w

(* montAttr.getNInv() exists for every odd modulus. *)
LEMMA OddModulusInvertible ==
  ASSUME IsOddModulus
  PROVE  Invertible
<1>1. PICK w \in Nat : w >= 1 /\ WordSize = 2^w
  BY DEF IsOddModulus
<1>2. P \in Nat /\ P >= 3 /\ P % 2 = 1
  BY DEF IsOddModulus, IsModulus
<1>3. \E x \in 0 .. 2^w - 1 : (P * x) % 2^w = 1
  BY <1>1, <1>2, OddHasInverse
<1> QED BY <1>1, <1>3 DEF Invertible, Word

(* The number of conditional subtractions is the logarithm of the bound. *)
LEMMA StepsFound ==
  ASSUME NEW bound \in Nat, bound >= 2
  PROVE  \E n \in Nat : Steps(bound) = n + 1 /\ bound <= 2^(n + 1) /\ 2^n < bound
<1> DEFINE T == {m \in Nat : 2^m >= bound}
<1>1. bound \in T
  <2>1. 2^bound \in Nat /\ bound < 2^bound
    BY TwoPowerStep, TwoPowerAbove
  <2> QED BY <2>1
<1>2. PICK m \in T : \A y \in T : m <= y
  <2>1. T \in SUBSET Nat /\ T # {}
    BY <1>1
  <2> HIDE DEF T
  <2> QED BY <2>1, LeastNatural
<1> DEFINE IsSteps(k) == 2^k >= bound /\ \A n \in 0 .. k - 1 : 2^n < bound
<1>3. m \in 0 .. bound /\ IsSteps(m)
  <2>1. m \in Nat /\ m <= bound /\ 2^m >= bound
    BY <1>1, <1>2
  <2>2. ASSUME NEW n \in 0 .. m - 1 PROVE 2^n < bound
    <3>1. n \in Nat /\ ~ (m <= n) /\ 2^n \in Nat
      BY <2>1, TwoPowerStep
    <3> QED BY <1>2, <3>1
  <2> QED BY <2>1, <2>2
<1> DEFINE s == Steps(bound)
<1>4. s \in 0 .. bound /\ IsSteps(s)
  <2>1. s = CHOOSE k \in 0 .. bound : IsSteps(k)
    BY Zenon DEF Steps
  <2> HIDE DEF s, IsSteps
  <2> QED BY <1>3, <2>1
<1> HIDE DEF s
<1>5. s # 0
  <2>1. SUFFICES ASSUME s = 0 PROVE FALSE
    OBVIOUS
  <2>2. 2^0 >= bound
    BY <1>4, <2>1
  <2> QED BY <2>2, TwoPowerZero
<1> DEFINE n == s - 1
<1>6. n \in Nat /\ s = n + 1 /\ n \in 0 .. s - 1
  BY <1>4, <1>5
<1>7. bound <= 2^(n + 1) /\ 2^n < bound
  <2>1. 2^(n + 1) \in Nat /\ 2^n \in Nat
    BY <1>6, TwoPowerStep
  <2>2. 2^s >= bound
    BY <1>4
  <2>3. 2^n < bound
    BY <1>4, <1>6
  <2> QED BY <1>6, <2>1, <2>2, <2>3
<1> QED BY <1>6, <1>7 DEF s

\* One conditional subtraction of k times the modulus.
SubtractOnce(y, k) == MinUI(SubI(y, (P * k) % WordSize), y)

(* It subtracts exactly when it can, whenever the multiple fits a word. *)
LEMMA SubtractsOnce ==
  ASSUME IsModulus, NEW k \in Nat, P * k < WordSize, NEW y \in Word
  PROVE  SubtractOnce(y, k) = IF y >= P * k THEN y - P * k ELSE y
<1> USE DEF IsModulus
<1>1. PICK c \in Nat : c = P * k
  BY SMT
<1>2. (P * k) % WordSize = c
  <2>1. c < WordSize
    BY <1>1
  <2>2. c % WordSize = c
    BY <2>1, DivSmall
  <2> QED BY <1>1, <2>2
<1>3. y \in Nat /\ y < WordSize /\ c < WordSize
  BY <1>1 DEF Word
<1>4. CASE y >= c
  <2>1. PICK d \in Nat : d = y - c
    BY <1>3, <1>4
  <2>2. d % WordSize = d
    BY <1>3, <2>1, DivSmall
  <2> QED BY <1>1, <1>2, <1>3, <1>4, <2>1, <2>2 DEF SubtractOnce, SubI, MinUI
<1>5. CASE y < c
  <2>1. PICK d \in Int : d = y - c
    BY <1>3
  <2>2. PICK e \in 0 .. WordSize - 1 : e = d + WordSize /\ ~ (e <= y)
    BY <1>3, <1>5, <2>1
  <2>3. PICK q \in Int : q = -1
    OBVIOUS
  <2>4. d = WordSize * q + e
    BY <2>2, <2>3
  <2>5. d % WordSize = e
    BY <2>4, DivModUnique
  <2> QED BY <1>1, <1>2, <1>3, <1>5, <2>1, <2>2, <2>5 DEF SubtractOnce, SubI, MinUI
<1> QED BY <1>3, <1>4, <1>5

(* The unrolled subtractions, step by step. *)
LEMMA SubtractionsUnfold ==
  ASSUME NEW x, NEW m \in Nat
  PROVE  \E after : /\ after = [k \in 0 .. m |-> IF k = 0 THEN x
                                   ELSE SubtractOnce(after[k - 1], 2^(m - k))]
                    /\ Subtractions(x, m) = after[m]
<1> DEFINE Is(f, n) == f = [k \in 0 .. n |-> IF k = 0 THEN x
                                   ELSE SubtractOnce(f[k - 1], 2^(m - k))]
           Bad == {n \in Nat : n <= m /\ ~ \E f : Is(f, n)}
<1>1. \E f : Is(f, m)
  <2> HIDE DEF Is
  <2>1. SUFFICES ASSUME Bad # {} PROVE FALSE
    <3>0. m \in Nat /\ m <= m
      OBVIOUS
    <3>1. m \notin Bad => \E f : Is(f, m)
      BY <3>0, Zenon
    <3> QED BY <3>1
  <2>2. PICK n \in Bad : \A y \in Bad : n <= y
    <3>1. Bad \in SUBSET Nat
      OBVIOUS
    <3> HIDE DEF Bad
    <3> QED BY <2>1, <3>1, LeastNatural
  <2> USE DEF Is
  <2>3. n \in Nat /\ n <= m /\ ~ \E f : Is(f, n)
    BY <2>2
  <2>4. CASE n = 0
    <3> DEFINE g == [k \in 0 .. 0 |-> x]
    <3>1. Is(g, n)
      BY <2>4
    <3> QED BY <2>3, <3>1
  <2>5. CASE n > 0
    <3> DEFINE h == n - 1
    <3>1. h \in Nat /\ n = h + 1 /\ ~ (n <= h) /\ h <= m
      BY <2>3, <2>5
    <3>2. PICK f : Is(f, h)
      BY <2>2, <3>1
    <3> DEFINE last == SubtractOnce(f[n - 1], 2^(m - n))
               g == [k \in 0 .. n |-> IF k = n THEN last ELSE f[k]]
    <3> HIDE DEF last
    <3>3. \A k \in 0 .. h : f[k] = IF k = 0 THEN x ELSE SubtractOnce(f[k - 1], 2^(m - k))
      BY <3>2
    <3>4. \A k \in 0 .. n : g[k] = IF k = 0 THEN x ELSE SubtractOnce(g[k - 1], 2^(m - k))
      <4> TAKE k \in 0 .. n
      <4>1. CASE k = n
        <5>1. g[k] = last /\ k # 0 /\ g[k - 1] = f[n - 1]
          BY <3>1, <4>1
        <5> QED BY <4>1, <5>1 DEF last
      <4>2. CASE k # n
        <5>1. k \in 0 .. h /\ g[k] = f[k]
          BY <3>1, <4>2
        <5>2. k # 0 => g[k - 1] = f[k - 1]
          BY <3>1, <4>2
        <5> QED BY <3>3, <5>1, <5>2
      <4> QED BY <4>1, <4>2
    <3>5. Is(g, n)
      BY <3>4
    <3> QED BY <2>3, <3>5
  <2> QED BY <2>3, <2>4, <2>5
<1> DEFINE a == CHOOSE f : Is(f, m)
<1>2. Is(a, m)
  BY <1>1
<1>3. Subtractions(x, m) = a[m]
  BY Zenon DEF Subtractions, SubtractOnce
<1> HIDE DEF a
<1> QED BY <1>2, <1>3

(* Subtracting halves of a multiple of the modulus leaves the residue.  The  *)
(* first multiple is the only one that could be cut to a word.               *)
LEMMA SubtractionsReduce ==
  ASSUME IsModulus, NEW n \in Nat, P * 2^n < WordSize,
         NEW x \in Word, x < P * 2^(n + 1)
  PROVE  Subtractions(x, n + 1) = x % P
<1> USE DEF IsModulus
<1>1. PICK m \in Nat : m = n + 1
  OBVIOUS
<1>2. PICK after : /\ after = [k \in 0 .. m |-> IF k = 0 THEN x
                                   ELSE SubtractOnce(after[k - 1], 2^(m - k))]
                   /\ Subtractions(x, m) = after[m]
  BY SubtractionsUnfold
<1>3. \A k \in 0 .. m : after[k] = IF k = 0 THEN x ELSE SubtractOnce(after[k - 1], 2^(m - k))
  BY <1>2
<1> DEFINE Right(k) == /\ after[k] \in Word
                       /\ after[k] < P * 2^(m - k)
                       /\ SameMod(after[k], x, P)
           Bad == {k \in 0 .. m : ~ Right(k)}
<1>4. Right(0)
  <2>1. after[0] = x /\ m - 0 = n + 1
    BY <1>1, <1>3
  <2> QED BY <2>1, SameModEquivalence
<1>5. ASSUME NEW k \in 1 .. m, Right(k - 1) PROVE Right(k)
  <2>1. PICK j \in Nat : j = m - k /\ j <= n /\ m - (k - 1) = j + 1
    BY <1>1
  <2>2. PICK c \in Nat : c = 2^j /\ 2^(j + 1) = 2 * c
    BY TwoPowerStep
  <2>3. c <= 2^n /\ 2^n \in Nat
    <3>1. CASE j = n
      BY <2>2, <3>1, TwoPowerStep
    <3>2. CASE j < n
      BY <2>2, <3>2, TwoPowerGrows, TwoPowerStep
    <3> QED BY <2>1, <3>1, <3>2
  <2>4. PICK t \in Nat : t = 2^n
    BY <2>3
  <2>5. P * c < WordSize
    <3>1. P * c <= P * t
      BY <2>3, <2>4, MulMono
    <3>2. P * c \in Nat /\ P * t \in Nat /\ P * t < WordSize
      BY <2>4
    <3> QED BY <3>1, <3>2
  <2>6. PICK y \in Word : y = after[k - 1]
    BY <1>5
  <2>7. SameMod(y, x, P) /\ y < P * (2 * c)
    BY <1>5, <2>1, <2>2, <2>6
  <2>8. after[k] = IF y >= P * c THEN y - P * c ELSE y
    <3>1. after[k] = SubtractOnce(y, c)
      BY <1>3, <2>1, <2>2, <2>6
    <3> QED BY <2>5, <3>1, SubtractsOnce
  <2>9. PICK z \in Nat : z = P * c /\ P * (2 * c) = 2 * z
    BY SMT
  <2>10. y \in Nat /\ y < WordSize /\ x \in Int
    BY DEF Word
  <2>11. CASE y >= z
    <3>1. after[k] = y - z
      BY <2>8, <2>9, <2>11
    <3>2. PICK d \in Int, e \in Int : d = y - z /\ e = -c
      BY <2>10
    <3>3. d = y + P * e
      <4>1. P * (-c) = -(P * c)
        BY SMT
      <4> QED BY <2>9, <3>2, <4>1
    <3>4. SameMod(d, y, P)
      BY ONLY <2>10, <3>3, P \in Nat, P > 0, SameModIf
    <3>5. SameMod(d, x, P)
      BY <2>7, <3>4 DEF SameMod
    <3>6. d \in Word /\ d < z
      BY <2>7, <2>9, <2>10, <2>11, <3>2 DEF Word
    <3> QED BY <2>1, <2>2, <2>9, <3>1, <3>2, <3>5, <3>6
  <2>12. CASE y < z
    <3>1. after[k] = y
      BY <2>8, <2>9, <2>10, <2>12
    <3> QED BY <2>1, <2>2, <2>7, <2>9, <2>12, <3>1
  <2> QED BY <2>10, <2>11, <2>12
<1>6. Bad = {}
  <2> HIDE DEF Right
  <2>1. SUFFICES ASSUME Bad # {} PROVE FALSE
    OBVIOUS
  <2>2. PICK k \in Bad : \A y \in Bad : k <= y
    <3>1. Bad \in SUBSET Nat
      OBVIOUS
    <3> HIDE DEF Bad
    <3> QED BY <2>1, <3>1, LeastNatural
  <2>3. k # 0
    BY <1>4, <2>2
  <2>4. k \in 1 .. m /\ k - 1 \in 0 .. m /\ ~ (k <= k - 1)
    BY <2>2, <2>3
  <2>5. Right(k - 1)
    BY <2>2, <2>4
  <2>6. Right(k)
    BY <1>5, <2>4, <2>5
  <2> QED BY <2>2, <2>6
<1>7. Right(m)
  <2> HIDE DEF Right
  <2>1. m \in 0 .. m
    BY <1>1
  <2> QED BY <1>6, <2>1
<1>8. PICK r \in Word : r = after[m]
  BY <1>7
<1>9. r \in 0 .. P - 1 /\ SameMod(r, x, P)
  <2>1. m - m = 0 /\ P * 2^(m - m) = P
    BY TwoPowerZero
  <2> QED BY <1>7, <1>8, <2>1 DEF Word
<1>10. x \in Int /\ P > 0
  BY DEF Word
<1>11. r = x % P
  BY ONLY <1>9, <1>10, P \in Nat, SameModSmall
<1> QED BY <1>1, <1>2, <1>8, <1>11

(* getCanonicalFromExtended of a word below bound * p, for a bound that       *)
(* kpFromUmax gives: the residue, when bound - 1 multiples of the modulus fit *)
(* a word.                                                                    *)
LEMMA ExtendedReduces ==
  ASSUME IsModulus, NEW bound \in Nat, bound >= 2,
         \A n \in Nat : 2^n < bound => P * 2^n < WordSize,
         NEW v \in Lowered, v.word < P * bound
  PROVE  /\ CanonicalFromExtended(v, bound).word = v.word % P
         /\ CanonicalFromExtended(v, bound).isAdd = FALSE
         /\ CanonicalFromExtended(v, bound).signed =
              IF Steps(bound) = 1 /\ v.isAdd THEN {Signed(SubI(v.word, P))} ELSE {}
<1>1. PICK n \in Nat : Steps(bound) = n + 1 /\ bound <= 2^(n + 1) /\ 2^n < bound
  BY StepsFound
<1>2. P * 2^n < WordSize
  BY <1>1
<1>3. v.word \in Word
  BY DEF Lowered
<1>4. v.word < P * 2^(n + 1)
  <2>1. PICK c \in Nat : c = 2^(n + 1)
    BY TwoPowerStep
  <2>2. P * bound <= P * c
    BY <1>1, <2>1, MulMono DEF IsModulus
  <2>3. P * bound \in Int /\ P * c \in Int /\ v.word \in Int
    BY <1>3 DEF IsModulus, Word
  <2> QED BY <2>1, <2>2, <2>3
<1>5. Subtractions(v.word, n + 1) = v.word % P
  BY <1>2, <1>3, <1>4, SubtractionsReduce
<1>6. ~ (bound <= 1)
  OBVIOUS
<1> QED BY <1>1, <1>5, <1>6 DEF CanonicalFromExtended, MinOp

(* A word in a register is a lowered value. *)
LEMMA PlainLowered ==
  ASSUME NEW x \in Word
  PROVE  Plain(x) \in Lowered
BY DEF Plain, Lowered

(* A subtraction of the modulus, whether or not the sum of two canonical      *)
(* words has left the register.                                               *)
LEMMA OverflowReduces ==
  ASSUME IsModulus, NEW v \in 0 .. 2 * P - 1
  PROVE  /\ CanonicalFromOverflow(v % WordSize, v \div WordSize) = Plain(v % P)
         /\ v \div WordSize \in {0, 1}
<1> USE DEF IsModulus
<1>1. (IF v >= P THEN v - P ELSE v) = v % P
  <2>1. v \in Int /\ 0 <= v /\ v < 2 * P /\ v = v + P * 0 /\ P > 0
    BY SMT
  <2> QED BY <2>1, OneSubtraction
<1>2. CASE v < WordSize
  <2>1. v % WordSize = v /\ v \div WordSize = 0
    BY <1>2, DivSmall
  <2>2. SubtractOnce(v, 1) = IF v >= P * 1 THEN v - P * 1 ELSE v
    BY <1>2, SubtractsOnce DEF Word
  <2>3. MinUI(SubI(v, P), v) = SubtractOnce(v, 1)
    <3>1. (P * 1) % WordSize = P
      BY DivSmall
    <3>2. SubI(v, (P * 1) % WordSize) = SubI(v, P)
      BY <3>1
    <3> QED BY <3>2 DEF SubtractOnce
  <2>4. MinUI(SubI(v, P), v) = v % P
    BY <1>1, <2>2, <2>3
  <2> QED BY <2>1, <2>4 DEF CanonicalFromOverflow
<1>3. CASE v >= WordSize
  <2>1. PICK x \in 0 .. WordSize - 1 : x = v - WordSize
    BY <1>3
  <2>2. v = WordSize * 1 + x
    BY <2>1
  <2>3. v % WordSize = x /\ v \div WordSize = 1
    BY <2>2, DivModUnique
  <2>4. PICK e \in Nat : e = v - P /\ e < WordSize
    BY <1>3
  <2>5. PICK d \in Int : d = x - P
    OBVIOUS
  <2>6. PICK q \in Int : q = -1
    OBVIOUS
  <2>7. d = WordSize * q + e
    BY <2>1, <2>4, <2>5, <2>6
  <2>8. d % WordSize = e
    BY <2>4, <2>7, DivModUnique
  <2>9. SubI(x, P) = v % P
    BY <1>1, <1>3, <2>4, <2>5, <2>8 DEF SubI
  <2> QED BY <2>3, <2>9 DEF CanonicalFromOverflow
<1> QED BY <1>2, <1>3

(* One conditional subtraction: the canonical form of a number below 2p.      *)
LEMMA TwoFoldReduces ==
  ASSUME IsModulus, ~ SignBitSet, NEW v \in Lowered, v.word < 2 * P
  PROVE  CanonicalFromExtended(v, 2).word = v.word % P
<1>1. ASSUME NEW n \in Nat, 2^n < 2 PROVE P * 2^n < WordSize
  <2>1. n = 0
    <3>1. SUFFICES ASSUME n > 0 PROVE FALSE
      OBVIOUS
    <3>2. n < 2^n
      BY TwoPowerAbove
    <3>3. 2^n \in Nat
      BY TwoPowerStep
    <3> QED BY <1>1, <3>1, <3>2, <3>3
  <2>2. P * 2^n = P
    BY <2>1, TwoPowerZero DEF IsModulus
  <2> QED BY <2>2 DEF IsModulus
<1>2. PICK bound \in Nat : bound = 2
  OBVIOUS
<1>3. v.word < P * bound
  BY <1>2 DEF Lowered, Word, IsModulus
<1>4. bound >= 2 /\ \A n \in Nat : 2^n < bound => P * 2^n < WordSize
  BY <1>1, <1>2
<1>5. CanonicalFromExtended(v, bound).word = v.word % P
  BY <1>3, <1>4, ExtendedReduces, Zenon
<1> QED BY <1>2, <1>5

(* reduceMultiLimb as a whole: adding the multiple of the modulus that clears *)
(* the low word leaves (t + q * p) / 2^w, below 2p.                           *)
THEOREM MultiLimbReduces ==
  ASSUME IsModulus, Invertible, NEW t \in 0 .. P * WordSize - 1, NEW lazy \in BOOLEAN
  PROVE  /\ ReduceMultiLimb(t, lazy).word \in 0 .. (IF lazy THEN 2 * P ELSE P) - 1
         /\ (WordSize * ReduceMultiLimb(t, lazy).word) % P = t % P
         /\ ReduceMultiLimb(t, lazy).isAdd = FALSE
         /\ ReduceMultiLimb(t, lazy).signed = {}
<1> USE DEF IsModulus
<1> DEFINE r == ReduceMultiLimb(t, lazy)
<1>1. PICK lo \in 0 .. WordSize - 1 : lo = Low(t) /\ SameMod(lo, t, WordSize)
  <2>1. t \in Int /\ WordSize > 0
    OBVIOUS
  <2> QED BY <2>1, SameModResidue DEF Low
<1>2. PICK ni \in Word : ni = NInv /\ (P * ni) % WordSize = 1
  BY HasNInv
<1>3. PICK f \in Int : f = WordSize - ni
  BY <1>2 DEF Word
<1>4. PICK g \in Int : g = lo * f
  OBVIOUS
<1>5. PICK q \in 0 .. WordSize - 1 : q = MulI(Low(t), WordSize - NInv) /\ SameMod(q, g, WordSize)
  <2>1. MulI(Low(t), WordSize - NInv) = g % WordSize
    BY <1>1, <1>2, <1>3, <1>4 DEF MulI
  <2>2. g % WordSize \in 0 .. WordSize - 1 /\ SameMod(g % WordSize, g, WordSize)
    <3>1. WordSize > 0
      OBVIOUS
    <3> QED BY <3>1, SameModResidue
  <2> QED BY <2>1, <2>2
<1>6. \E v \in Int : t + q * P = WordSize * v
  <2>1. PICK e \in Int : P * ni = 1 + WordSize * e
    <3>1. PICK z \in Int : z = P * ni
      BY DEF Word
    <3>2. 1 % WordSize = 1
      BY DivSmall
    <3>3. SameMod(z, 1, WordSize)
      BY <1>2, <3>1, <3>2 DEF SameMod
    <3>4. \E e \in Int : z = 1 + WordSize * e
      BY ONLY <3>3, WordSize \in Nat, WordSize > 0, SameModOnlyIf
    <3> QED BY <3>1, <3>4
  <2>2. PICK a \in Int : t = lo + WordSize * a
    <3>1. SameMod(t, lo, WordSize) /\ t \in Int /\ lo \in Int
      BY <1>1, SameModEquivalence
    <3> QED BY <3>1, SameModOnlyIf
  <2>3. PICK b \in Int : q = g + WordSize * b
    BY <1>5, SameModOnlyIf
  <2>4. q * P = (lo * f) * P + (WordSize * b) * P
    BY <1>4, <2>3
  <2>5. (lo * f) * P = lo * (f * P) /\ (WordSize * b) * P = WordSize * (b * P)
    BY SMT
  <2>6. f * P = WordSize * P - P * ni
    BY <1>3 DEF Word
  <2>7. f * P = WordSize * (P - e) - 1
    <3>1. WordSize * (P - e) = WordSize * P - WordSize * e
      BY SMT
    <3> QED BY <2>1, <2>6, <3>1
  <2>8. PICK h \in Int : h = P - e
    OBVIOUS
  <2>9. lo * (f * P) = WordSize * (lo * h) - lo
    <3>1. lo * (WordSize * h - 1) = lo * (WordSize * h) - lo
      BY SMT
    <3>2. lo * (WordSize * h) = WordSize * (lo * h)
      BY SMT
    <3> QED BY <2>7, <2>8, <3>1, <3>2
  <2>10. PICK v \in Int : v = a + lo * h + b * P
    BY SMT
  <2>11. WordSize * v = WordSize * a + WordSize * (lo * h) + WordSize * (b * P)
    BY <2>10, SMT
  <2>12. {WordSize * a, WordSize * (lo * h), WordSize * (b * P), q * P, WordSize * v} \subseteq Int
    BY SMT
  <2>13. t + q * P = WordSize * v
    BY ONLY <2>2, <2>4, <2>5, <2>9, <2>11, <2>12, lo \in Int, t \in Int, SMT
  <2> QED BY <2>13
<1>7. PICK v \in Int : t + q * P = WordSize * v
  BY <1>6
<1>8. v \in 0 .. 2 * P - 1
  <2>1. q * P <= (WordSize - 1) * P /\ (WordSize - 1) * P = WordSize * P - P /\ 0 <= q * P
    <3>1. P * q <= P * (WordSize - 1) /\ P * 0 <= P * q
      BY MulMono
    <3> QED BY <3>1, SMT
  <2>2. WordSize * P = P * WordSize /\ WordSize * P \in Nat /\ q * P \in Int
    BY SMT
  <2>3. 0 <= WordSize * v /\ WordSize * v < 2 * (WordSize * P)
    BY <1>7, <2>1, <2>2
  <2>4. ~ (v <= -1)
    <3>1. SUFFICES ASSUME v <= -1 PROVE FALSE
      OBVIOUS
    <3>2. WordSize * v <= WordSize * (-1)
      BY <3>1, MulMono
    <3> QED BY <2>3, <3>2
  <2>5. ~ (2 * P <= v)
    <3>1. SUFFICES ASSUME 2 * P <= v PROVE FALSE
      OBVIOUS
    <3>2. WordSize * (2 * P) <= WordSize * v
      BY <3>1, MulMono
    <3>3. WordSize * (2 * P) = 2 * (WordSize * P)
      BY SMT
    <3> QED BY <2>3, <3>2, <3>3
  <2> QED BY <2>4, <2>5
<1>9. (t + MulI(Low(t), WordSize - NInv) * P) \div WordSize = v
  <2>1. PICK s \in Int : s = t + q * P
    BY SMT
  <2>2. s = WordSize * v + 0 /\ 0 \in 0 .. WordSize - 1
    BY <1>7, <2>1
  <2>3. s \div WordSize = v
    BY <2>2, DivModUnique
  <2> QED BY <1>5, <2>1, <2>3
<1>10. r = IF SignBitSet THEN CanonicalFromOverflow(Low(v), High(v) % 2)
           ELSE IF lazy THEN Plain(Low(v)) ELSE CanonicalFromExtended(Plain(Low(v)), 2)
  BY <1>9 DEF ReduceMultiLimb
<1>11. v % P \in 0 .. P - 1 /\ SameMod(v % P, v, P)
  <2>1. P > 0
    OBVIOUS
  <2> QED BY <2>1, SameModResidue
<1>12. /\ r.word \in 0 .. (IF lazy THEN 2 * P ELSE P) - 1
       /\ SameMod(r.word, v, P) /\ r.isAdd = FALSE /\ r.signed = {}
  <2>1. CASE SignBitSet
    <3>1. CanonicalFromOverflow(v % WordSize, v \div WordSize) = Plain(v % P)
      BY <1>8, OverflowReduces
    <3>2. v \div WordSize \in {0, 1}
      BY <1>8, OverflowReduces
    <3>3. High(v) % 2 = v \div WordSize
      <4>1. PICK c \in Nat : c = v \div WordSize /\ c < 2
        BY <3>2
      <4>2. c % WordSize = c /\ c % 2 = c
        BY <4>1, DivSmall
      <4> QED BY <4>1, <4>2 DEF High
    <3>4. r = Plain(v % P)
      BY <1>10, <2>1, <3>1, <3>3 DEF Low
    <3> QED BY <1>11, <3>4 DEF Plain
  <2>2. CASE ~ SignBitSet
    <3>1. v \in Nat /\ v < WordSize
      BY <1>8, <2>2 DEF SignBitSet
    <3>2. Low(v) = v
      BY <3>1, DivSmall DEF Low
    <3>3. CASE lazy
      BY <1>8, <1>10, <2>2, <3>2, <3>3, SameModEquivalence DEF Plain
    <3>4. CASE ~ lazy
      <4>1. PICK pv \in Lowered : pv = Plain(v)
        <5>1. v \in Word
          BY <3>1 DEF Word
        <5> QED BY <5>1, PlainLowered
      <4>2. pv.word = v /\ pv.isAdd = FALSE
        BY <4>1 DEF Plain
      <4>3. CanonicalFromExtended(pv, 2).word = v % P
        BY <1>8, <2>2, <4>2, TwoFoldReduces
      <4>4. CanonicalFromExtended(pv, 2).isAdd = FALSE /\ CanonicalFromExtended(pv, 2).signed = {}
        BY <4>2 DEF CanonicalFromExtended, MinOp
      <4> QED BY <1>10, <1>11, <2>2, <3>2, <3>4, <4>1, <4>3, <4>4
    <3> QED BY <3>3, <3>4
  <2> QED BY <2>1, <2>2
<1>13. PICK x \in Nat : x = r.word
  BY <1>12
<1>14. SameMod(WordSize * x, WordSize * v, P)
  <2>1. SameMod(WordSize, WordSize, P) /\ SameMod(x, v, P) /\ P > 0
    BY <1>12, <1>13, SameModEquivalence
  <2> QED BY <2>1, SameModProduct
<1>15. SameMod(WordSize * v, t, P)
  <2>1. PICK s \in Int : s = WordSize * v
    OBVIOUS
  <2>2. s = t + P * q
    BY <1>7, <2>1
  <2>3. SameMod(s, t, P)
    BY ONLY <2>2, P \in Nat, P > 0, t \in Int, q \in Int, s \in Int, SameModIf
  <2> QED BY <2>1, <2>3
<1>16. SameMod(WordSize * x, t, P)
  BY ONLY <1>14, <1>15 DEF SameMod
<1> QED BY <1>12, <1>13, <1>16 DEF SameMod

-----------------------------------------------------------------------------
\* A canonical value together with the signed form recovered for it: the word
\* itself or the word less the modulus, over a modulus without the sign bit.
SignedFormRight(v) ==
  \A s \in v.signed : ~ SignBitSet /\ v.word \in 0 .. P - 1 /\ s \in {v.word, v.word - P}

(* getCanonicalDiff keeps the difference it started from, when the modulus    *)
(* leaves the sign bit free.                                                  *)
LEMMA DiffSignedForm ==
  ASSUME IsModulus, NEW x \in Int, NEW y \in Int, CanonicalDiff(x, y).word \in 0 .. P - 1
  PROVE  SignedFormRight(CanonicalDiff(x, y)) /\ CanonicalDiff(x, y).isAdd = FALSE
<1> USE DEF IsModulus
<1>1. CASE SignBitSet
  BY <1>1 DEF CanonicalDiff, Plain, SignedFormRight
<1>2. CASE ~ SignBitSet
  <2>1. PICK d \in 0 .. WordSize - 1 : d = SubI(x, y)
    <3>1. PICK z \in Int : z = x - y
      OBVIOUS
    <3>2. z % WordSize \in 0 .. WordSize - 1
      BY DivModBasics
    <3> QED BY <3>1, <3>2 DEF SubI
  <2>2. PICK e \in 0 .. WordSize - 1 : e = AddI(d, P) /\ e = IF d + P < WordSize THEN d + P
                                                             ELSE d + P - WordSize
    <3>1. PICK z \in Nat : z = d + P
      OBVIOUS
    <3>2. CASE z < WordSize
      <4>1. z % WordSize = z
        BY <3>2, DivSmall
      <4> QED BY <3>1, <3>2, <4>1 DEF AddI
    <3>3. CASE z >= WordSize
      <4>1. PICK r \in 0 .. WordSize - 1 : r = z - WordSize
        BY <3>1, <3>3
      <4>2. z = WordSize * 1 + r
        BY <4>1
      <4>3. z % WordSize = r
        BY <4>2, DivModUnique
      <4> QED BY <3>1, <3>3, <4>1, <4>3 DEF AddI
    <3> QED BY <3>1, <3>2, <3>3
  <2>3. CanonicalDiff(x, y) = MinOp(MinUI(d, e), {Signed(d)})
    BY <1>2, <2>1, <2>2 DEF CanonicalDiff
  <2>4. PICK r \in 0 .. P - 1 : r = MinUI(d, e)
    BY <2>3 DEF MinOp
  <2>5. Signed(d) \in {r, r - P}
    BY <1>2, <2>2, <2>4 DEF MinUI, Signed, SignBitSet
  <2> QED BY <1>2, <2>3, <2>4, <2>5 DEF SignedFormRight, MinOp
<1> QED BY <1>1, <1>2

(* getCanonicalDiff of canonical words is the residue of their difference.    *)
LEMMA DiffReduces ==
  ASSUME IsModulus, NEW x \in 0 .. P - 1, NEW y \in 0 .. P - 1
  PROVE  CanonicalDiff(x, y).word = (x - y) % P
<1> USE DEF IsModulus
<1>1. PICK v \in -(P - 1) .. P - 1 : v = x - y
  OBVIOUS
<1>2. x \in Word /\ y \in Word /\ SubI(x, y) = v % WordSize
  BY <1>1 DEF Word, SubI
<1>3. CanonicalDiff(x, y).word = IF v < 0 THEN v + P ELSE v
  BY <1>1, <1>2, CanonicalDiffLifts
<1>4. PICK r \in 0 .. P - 1 : r = IF v < 0 THEN v + P ELSE v
  OBVIOUS
<1>5. PICK k \in Int : k = IF v < 0 THEN 1 ELSE 0
  OBVIOUS
<1>6. r = v + P * k
  BY <1>4, <1>5
<1>7. r = v % P
  BY <1>6, OwnResidue
<1> QED BY <1>1, <1>3, <1>4, <1>7

(* The last subtraction of an addition that stayed below twice the modulus    *)
(* gives the signed form of the sum.                                          *)
LEMMA ExtendedSignedForm ==
  ASSUME IsModulus, ~ SignBitSet, NEW v \in Lowered, v.word < 2 * P,
         NEW r \in Lowered, r.word = v.word % P, r.signed \subseteq {Signed(SubI(v.word, P))}
  PROVE  SignedFormRight(r)
<1> USE DEF IsModulus
<1>1. PICK x \in Nat : x = v.word /\ x < 2 * P /\ x < WordSize
  BY DEF Lowered, Word
<1>2. PICK y \in Nat : y = r.word
  BY DEF Lowered, Word
<1>3. (IF x >= P THEN x - P ELSE x) = x % P
  <2>1. 0 <= x /\ x = x + P * 0 /\ P > 0
    BY SMT
  <2> QED BY <1>1, <2>1, OneSubtraction
<1>4. y = IF x >= P THEN x - P ELSE x
  BY <1>1, <1>2, <1>3
<1>5. Signed(SubI(x, P)) = x - P
  <2>1. PICK d \in Int : d = x - P
    OBVIOUS
  <2>2. CASE x >= P
    <3>1. d \in Nat /\ d < WordSize /\ 2 * d < WordSize
      BY <1>1, <2>1, <2>2 DEF SignBitSet
    <3>2. d % WordSize = d
      BY <3>1, DivSmall
    <3> QED BY <2>1, <3>1, <3>2 DEF SubI, Signed
  <2>3. CASE x < P
    <3>1. PICK e \in 0 .. WordSize - 1 : e = d + WordSize
      BY <2>1, <2>3
    <3>2. PICK q \in Int : q = -1
      OBVIOUS
    <3>3. d = WordSize * q + e
      BY <3>1, <3>2
    <3>4. d % WordSize = e
      BY <3>3, DivModUnique
    <3>5. 2 * e >= WordSize
      BY <2>1, <3>1 DEF SignBitSet
    <3> QED BY <2>1, <3>1, <3>4, <3>5 DEF SubI, Signed
  <2> QED BY <2>2, <2>3
<1>6. ASSUME NEW s \in r.signed PROVE s \in {y, y - P}
  <2>1. s = x - P
    BY <1>1, <1>5
  <2> QED BY <1>4, <2>1
<1>7. y \in 0 .. P - 1
  BY <1>1, <1>4
<1> QED BY <1>2, <1>6, <1>7 DEF SignedFormRight

(* MontReducer::reduce, whichever algorithm it chooses.                       *)
THEOREM MontgomeryReduces ==
  ASSUME IsModulus, Invertible, NEW t \in Int,
         NEW fromSigned \in BOOLEAN, ReducesFrom(t, fromSigned), fromSigned => SingleLimb,
         NEW lazy \in BOOLEAN, lazy => ~ SignBitSet
  PROVE  /\ Reduce(t, fromSigned, lazy).word \in 0 .. (IF lazy THEN 2 * P ELSE P) - 1
         /\ SameMod(WordSize * Reduce(t, fromSigned, lazy).word, t, P)
         /\ SignedFormRight(Reduce(t, fromSigned, lazy))
         /\ Reduce(t, fromSigned, lazy).isAdd \in BOOLEAN
<1>1. CASE SingleLimb
  <2> DEFINE r == ReduceSingleLimb(t, fromSigned, lazy)
  <2>1. Reduce(t, fromSigned, lazy) = r
    BY <1>1 DEF Reduce
  <2>2. r.word \in 0 .. (IF lazy THEN 2 * P ELSE P) - 1 /\ (WordSize * r.word) % P = t % P
    BY SingleLimbReduces
  <2>3. SignedFormRight(r) /\ r.isAdd \in BOOLEAN
    <3>1. CASE lazy
      BY <3>1 DEF ReduceSingleLimb, AddOp, SignedFormRight
    <3>2. CASE ~ lazy
      <4> DEFINE m == MulI(Low(t), NInv)
                 u == IF fromSigned THEN Signed(m) * P ELSE m * P
      <4>1. r = CanonicalDiff(High(t), High(u))
        BY <3>2 DEF ReduceSingleLimb
      <4>2. WordSize \in Nat /\ WordSize > 0 /\ P \in Int
        BY DEF IsModulus
      <4>3. m \in Int
        <5>1. PICK z \in Int : z = Low(t) * NInv
          <6>1. Low(t) \in Int /\ NInv \in Int
            BY <4>2, HasNInv, DivModBasics DEF Low, Word
          <6> QED BY <6>1
        <5> QED BY <4>2, <5>1, DivModBasics DEF MulI
      <4>4. u \in Int
        <5> HIDE DEF m
        <5>1. Signed(m) \in Int
          BY <4>2, <4>3 DEF Signed
        <5> QED BY <4>2, <4>3, <5>1
      <4> HIDE DEF u
      <4>5. High(t) \in Int /\ High(u) \in Int
        <5>1. PICK a \in Int, b \in Int : a = t \div WordSize /\ b = u \div WordSize
          BY <4>2, <4>4, DivModBasics
        <5>2. a % WordSize \in Int /\ b % WordSize \in Int
          BY <4>2, DivModBasics
        <5> QED BY <5>1, <5>2 DEF High
      <4> HIDE DEF r
      <4>6. r.word \in 0 .. P - 1
        BY <2>2, <3>2
      <4> QED BY <4>1, <4>5, <4>6, DiffSignedForm
    <3> QED BY <3>1, <3>2
  <2> HIDE DEF r
  <2> QED BY <2>1, <2>2, <2>3 DEF SameMod
<1>2. CASE ~ SingleLimb
  <2> DEFINE r == ReduceMultiLimb(t, lazy)
  <2>1. Reduce(t, fromSigned, lazy) = r
    BY <1>2 DEF Reduce
  <2>2. t \in 0 .. P * WordSize - 1
    <3>1. P * WordSize \in Int
      BY DEF IsModulus
    <3> QED BY <1>2, <3>1 DEF ReducesFrom
  <2>3. /\ r.word \in 0 .. (IF lazy THEN 2 * P ELSE P) - 1
        /\ (WordSize * r.word) % P = t % P
        /\ r.isAdd = FALSE /\ r.signed = {}
    BY <2>2, MultiLimbReduces
  <2> HIDE DEF r
  <2> QED BY <2>1, <2>3 DEF SameMod, SignedFormRight
<1> QED BY <1>1, <1>2
=============================================================================
