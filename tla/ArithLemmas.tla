------------------------------ MODULE ArithLemmas ------------------------------
(***************************************************************************)
(* Facts about integer division, remainders and products of unknowns that  *)
(* the proofs of the word-level algorithms rest on.  The SMT backend       *)
(* decides linear arithmetic; these are the nonlinear steps.               *)
(***************************************************************************)
EXTENDS Integers, FiniteSetTheorems, WellFoundedInduction, TLAPS

(* Division with remainder by a positive number. *)
LEMMA DivModBasics ==
  ASSUME NEW a \in Int, NEW b \in Nat, b > 0
  PROVE  /\ a \div b \in Int
         /\ a % b \in 0 .. b - 1
         /\ a = b * (a \div b) + (a % b)
BY SMT

(* A product of naturals grows with either factor. *)
LEMMA MulMono ==
  ASSUME NEW a \in Int, NEW b \in Int, NEW c \in Nat, a <= b
  PROVE  c * a <= c * b
BY SMT

(* Quotient and remainder are determined by a = b * q + r, 0 <= r < b. *)
LEMMA DivModUnique ==
  ASSUME NEW a \in Int, NEW b \in Nat, b > 0,
         NEW q \in Int, NEW r \in 0 .. b - 1, a = b * q + r
  PROVE  a \div b = q /\ a % b = r
<1> DEFINE q2 == a \div b
           r2 == a % b
<1>1. q2 \in Int /\ r2 \in 0 .. b - 1 /\ a = b * q2 + r2
  BY DivModBasics
<1> HIDE DEF q2, r2
<1>2. b * (q - q2) = r2 - r
  BY <1>1, SMT
<1>3. ~(q - q2 >= 1)
  <2> SUFFICES ASSUME q - q2 >= 1 PROVE FALSE
    OBVIOUS
  <2>1. b * 1 <= b * (q - q2)
    BY <1>1, MulMono
  <2> QED BY <2>1, <1>2, <1>1, SMT
<1>4. ~(q2 - q >= 1)
  <2> SUFFICES ASSUME q2 - q >= 1 PROVE FALSE
    OBVIOUS
  <2>1. b * 1 <= b * (q2 - q)
    BY <1>1, MulMono
  <2>2. b * (q2 - q) = r - r2
    BY <1>1, SMT
  <2> QED BY <2>1, <2>2, <1>1, SMT
<1>5. q = q2
  BY <1>3, <1>4, <1>1, SMT
<1>6. r = r2
  BY <1>5, <1>2, <1>1, SMT
<1> QED BY <1>5, <1>6 DEF q2, r2

(* A multiple of b leaves no remainder. *)
LEMMA MultipleMod ==
  ASSUME NEW b \in Nat, b > 0, NEW k \in Int
  PROVE  (b * k) % b = 0
<1>1. b * k = b * k + 0 /\ b * k \in Int /\ 0 \in 0 .. b - 1
  BY SMT
<1> QED BY <1>1, DivModUnique

(* The upper bound a quotient inherits from its dividend. *)
LEMMA DivBound ==
  ASSUME NEW a \in Nat, NEW b \in Nat, b > 0, NEW c \in Nat, a < b * c
  PROVE  a \div b \in 0 .. c - 1
<1> DEFINE q == a \div b
           r == a % b
<1>1. q \in Int /\ r \in 0 .. b - 1 /\ a = b * q + r
  BY DivModBasics
<1> HIDE DEF q, r
<1>2. q < c
  <2> SUFFICES ASSUME c <= q PROVE FALSE
    BY <1>1, SMT
  <2>1. b * c <= b * q
    BY <1>1, MulMono
  <2> QED BY <2>1, <1>1, SMT
<1>3. q >= 0
  <2> SUFFICES ASSUME q <= -1 PROVE FALSE
    BY <1>1, SMT
  <2>1. b * q <= b * (-1)
    BY <1>1, MulMono
  <2> QED BY <2>1, <1>1, SMT
<1> QED BY <1>1, <1>2, <1>3, SMT DEF q

(* Below the divisor there is nothing to divide. *)
LEMMA DivSmall ==
  ASSUME NEW a \in Nat, NEW b \in Nat, a < b
  PROVE  a \div b = 0 /\ a % b = a
<1>1. a = b * 0 + a /\ a \in 0 .. b - 1 /\ b > 0
  BY SMT
<1> QED BY <1>1, DivModUnique

(* Dividing twice is dividing by the product. *)
LEMMA DivDiv ==
  ASSUME NEW a \in Nat, NEW b \in Nat, b > 0, NEW c \in Nat, c > 0
  PROVE  a \div (b * c) = (a \div b) \div c
<1> DEFINE q == a \div b
           r == a % b
           q2 == q \div c
           r2 == q % c
<1>1. q \in Int /\ r \in 0 .. b - 1 /\ a = b * q + r
  BY DivModBasics
<1>2. q2 \in Int /\ r2 \in 0 .. c - 1 /\ q = c * q2 + r2
  BY <1>1, DivModBasics
<1> HIDE DEF q, r, q2, r2
<1>3. b * (c * q2 + r2) = (b * c) * q2 + b * r2
  BY <1>2, SMT
<1>4. b * 0 <= b * r2 /\ b * r2 <= b * (c - 1) /\ b * (c - 1) = b * c - b /\ b * r2 \in Int /\ b * c \in Nat
  BY <1>2, MulMono, SMT
<1>5. b * r2 + r \in 0 .. b * c - 1
  BY <1>1, <1>4, SMT
<1>6. a = (b * c) * q2 + (b * r2 + r)
  BY <1>1, <1>2, <1>3, <1>4, SMT
<1>7. b * c > 0
  BY <1>5, <1>4, SMT
<1>8. a \div (b * c) = q2
  BY <1>2, <1>4, <1>5, <1>6, <1>7, DivModUnique
<1> QED BY <1>8 DEF q2, q

(* Every nonempty set of naturals has a least element. *)
LEMMA LeastNatural ==
  ASSUME NEW T \in SUBSET Nat, T # {}
  PROVE  \E x \in T : \A y \in T : x <= y
<1> DEFINE R == OpToRel(<, Nat)
<1>1. \E x \in T : \A y \in T : ~ (<<y, x>> \in R)
  BY NatLessThanWellFounded, WFMin
<1>2. \A x, y \in T : <<y, x>> \in R <=> y < x
  BY DEF OpToRel
<1>3. PICK x \in T : \A y \in T : ~ (y < x)
  BY ONLY <1>1, <1>2, Zenon
<1> QED BY ONLY <1>3, T \in SUBSET Nat, SMT

(* Induction over a set of numbers. *)
LEMMA NumbersClosed ==
  ASSUME NEW B, 0 \in B, \A n \in Nat : n \in B => n + 1 \in B
  PROVE  \A n \in Nat : n \in B
<1> DEFINE Bad == {n \in Nat : n \notin B}
<1>1. SUFFICES ASSUME Bad # {} PROVE FALSE
  OBVIOUS
<1>2. PICK n \in Bad : \A y \in Bad : n <= y
  <2>1. Bad \in SUBSET Nat
    OBVIOUS
  <2> HIDE DEF Bad
  <2> QED BY <1>1, <2>1, LeastNatural
<1>3. n \in Nat /\ n # 0
  BY <1>2
<1>4. n - 1 \in Nat /\ ~ (n <= n - 1) /\ (n - 1) + 1 = n
  BY <1>3
<1>5. n - 1 \in B
  BY <1>2, <1>4
<1> QED BY <1>2, <1>4, <1>5

(* The powers of two, by counting the subsets of 1 .. n. *)
LEMMA TwoPowerZero == 2^0 = 1 /\ 2^1 = 2
BY SMT

(* An interval of n numbers has 2^n subsets. *)
LEMMA SubsetsOfInterval ==
  ASSUME NEW n \in Nat
  PROVE  /\ IsFiniteSet(SUBSET (1 .. n))
         /\ Cardinality(SUBSET (1 .. n)) = 2^n
<1>1. IsFiniteSet(1 .. n) /\ Cardinality(1 .. n) = n
  <2>1. IsFiniteSet(1 .. n) /\ Cardinality(1 .. n) = IF 1 > n THEN 0 ELSE n - 1 + 1
    BY FS_Interval
  <2> QED BY <2>1
<1> QED BY <1>1, FS_SUBSET

(* The power doubles with its exponent: each subset of 1 .. n gives two of   *)
(* 1 .. n + 1.                                                                *)
LEMMA TwoPowerStep ==
  ASSUME NEW n \in Nat
  PROVE  2^n \in Nat /\ 2^n > 0 /\ 2^(n + 1) = 2 * 2^n
<1> DEFINE S == SUBSET (1 .. n)
           T == SUBSET (1 .. n + 1)
           U == T \ S
           f == [X \in S |-> X \cup {n + 1}]
<1>1. IsFiniteSet(S) /\ Cardinality(S) = 2^n
  BY SubsetsOfInterval
<1>2. IsFiniteSet(T) /\ Cardinality(T) = 2^(n + 1)
  <2>1. n + 1 \in Nat
    OBVIOUS
  <2> QED BY <2>1, SubsetsOfInterval
<1>3. f \in [S -> U]
  <2> SUFFICES ASSUME NEW X \in S PROVE X \cup {n + 1} \in U
    OBVIOUS
  <2>1. X \cup {n + 1} \subseteq 1 .. n + 1
    OBVIOUS
  <2>2. ~ (X \cup {n + 1} \subseteq 1 .. n)
    OBVIOUS
  <2> QED BY <2>1, <2>2
<1>4. ASSUME NEW X \in S, NEW Y \in S, f[X] = f[Y] PROVE X = Y
  <2>1. n + 1 \notin X /\ n + 1 \notin Y
    OBVIOUS
  <2>2. X \cup {n + 1} = Y \cup {n + 1}
    BY <1>4
  <2> QED BY <2>1, <2>2
<1>5. ASSUME NEW Z \in U PROVE \E X \in S : f[X] = Z
  <2>1. n + 1 \in Z
    <3>1. \A z \in Z : z \in 1 .. n + 1
      OBVIOUS
    <3>2. PICK z \in Z : z \notin 1 .. n
      OBVIOUS
    <3> QED BY <3>1, <3>2
  <2>2. Z \ {n + 1} \in S
    OBVIOUS
  <2>3. (Z \ {n + 1}) \cup {n + 1} = Z
    BY <2>1
  <2> QED BY <2>2, <2>3
<1>6. f \in Bijection(S, U)
  BY <1>3, <1>4, <1>5 DEF Bijection, Injection, Surjection, IsInjective
<1>7. Cardinality(U) = Cardinality(S)
  BY <1>1, <1>6, FS_Bijection DEF ExistsBijection
<1>8. S \subseteq T
  OBVIOUS
<1>9. Cardinality(U) = Cardinality(T) - Cardinality(T \cap S) /\ T \cap S = S
  BY <1>2, <1>8, FS_Difference
<1>10. Cardinality(S) \in Nat /\ Cardinality(T) \in Nat /\ (Cardinality(S) = 0 <=> S = {})
  BY <1>1, <1>2, FS_CardinalityType, FS_EmptySet
<1>11. S # {}
  OBVIOUS
<1> HIDE DEF S, T, U, f
<1> DEFINE s == Cardinality(S)
           t == Cardinality(T)
<1>12. s = t - s /\ s # 0
  <2>1. Cardinality(T \cap S) = s
    BY ONLY <1>9
  <2> QED BY ONLY <2>1, <1>7, <1>9, <1>10, <1>11
<1>13. s \in Nat /\ t \in Nat /\ s = 2^n /\ t = 2^(n + 1)
  BY ONLY <1>1, <1>2, <1>10
<1> HIDE DEF s, t
<1>14. s \in Nat /\ s > 0 /\ t = 2 * s
  BY ONLY <1>12, <1>13
<1> QED BY ONLY <1>13, <1>14

(* A power of a sum of exponents is the product of the powers. *)
LEMMA TwoPowerSum ==
  ASSUME NEW a \in Nat, NEW b \in Nat
  PROVE  2^(a + b) = 2^a * 2^b
<1> DEFINE Bad == {n \in Nat : 2^(a + n) # 2^a * 2^n}
<1>1. SUFFICES Bad = {}
  OBVIOUS
<1>2. SUFFICES ASSUME Bad # {} PROVE FALSE
  OBVIOUS
<1>3. PICK n \in Bad : \A y \in Bad : n <= y
  <2>1. Bad \in SUBSET Nat
    OBVIOUS
  <2> HIDE DEF Bad
  <2> QED BY <1>2, <2>1, LeastNatural
<1>4. n \in Nat /\ 2^(a + n) # 2^a * 2^n
  BY <1>3
<1>5. 2^a \in Nat
  BY TwoPowerStep
<1>6. CASE n = 0
  BY <1>4, <1>5, <1>6, TwoPowerZero
<1>7. CASE n > 0
  <2> DEFINE m == n - 1
  <2>1. m \in Nat /\ n = m + 1 /\ ~ (n <= m)
    BY <1>4, <1>7
  <2>2. m \notin Bad
    BY <1>3, <2>1
  <2>3. 2^(a + m) = 2^a * 2^m
    BY <2>1, <2>2
  <2>4. 2^(m + 1) = 2 * 2^m /\ 2^m \in Nat
    BY <2>1, TwoPowerStep
  <2>5. a + m \in Nat /\ a + n = (a + m) + 1
    BY <2>1
  <2>6. 2^(a + n) = 2 * 2^(a + m)
    BY <2>5, TwoPowerStep
  <2>7. 2 * (2^a * 2^m) = 2^a * (2 * 2^m)
    BY <1>5, <2>4, SMT
  <2> QED BY ONLY <1>4, <2>1, <2>3, <2>4, <2>6, <2>7
<1> QED BY <1>4, <1>6, <1>7

(* A power of two grows with its exponent. *)
LEMMA TwoPowerGrows ==
  ASSUME NEW a \in Nat, NEW b \in Nat, a < b
  PROVE  2 * 2^a <= 2^b
<1> DEFINE c == b - (a + 1)
<1>1. c \in Nat /\ b = (a + 1) + c
  OBVIOUS
<1> HIDE DEF c
<1>2. 2^b = 2^(a + 1) * 2^c
  BY <1>1, TwoPowerSum
<1>3. 2^(a + 1) = 2 * 2^a /\ 2^a \in Nat /\ 2^c \in Nat /\ 2^c >= 1
  BY <1>1, TwoPowerStep
<1> DEFINE x == 2 * 2^a
           y == 2^c
<1>4. x \in Nat /\ y \in Nat /\ 1 <= y
  BY <1>3
<1> HIDE DEF x, y
<1>5. x * 1 <= x * y
  BY <1>4, MulMono
<1>6. x * 1 = x
  BY <1>4
<1> QED BY <1>2, <1>3, <1>5, <1>6 DEF x, y

(* There are powers of two above every number. *)
LEMMA TwoPowerAbove ==
  ASSUME NEW n \in Nat
  PROVE  n < 2^n
<1> DEFINE Bad == {k \in Nat : ~ (k < 2^k)}
<1>1. SUFFICES ASSUME Bad # {} PROVE FALSE
  OBVIOUS
<1>2. PICK k \in Bad : \A y \in Bad : k <= y
  <2>1. Bad \in SUBSET Nat
    OBVIOUS
  <2> HIDE DEF Bad
  <2> QED BY <1>1, <2>1, LeastNatural
<1>3. k \in Nat /\ ~ (k < 2^k)
  BY <1>2
<1>4. CASE k = 0
  BY <1>3, <1>4, TwoPowerZero
<1>5. CASE k > 0
  <2> DEFINE m == k - 1
  <2>1. m \in Nat /\ k = m + 1 /\ ~ (k <= m)
    BY <1>3, <1>5
  <2>2. m < 2^m
    BY <1>2, <2>1
  <2>3. 2^(m + 1) = 2 * 2^m /\ 2^m \in Nat
    BY <2>1, TwoPowerStep
  <2> QED BY <1>3, <2>1, <2>2, <2>3
<1> QED BY <1>3, <1>4, <1>5

(* Congruence: numbers with one residue differ by a multiple. *)
LEMMA ResidueWitness ==
  ASSUME NEW a \in Int, NEW m \in Nat, m > 0
  PROVE  a % m \in 0 .. m - 1 /\ \E k \in Int : a = (a % m) + m * k
<1> DEFINE q == a \div m
<1>1. q \in Int /\ a % m \in 0 .. m - 1 /\ a = m * q + (a % m)
  BY DivModBasics
<1> HIDE DEF q
<1> DEFINE r == a % m
<1>2. r \in Int /\ a = r + m * q
  BY <1>1
<1> QED BY <1>1, <1>2

(* Numbers a multiple of the modulus apart have the same remainder. *)
LEMMA SameResidueIf ==
  ASSUME NEW a \in Int, NEW b \in Int, NEW m \in Nat, m > 0, NEW k \in Int, a = b + m * k
  PROVE  a % m = b % m
<1>1. PICK j \in Int : b = (b % m) + m * j
  BY ResidueWitness
<1> DEFINE r == b % m
<1>2. r \in 0 .. m - 1 /\ j + k \in Int
  BY ResidueWitness
<1> HIDE DEF r
<1>3. m * (j + k) = m * j + m * k
  BY SMT
<1>4. a = m * (j + k) + r
  BY <1>1, <1>2, <1>3, SMT DEF r
<1> DEFINE n == j + k
<1>5. n \in Int /\ a = m * n + r
  BY <1>2, <1>4
<1> HIDE DEF n
<1>6. a % m = r
  BY <1>2, <1>5, DivModUnique
<1> QED BY <1>6 DEF r

(* Congruence, as a relation the provers need not look into. *)
SameMod(a, b, m) == a % m = b % m

(* Numbers a multiple of the modulus apart are congruent. *)
LEMMA SameModIf ==
  ASSUME NEW a \in Int, NEW b \in Int, NEW m \in Nat, m > 0, NEW k \in Int, a = b + m * k
  PROVE  SameMod(a, b, m)
BY SameResidueIf, Zenon DEF SameMod

(* Congruent numbers are a multiple of the modulus apart. *)
LEMMA SameModOnlyIf ==
  ASSUME NEW a \in Int, NEW b \in Int, NEW m \in Nat, m > 0, SameMod(a, b, m)
  PROVE  \E k \in Int : a = b + m * k
<1>1. PICK i \in Int : a = (a % m) + m * i
  BY ResidueWitness
<1>2. PICK j \in Int : b = (b % m) + m * j
  BY ResidueWitness
<1> DEFINE r == b % m
           k == i - j
<1>3. r \in Int /\ k \in Int
  BY ResidueWitness
<1>4. m * (i - j) = m * i - m * j
  BY SMT
<1>5. a = r + m * i /\ b = r + m * j
  BY <1>1, <1>2 DEF SameMod
<1>6. a = b + m * k
  BY ONLY <1>3, <1>4, <1>5, a \in Int, b \in Int, m \in Nat, SMT
<1> QED BY <1>3, <1>6

(* Congruence is an equivalence. *)
LEMMA SameModEquivalence ==
  ASSUME NEW a, NEW b, NEW c, NEW m
  PROVE  /\ SameMod(a, a, m)
         /\ SameMod(a, b, m) <=> SameMod(b, a, m)
         /\ SameMod(a, b, m) /\ SameMod(b, c, m) => SameMod(a, c, m)
BY DEF SameMod

(* A number is congruent to its residue, the only residue it is congruent to. *)
LEMMA SameModResidue ==
  ASSUME NEW a \in Int, NEW m \in Nat, m > 0
  PROVE  /\ a % m \in 0 .. m - 1
         /\ SameMod(a % m, a, m)
<1>1. a % m \in 0 .. m - 1
  BY ResidueWitness
<1> DEFINE r == a % m
<1> HIDE DEF r
<1>2. r \in Nat /\ r < m
  BY <1>1 DEF r
<1>3. r % m = r
  BY <1>2, DivSmall
<1> QED BY <1>1, <1>3 DEF r, SameMod

(* Congruent numbers below the modulus are equal. *)
LEMMA SameModSmall ==
  ASSUME NEW a \in Int, NEW m \in Nat, m > 0, NEW x \in 0 .. m - 1, SameMod(x, a, m)
  PROVE  x = a % m
<1>1. x \in Nat /\ x < m
  OBVIOUS
<1>2. x % m = x
  BY <1>1, DivSmall
<1> QED BY <1>2 DEF SameMod

(* Sums, differences and products of congruent numbers are congruent. *)
LEMMA SameModSum ==
  ASSUME NEW a \in Int, NEW b \in Int, NEW c \in Int, NEW d \in Int,
         NEW m \in Nat, m > 0, SameMod(a, c, m), SameMod(b, d, m)
  PROVE  SameMod(a + b, c + d, m) /\ SameMod(a - b, c - d, m)
<1>1. PICK i \in Int : a = c + m * i
  BY SameModOnlyIf
<1>2. PICK j \in Int : b = d + m * j
  BY SameModOnlyIf
<1>3. m * (i + j) = m * i + m * j /\ m * (i - j) = m * i - m * j
  BY SMT
<1>4. m * i \in Int /\ m * j \in Int /\ m * (i + j) \in Int /\ m * (i - j) \in Int
  OBVIOUS
<1>5. a + b = (c + d) + m * (i + j) /\ a - b = (c - d) + m * (i - j)
  BY <1>1, <1>2, <1>3, <1>4
<1>6. PICK x \in Int, y \in Int : x = i + j /\ y = i - j
  OBVIOUS
<1>7. a + b = (c + d) + m * x /\ a - b = (c - d) + m * y
  BY ONLY <1>5, <1>6
<1>8. PICK s \in Int, t \in Int, u \in Int, v \in Int :
               s = a + b /\ t = c + d /\ u = a - b /\ v = c - d
  OBVIOUS
<1>9. s = t + m * x /\ u = v + m * y
  BY ONLY <1>7, <1>8
<1>10. SameMod(s, t, m)
  BY ONLY <1>9, m > 0, SameModIf
<1>11. SameMod(u, v, m)
  BY ONLY <1>9, m > 0, SameModIf
<1> QED BY ONLY <1>8, <1>10, <1>11

(* Products of congruent numbers are congruent. *)
LEMMA SameModProduct ==
  ASSUME NEW a \in Int, NEW b \in Int, NEW c \in Int, NEW d \in Int,
         NEW m \in Nat, m > 0, SameMod(a, c, m), SameMod(b, d, m)
  PROVE  SameMod(a * b, c * d, m)
<1>1. PICK i \in Int : a = c + m * i
  BY SameModOnlyIf
<1>2. PICK j \in Int : b = d + m * j
  BY SameModOnlyIf
<1> DEFINE k == i * b + c * j
<1>3. k \in Int /\ a * b \in Int /\ c * d \in Int
  BY SMT
<1>4. a * b = c * d + m * k
  <2>1. a * b = c * b + (m * i) * b
    BY <1>1, SMT
  <2>2. c * b = c * d + c * (m * j)
    BY <1>2, SMT
  <2>3. (m * i) * b = m * (i * b) /\ c * (m * j) = m * (c * j)
    BY SMT
  <2>4. m * k = m * (i * b) + m * (c * j)
    BY SMT
  <2>5. c * d \in Int /\ c * b \in Int /\ m * (i * b) \in Int /\ m * (c * j) \in Int
    BY SMT
  <2> QED BY ONLY <2>1, <2>2, <2>3, <2>4, <2>5, SMT
<1>5. PICK n \in Int : n = k
  BY <1>3
<1>6. a * b = c * d + m * n
  BY ONLY <1>4, <1>5
<1> QED BY ONLY <1>6, m > 0, SameModIf, SMT

(* A factor that has an inverse cancels. *)
LEMMA SameModCancel ==
  ASSUME NEW u \in Int, NEW v \in Int, NEW a \in Int, NEW b \in Int,
         NEW m \in Nat, m > 0, SameMod(u * v, 1, m), SameMod(u * a, b, m)
  PROVE  SameMod(a, v * b, m)
<1>1. SameMod(v * (u * a), v * b, m)
  <2>1. SameMod(v, v, m) /\ u * a \in Int
    BY SameModEquivalence
  <2> QED BY <2>1, SameModProduct
<1>2. SameMod((u * v) * a, 1 * a, m)
  <2>1. SameMod(a, a, m) /\ u * v \in Int
    BY SameModEquivalence
  <2> QED BY <2>1, SameModProduct
<1>3. v * (u * a) = (u * v) * a /\ 1 * a = a
  BY SMT
<1>4. SameMod((u * v) * a, v * b, m) /\ SameMod((u * v) * a, a, m)
  BY ONLY <1>1, <1>2, <1>3
<1> QED BY ONLY <1>4 DEF SameMod

(* Powers of two have inverses modulo an odd number, and odd numbers modulo *)
(* a power of two.                                                          *)
LEMMA TwoPowerHasInverse ==
  ASSUME NEW p \in Nat, p >= 3, p % 2 = 1, NEW n \in Nat
  PROVE  \E x \in 1 .. p - 1 : SameMod(x * 2^n, 1, p)
<1> DEFINE Bad == {k \in Nat : ~ \E x \in 1 .. p - 1 : SameMod(x * 2^k, 1, p)}
<1>1. SUFFICES ASSUME Bad # {} PROVE FALSE
  OBVIOUS
<1>2. PICK k \in Bad : \A y \in Bad : k <= y
  <2>1. Bad \in SUBSET Nat
    OBVIOUS
  <2> HIDE DEF Bad
  <2> QED BY <1>1, <2>1, LeastNatural
<1>3. k \in Nat /\ ~ \E x \in 1 .. p - 1 : SameMod(x * 2^k, 1, p)
  BY <1>2
<1>4. CASE k = 0
  <2>1. 1 * 2^k = 1 /\ 1 \in 1 .. p - 1
    BY <1>4, TwoPowerZero
  <2>2. SameMod(1 * 2^k, 1, p)
    BY <2>1 DEF SameMod
  <2> QED BY <1>3, <2>1, <2>2
<1>5. CASE k > 0
  <2> DEFINE m == k - 1
  <2>1. m \in Nat /\ k = m + 1 /\ ~ (k <= m)
    BY <1>3, <1>5
  <2>2. PICK y \in 1 .. p - 1 : SameMod(y * 2^m, 1, p)
    BY <1>2, <2>1
  <2>3. PICK b \in Nat : b = 2^m
    BY <2>1, TwoPowerStep
  <2>4. 2^k = 2 * b
    BY <2>1, <2>3, TwoPowerStep
  <2>5. PICK h \in Nat : 2 * h = p + 1
    <3>1. p = 2 * (p \div 2) + (p % 2) /\ p \div 2 \in Int
      BY DivModBasics
    <3>2. PICK q \in Int : q = p \div 2
      BY <3>1
    <3>3. q + 1 \in Nat /\ 2 * (q + 1) = p + 1
      BY <3>1, <3>2
    <3> QED BY <3>3
  <2>6. SameMod(2 * h, 1, p)
    <3>1. PICK u \in Int, one \in Int : u = 2 * h /\ one = 1
      OBVIOUS
    <3>2. u = one + p * one /\ p > 0
      BY <2>5, <3>1
    <3>3. SameMod(u, one, p)
      BY ONLY <3>2, SameModIf
    <3> QED BY <3>1, <3>3
  <2>7. PICK z \in Int : z = y * h
    OBVIOUS
  <2> DEFINE x == z % p
  <2>8. x \in 0 .. p - 1 /\ SameMod(x, z, p)
    BY SameModResidue
  <2>9. SameMod(x * (2 * b), z * (2 * b), p)
    <3>1. 2 * b \in Int /\ SameMod(2 * b, 2 * b, p)
      BY SameModEquivalence
    <3> HIDE DEF x
    <3> QED BY <2>8, <3>1, SameModProduct
  <2>10. SameMod((y * b) * (2 * h), 1 * 1, p)
    <3>1. PICK u \in Int, v \in Int : u = y * b /\ v = 2 * h
      OBVIOUS
    <3>2. SameMod(u, 1, p) /\ SameMod(v, 1, p)
      BY <2>2, <2>3, <2>6, <3>1
    <3>3. SameMod(u * v, 1 * 1, p)
      BY ONLY <3>2, p \in Nat, p >= 3, SameModProduct, SMT
    <3> QED BY <3>1, <3>3
  <2>11. z * (2 * b) = (y * b) * (2 * h)
    BY <2>7, SMT
  <2>12. SameMod(x * (2 * b), 1, p)
    <3>1. 1 * 1 = 1
      OBVIOUS
    <3> QED BY ONLY <2>9, <2>10, <2>11, <3>1 DEF SameMod
  <2>13. x # 0
    <3>1. SUFFICES ASSUME x = 0 PROVE FALSE
      OBVIOUS
    <3>2. SameMod(0, 1, p)
      <4>1. 0 * (2 * b) = 0
        OBVIOUS
      <4> QED BY ONLY <2>12, <3>1, <4>1
    <3>3. 0 % p = 0 /\ 1 % p = 1
      BY DivSmall
    <3> QED BY ONLY <3>2, <3>3 DEF SameMod
  <2>14. x \in 1 .. p - 1 /\ SameMod(x * 2^k, 1, p)
    BY <2>4, <2>8, <2>12, <2>13
  <2> QED BY <1>3, <2>14
<1> QED BY <1>3, <1>4, <1>5

(* An odd number has an inverse modulo a power of two. *)
LEMMA OddHasInverse ==
  ASSUME NEW p \in Nat, p >= 3, p % 2 = 1, NEW n \in Nat, n >= 1
  PROVE  \E x \in 0 .. 2^n - 1 : (p * x) % 2^n = 1
<1>1. PICK W \in Nat : W = 2^n
  BY TwoPowerStep
<1>2. W >= 2
  BY <1>1, TwoPowerAbove
<1>3. PICK x \in 1 .. p - 1 : SameMod(x * W, 1, p)
  BY <1>1, TwoPowerHasInverse
<1>4. PICK k \in Int : x * W = 1 + p * k
  <2>1. PICK u \in Int : u = x * W
    OBVIOUS
  <2>2. SameMod(u, 1, p)
    BY <1>3, <2>1
  <2>3. \E k \in Int : u = 1 + p * k
    BY ONLY <2>2, p \in Nat, p >= 3, SameModOnlyIf
  <2> QED BY <2>1, <2>3
<1>5. PICK a \in Int : a = -k
  OBVIOUS
<1>6. PICK c \in Int, d \in Int : c = p * a /\ d = -x
  OBVIOUS
<1>7. c = 1 + W * d
  <2>1. p * a = -(p * k) /\ W * (-x) = -(x * W)
    BY <1>5, SMT
  <2> QED BY <1>4, <1>6, <2>1
<1>8. SameMod(c, 1, W)
  <2>1. PICK one \in Int : one = 1
    OBVIOUS
  <2>2. W > 0 /\ c = one + W * d
    BY <1>2, <1>7, <2>1
  <2>3. SameMod(c, one, W)
    BY ONLY <2>2, SameModIf
  <2> QED BY <2>1, <2>3
<1> DEFINE y == a % W
<1>9. y \in 0 .. W - 1 /\ SameMod(y, a, W)
  <2>1. W > 0
    BY <1>2
  <2> QED BY <2>1, SameModResidue
<1> HIDE DEF y
<1>10. SameMod(p * y, p * a, W)
  <2>1. SameMod(p, p, W) /\ W > 0
    BY <1>2, SameModEquivalence
  <2>2. PICK z \in Int : z = y
    BY <1>9
  <2>3. SameMod(z, a, W)
    BY <1>9, <2>2
  <2>4. SameMod(p * z, p * a, W)
    BY ONLY <2>1, <2>3, SameModProduct
  <2> QED BY <2>2, <2>4
<1>11. (p * y) % W = 1 % W
  BY ONLY <1>6, <1>8, <1>10 DEF SameMod
<1>12. 1 % W = 1
  BY <1>2, DivSmall
<1> QED BY <1>1, <1>9, <1>11, <1>12

(* An odd number times a power of two never just misses a power of two. *)
LEMMA TwoPowerRoom ==
  ASSUME NEW p \in Nat, p >= 3, p % 2 = 1, NEW m \in Nat, NEW w \in Nat,
         2^m * (p - 1) < 2^w
  PROVE  p * 2^m < 2^w
<1>1. PICK a \in Nat, b \in Nat : a = 2^m /\ b = 2^w /\ a > 0
  BY TwoPowerStep
<1>2. m < w
  <2>1. SUFFICES ASSUME w <= m PROVE FALSE
    OBVIOUS
  <2>2. b <= a
    <3>1. CASE w = m
      BY <1>1, <3>1
    <3>2. CASE w < m
      BY <1>1, <3>2, TwoPowerGrows, TwoPowerStep
    <3> QED BY <2>1, <3>1, <3>2
  <2>3. a * 1 <= a * (p - 1)
    BY MulMono
  <2> QED BY <1>1, <2>2, <2>3
<1> DEFINE d == w - (m + 1)
<1>3. d \in Nat /\ w = m + (d + 1)
  BY <1>2
<1>4. PICK c \in Nat : c = 2^d /\ 2^(d + 1) = 2 * c
  BY <1>3, TwoPowerStep
<1>5. b = a * (2 * c)
  <2>1. d + 1 \in Nat
    BY <1>3
  <2> HIDE DEF d
  <2>2. 2^(m + (d + 1)) = 2^m * 2^(d + 1)
    BY <2>1, TwoPowerSum
  <2> QED BY <1>1, <1>3, <1>4, <2>2
<1>6. p - 1 < 2 * c
  <2>1. SUFFICES ASSUME 2 * c <= p - 1 PROVE FALSE
    OBVIOUS
  <2>2. a * (2 * c) <= a * (p - 1)
    BY <2>1, MulMono
  <2> QED BY <1>1, <1>5, <2>2
<1>7. p <= 2 * c - 1
  BY <1>6
<1>8. a * p <= a * (2 * c - 1) /\ a * (2 * c - 1) = a * (2 * c) - a
  BY <1>7, MulMono, SMT
<1>9. p * a = a * p /\ a * (2 * c) \in Nat /\ a * p \in Nat
  BY SMT
<1> QED BY <1>1, <1>5, <1>8, <1>9
====
