----------------------------- MODULE LoopProofs ------------------------------
(***************************************************************************)
(* The loops that the lowerings emit do what their operations promise: the *)
(* sequential loop of the binary method (BitSerial, PowUI) and the         *)
(* parallel loop of bit_reverse (BitReverse).                              *)
(*                                                                         *)
(* The binary method is right for every scalar, and field.powui, which     *)
(* reduces its exponent first, for every base other than zero.  The        *)
(* inductive invariant of the method is the sum the loop carries, Carried, *)
(* with the types and the bound on the last doubling; everything else      *)
(* about it follows.  That the exponent may be reduced is Fermat's theorem *)
(* for the units of the field: multiplying by a unit divides them into     *)
(* orbits as long as its period, which is thus a divisor of their number.  *)
(*                                                                         *)
(* bit_reverse is right for every size, every involution on the indices    *)
(* and every interleaving of the parallel iterations, in place or not.     *)
(***************************************************************************)
EXTENDS PowUI, BitReverse, ArithLemmas

-----------------------------------------------------------------------------
\* The binary method and the powers.

\* A number is its lowest bit and twice its half.
LEMMA Halves ==
  ASSUME NEW r \in Nat
  PROVE  /\ r \div 2 \in Nat /\ r % 2 \in {0, 1}
         /\ r = 2 * (r \div 2) + (r % 2)
         /\ r \div 2 <= r
  OBVIOUS

\* The weight of a number is that of its bits.
LEMMA WeightHalves ==
  ASSUME NEW r \in Nat, NEW f \in Nat
  PROVE  r * f = (r \div 2) * (2 * f) + (IF r % 2 = 1 THEN f ELSE 0)
<1> DEFINE q == r \div 2
<1>1. q \in Nat /\ r % 2 \in {0, 1} /\ r = 2 * q + (r % 2)
  BY Halves
<1>2. CASE r % 2 = 1
  <2>1. r * f = (2 * q + 1) * f  BY <1>1, <1>2
  <2>2. (2 * q + 1) * f = q * (2 * f) + f  BY <1>1
  <2> QED  BY <2>1, <2>2, <1>2
<1>3. CASE r % 2 = 0
  <2>1. r * f = (2 * q) * f  BY <1>1, <1>3
  <2>2. (2 * q) * f = q * (2 * f)  BY <1>1
  <2> QED  BY <2>1, <2>2, <1>3
<1> QED  BY <1>1, <1>2, <1>3

\* A positive number of times a factor is at least the factor.
LEMMA FactorFits ==
  ASSUME NEW r \in Nat \ {0}, NEW f \in Nat
  PROVE  f <= r * f
<1> DEFINE q == r - 1
<1>1. q \in Nat /\ r = q + 1  OBVIOUS
<1>2. r * f = q * f + f  BY <1>1
<1>3. q * f \in Nat  BY <1>1
<1> QED  BY <1>2, <1>3

\* The inductive invariant.
Inv == TypeOK /\ Carried /\ Multiplied /\ NoWastedDouble

\* It holds at the start.
LEMMA InitInv == Init => Inv
  BY ScalarAssumption
  DEF Init, InitFrom, Inv, TypeOK, Carried, Weight, Multiplied, NoWastedDouble

\* Every step keeps it.
LEMMA NextInv == Inv /\ [Next]_vars => Inv'
<1> SUFFICES ASSUME Inv, [Next]_vars PROVE Inv'
  OBVIOUS
<1> USE DEF Inv, TypeOK, Carried, Weight, Multiplied, NoWastedDouble
<1>1. CASE ReturnIdentity
  <2>1. result = scalar
    <3>1. result + 0 * factor = scalar  BY <1>1 DEF ReturnIdentity
    <3> QED  BY <3>1
  <2>2. TypeOK' /\ NoWastedDouble' /\ Multiplied'
    BY <1>1, <2>1 DEF ReturnIdentity
  <2>3. Carried'
    <3>1. rest' * (2 * factor') = 0  BY <1>1 DEF ReturnIdentity
    <3> QED  BY <1>1, <2>1, <3>1 DEF ReturnIdentity
  <2> QED  BY <2>2, <2>3
<1>2. CASE TestBit
  <2> DEFINE b == IF rest % 2 = 1 THEN factor ELSE 0
             w == (rest \div 2) * (2 * factor)
  <2>1. rest \div 2 \in Nat /\ rest \div 2 <= rest
    BY Halves
  <2>2. w \in Nat /\ b \in Nat
    BY <2>1
  <2>3. rest * factor = w + b
    BY WeightHalves
  <2>4. result + rest * factor = scalar
    BY <1>2 DEF TestBit
  <2>5. result' = result + b
    BY <1>2 DEF TestBit
  <2>6. rest' * (2 * factor') = w
    BY <1>2 DEF TestBit
  <2> HIDE DEF w, b
  <2>7. result' + rest' * (2 * factor') = scalar
    BY <2>2, <2>3, <2>4, <2>5, <2>6
  <2>8. result' \in 0 .. scalar
    BY <2>2, <2>3, <2>4, <2>5
  <2>9. /\ rest' = rest \div 2 /\ pc' = "head"
        /\ UNCHANGED <<scalar, constant, factor>>
    BY <1>2 DEF TestBit
  <2>10. Carried'
    BY <2>7, <2>9
  <2>11. TypeOK' /\ Multiplied' /\ NoWastedDouble'
    BY <2>1, <2>8, <2>9
  <2> QED  BY <2>10, <2>11
<1>3. CASE Double
  <2>1. /\ pc = "head" /\ rest \in Nat \ {0}
        /\ factor' = 2 * factor /\ pc' = "test"
        /\ UNCHANGED <<scalar, constant, rest, result>>
    BY <1>3 DEF Double
  <2>2. factor' \in Nat \ {0}
    BY <2>1
  <2>3. result + rest * factor' = scalar
    BY <2>1
  <2>4. factor' <= rest * factor'
    BY <2>1, <2>2, FactorFits
  <2> DEFINE w == rest * factor'
  <2>5. w \in Nat
    BY <2>1, <2>2
  <2> HIDE DEF w
  <2>6. factor' <= w /\ result + w = scalar
    BY <2>3, <2>4 DEF w
  <2>7. factor' <= scalar
    BY <2>2, <2>5, <2>6
  <2>8. Carried'
    BY <2>1, <2>3
  <2> QED  BY <2>1, <2>2, <2>7, <2>8
<1>4. CASE Stop
  <2>1. result + 0 * (2 * factor) = scalar  BY <1>4 DEF Stop
  <2>2. result = scalar  BY <2>1
  <2>3. rest' * (2 * factor') = 0  BY <1>4 DEF Stop
  <2> QED  BY <1>4, <2>2, <2>3 DEF Stop
<1>5. CASE UNCHANGED vars
  BY <1>5 DEF vars
<1> QED  BY <1>1, <1>2, <1>3, <1>4, <1>5 DEF Next, Terminated

\* It is an invariant of the loop.
THEOREM InvInvariant == Spec => []Inv
<1>1. Init => Inv  BY InitInv
<1>2. Inv /\ [Next]_vars => Inv'  BY NextInv
<1> QED  BY <1>1, <1>2, PTL DEF Spec

\* What the loop carries always adds up to the scalar.
THEOREM AlwaysCarries == Spec => []Carried
<1>1. Inv => Carried  BY DEF Inv
<1> QED  BY <1>1, InvInvariant, PTL

\* Types, the bounds of the result and of the bits that are left included.
THEOREM TypeCorrect == Spec => []TypeOK
<1>1. Inv => TypeOK  BY DEF Inv
<1> QED  BY <1>1, InvInvariant, PTL

\* field.powui and elliptic_curve.scalar_mul: for every scalar, constant or
\* not, the result is the multiple of the base that the scalar names.
THEOREM MultipliesCorrectly == Spec => []Multiplied
<1>1. Inv => Multiplied  BY DEF Inv
<1> QED  BY <1>1, InvInvariant, PTL

\* No doubling is wasted.
THEOREM NeverWastesDouble == Spec => []NoWastedDouble
<1>1. Inv => NoWastedDouble  BY DEF Inv
<1> QED  BY <1>1, InvInvariant, PTL

-----------------------------------------------------------------------------
\* The field.

Unit == Element \ {Zero}

\* The modulus is prime: a product of numbers below it is no multiple of it.
LEMMA NoZeroDivisor ==
  ASSUME NEW a \in 1 .. Modulus - 1, NEW b \in 1 .. Modulus - 1
  PROVE  (a * b) % Modulus # 0
<1> SUFFICES ASSUME (a * b) % Modulus = 0 PROVE FALSE
  OBVIOUS
<1> DEFINE T == {c \in Nat : c > 0 /\ (c * b) % Modulus = 0}
<1>1. Modulus \in Nat /\ Modulus > 1 /\ Modulus > 0 /\ a \in Nat /\ b \in Nat /\ b > 0 /\ b < Modulus
  BY FieldAssumption
<1>2. a \in T
  BY <1>1
<1>3. PICK c \in T : \A y \in T : c <= y
  <2>1. T \in SUBSET Nat /\ T # {}
    BY <1>2
  <2> HIDE DEF T
  <2> QED BY <2>1, LeastNatural
<1>4. c \in Nat /\ c > 0 /\ (c * b) % Modulus = 0 /\ c <= a /\ c < Modulus
  <2>1. c \in Nat /\ c > 0 /\ (c * b) % Modulus = 0
    OBVIOUS
  <2>2. c <= a
    BY <1>2, <1>3
  <2> HIDE DEF T
  <2> QED BY ONLY <1>1, <2>1, <2>2, a \in 1 .. Modulus - 1
<1> DEFINE q == Modulus \div c
           r == Modulus % c
<1>5. q \in Int /\ r \in 0 .. c - 1 /\ Modulus = c * q + r
  BY <1>1, <1>4, DivModBasics
<1>6. r = 0
  <2>1. PICK k \in Int : c * b = Modulus * k
    <3>1. PICK m \in Int : m = c * b
      BY <1>1, <1>4
    <3>2. PICK k \in Int : m = (m % Modulus) + Modulus * k
      BY ONLY <1>1, m \in Int, ResidueWitness, Zenon
    <3>3. m % Modulus = 0
      BY <1>4, <3>1
    <3>4. m = Modulus * k
      BY <1>1, <3>2, <3>3
    <3> QED BY <3>1, <3>4
  <2>2. c * b = Modulus * k
    BY <2>1
  <2> HIDE DEF q, r
  <2>3. r \in Nat /\ r < c /\ q * k \in Int /\ b - q * k \in Int /\ r * b \in Int
    BY <1>1, <1>4, <1>5
  <2>4. r * b = Modulus * (b - q * k)
    <3>1. Modulus * b = (c * q + r) * b
      BY <1>5
    <3>2. (c * q + r) * b = q * (c * b) + r * b
      BY <1>1, <1>4, <2>3, <1>5
    <3>3. q * (c * b) = q * (Modulus * k)
      BY <2>2
    <3>4. q * (Modulus * k) = Modulus * (q * k)
      BY <1>1, <1>5
    <3>5. Modulus * (b - q * k) = Modulus * b - Modulus * (q * k)
      BY <1>1, <2>3
    <3>6. Modulus * b \in Int /\ Modulus * (q * k) \in Int
      BY <1>1, <2>3
    <3> QED BY <3>1, <3>2, <3>3, <3>4, <3>5, <3>6, <2>3
  <2>5. (r * b) % Modulus = 0
    <3>1. PICK m \in Int : m = b - q * k
      BY <2>3
    <3>2. (Modulus * m) % Modulus = 0
      BY <1>1, MultipleMod
    <3> QED BY <2>4, <3>1, <3>2
  <2>6. r > 0 => r \in T
    BY <2>3, <2>5
  <2> QED BY <1>3, <2>3, <2>6, <1>4
<1>7. c # 1
  <2>1. c = 1 => c * b = b
    BY <1>1
  <2> QED BY <1>1, <1>4, <2>1, DivSmall
<1>8. c \in 2 .. Modulus - 1
  BY <1>1, <1>4, <1>7
<1> QED BY <1>6, <1>8, FieldAssumption

\* Congruence modulo the modulus.
Same(a, b) == SameMod(a, b, Modulus)

\* Products and sums of congruent numbers are congruent.
LEMMA SameCompatible ==
  ASSUME NEW a \in Int, NEW b \in Int, NEW c \in Int, NEW d \in Int, Same(a, c), Same(b, d)
  PROVE  Same(a + b, c + d) /\ Same(a - b, c - d) /\ Same(a * b, c * d)
  BY FieldAssumption, SameModSum, SameModProduct DEF Same

\* A residue is congruent to its number.
LEMMA SameFacts ==
  ASSUME NEW a \in Int
  PROVE  /\ a % Modulus \in 0 .. Modulus - 1
         /\ Same(a % Modulus, a) /\ Same(a, a % Modulus) /\ Same(a, a)
         /\ Same(a, 0) <=> a % Modulus = 0
<1>1. Modulus \in Nat /\ Modulus > 0
  BY FieldAssumption
<1>2. 0 % Modulus = 0
  BY <1>1, DivSmall
<1> QED BY <1>1, <1>2, SameModResidue, SameModEquivalence DEF Same, SameMod

\* Numbers that the modulus divides.
LEMMA ZeroFacts ==
  ASSUME NEW x \in Int, NEW y \in Int
  PROVE  /\ Same(x, 0) => Same(y * x, 0)
         /\ Same(x, 0) /\ Same(y, 0) => Same(x - y, 0)
         /\ Same(x - y, 0) <=> Same(x, y)
<1>1. Same(x, x) /\ Same(y, y) /\ 0 \in Int /\ x - y \in Int
  BY SameFacts
<1>2. ASSUME Same(x, 0) PROVE Same(y * x, 0)
  <2>1. Same(y * x, y * 0)
    BY ONLY <1>1, <1>2, SameCompatible
  <2>2. y * 0 = 0
    OBVIOUS
  <2> QED BY <2>1, <2>2
<1>3. ASSUME Same(x, 0), Same(y, 0) PROVE Same(x - y, 0)
  <2>1. Same(x - y, 0 - 0)
    BY ONLY <1>1, <1>3, SameCompatible
  <2>2. 0 - 0 = 0
    OBVIOUS
  <2> QED BY <2>1, <2>2
<1>4. ASSUME Same(x - y, 0) PROVE Same(x, y)
  <2>1. Same((x - y) + y, 0 + y)
    BY ONLY <1>1, <1>4, SameCompatible
  <2>2. (x - y) + y = x /\ 0 + y = y
    OBVIOUS
  <2> QED BY <2>1, <2>2
<1>5. ASSUME Same(x, y) PROVE Same(x - y, 0)
  <2>1. Same(x - y, y - y)
    BY ONLY <1>1, <1>5, SameCompatible
  <2>2. y - y = 0
    OBVIOUS
  <2> QED BY <2>1, <2>2
<1> QED BY <1>2, <1>3, <1>4, <1>5

\* Congruent residues are equal.
LEMMA SameSmall ==
  ASSUME NEW a \in 0 .. Modulus - 1, NEW b \in 0 .. Modulus - 1, Same(a, b)
  PROVE  a = b
<1>1. Modulus \in Nat /\ Modulus > 0 /\ a \in Nat /\ b \in Nat /\ a < Modulus /\ b < Modulus
  BY FieldAssumption
<1>2. a % Modulus = a /\ b % Modulus = b
  BY <1>1, DivSmall
<1> QED BY <1>2 DEF Same, SameMod

\* The modulus divides a factor of every product that it divides.
LEMMA SameProductZero ==
  ASSUME NEW a \in Int, NEW b \in Int, Same(a * b, 0)
  PROVE  Same(a, 0) \/ Same(b, 0)
<1> DEFINE x == a % Modulus
           y == b % Modulus
<1>1. x \in 0 .. Modulus - 1 /\ y \in 0 .. Modulus - 1 /\ Same(x, a) /\ Same(y, b)
  BY SameFacts
<1>2. SUFFICES ASSUME x # 0, y # 0 PROVE FALSE
  BY SameFacts
<1> HIDE DEF x, y
<1>3. Modulus \in Nat
  BY FieldAssumption
<1>4. x \in 1 .. Modulus - 1 /\ y \in 1 .. Modulus - 1 /\ x \in Int /\ y \in Int
      /\ x * y \in Int /\ a * b \in Int
  BY <1>1, <1>2, <1>3
<1>5. Same(x * y, a * b)
  BY <1>1, <1>4, SameCompatible
<1>6. Same(x * y, 0)
  BY <1>5 DEF Same, SameMod
<1>7. (x * y) % Modulus = 0
  BY <1>4, <1>6, SameFacts
<1> QED BY <1>4, <1>7, NoZeroDivisor

\* Multiples of a number below the modulus meet every residue.
LEMMA EveryMultiple ==
  ASSUME NEW a \in 1 .. Modulus - 1, NEW b \in 0 .. Modulus - 1
  PROVE  \E s \in 0 .. Modulus - 1 : Same(a * s, b)
<1> DEFINE R == 0 .. Modulus - 1
           f == [k \in R |-> (a * k) % Modulus]
<1>1. Modulus \in Nat /\ Modulus > 0 /\ a \in Int /\ R \subseteq Int
  BY FieldAssumption
<1>2. ASSUME NEW k \in R PROVE f[k] \in R /\ Same(f[k], a * k) /\ Same(a * k, f[k])
  <2>1. PICK m \in Int : m = a * k
    BY <1>1
  <2>2. m % Modulus \in R /\ Same(m % Modulus, m) /\ Same(m, m % Modulus)
    BY SameFacts
  <2> QED BY <2>1, <2>2
<1>3. ASSUME NEW j \in R, NEW k \in R, f[j] = f[k] PROVE j = k
  <2>1. j \in Int /\ k \in Int /\ a * j \in Int /\ a * k \in Int /\ j - k \in Int
    BY <1>1
  <2>2. Same(a * j, a * k)
    BY <1>2, <1>3 DEF Same, SameMod
  <2>3. Same(a * j - a * k, 0)
    BY <2>1, <2>2, ZeroFacts
  <2>4. a * j - a * k = a * (j - k)
    BY <1>1, <2>1
  <2>5. Same(a, 0) \/ Same(j - k, 0)
    BY <1>1, <2>1, <2>3, <2>4, SameProductZero
  <2>6. ~ Same(a, 0)
    <3>1. 0 \in R /\ a \in R /\ a # 0
      BY <1>1
    <3> QED BY <3>1, SameSmall
  <2>7. Same(j, k)
    BY <2>1, <2>5, <2>6, ZeroFacts
  <2> QED BY <2>7, SameSmall
<1>4. f \in Injection(R, R)
  BY <1>2, <1>3 DEF Injection, IsInjective
<1>5. IsFiniteSet(R)
  BY <1>1, FS_Interval
<1>6. f \in Surjection(R, R)
  BY <1>4, <1>5, FS_Injection
<1>7. PICK s \in R : f[s] = b
  BY <1>6 DEF Surjection
<1> QED BY <1>2, <1>7

\* The norm of an element other than zero.
LEMMA NormNotZero ==
  ASSUME NEW a1 \in 0 .. Modulus - 1, NEW a2 \in 0 .. Modulus - 1, a1 # 0 \/ a2 # 0,
         Degree = 2, Same(a1 * a1 - NonResidue * (a2 * a2), 0)
  PROVE  FALSE
<1>1. /\ Modulus \in Nat /\ Modulus > 0 /\ 0 \in 0 .. Modulus - 1
      /\ a1 \in Int /\ a2 \in Int
      /\ NonResidue \in Int /\ NonResidue \in 0 .. Modulus - 1
  BY FieldAssumption
<1>2. CASE a2 = 0
  <2>1. a1 * a1 - NonResidue * (a2 * a2) = a1 * a1
    BY <1>1, <1>2
  <2>2. Same(a1, 0)
    BY <1>1, <2>1, SameProductZero
  <2> QED BY <1>1, <1>2, <2>2, SameSmall
<1>3. CASE a2 # 0
  <2>1. a2 \in 1 .. Modulus - 1
    BY <1>1, <1>3
  <2>2. PICK s \in 0 .. Modulus - 1 : Same(a2 * s, a1)
    BY <2>1, EveryMultiple
  <2>3. s \in Int /\ s * s \in Int
    BY <1>1
  <2>4. PICK m \in Int, u \in Int, v \in Int, n \in Int :
          m = a2 * s /\ u = a1 * a1 /\ v = NonResidue * (a2 * a2) /\ n = s * s
    BY <1>1, <2>3
  <2>5. m * m \in Int /\ m * m - v \in Int /\ u - v \in Int
    BY <2>4
  <2>6. Same(m * m, u)
    <3>1. Same(m * m, a1 * a1)
      BY <1>1, <2>2, <2>4, SameCompatible
    <3> QED BY <2>4, <3>1
  <2>7. Same(m * m - v, u - v)
    <3>1. PICK k \in Int : k = m * m
      BY <2>5
    <3>2. Same(k - v, u - v)
      BY <2>6, <3>1, SameFacts, SameCompatible
    <3> QED BY <3>1, <3>2
  <2>8. Same(m * m - v, 0)
    BY <2>4, <2>7 DEF Same, SameMod
  <2>9. m * m - v = a2 * (a2 * (n - NonResidue))
    <3>1. m * m = a2 * (a2 * (s * s))
      BY <1>1, <2>3, <2>4
    <3>2. v = a2 * (a2 * NonResidue)
      BY <1>1, <2>4
    <3>3. a2 * (a2 * n) - a2 * (a2 * NonResidue) = a2 * (a2 * (n - NonResidue))
      BY <1>1
    <3> QED BY <3>1, <3>2, <3>3, <2>4
  <2>10. ~ Same(a2, 0)
    BY <1>1, <1>3, SameSmall
  <2>11. n - NonResidue \in Int /\ a2 * (n - NonResidue) \in Int
    BY <1>1
  <2>12. Same(n - NonResidue, 0)
    BY <1>1, <2>8, <2>9, <2>10, <2>11, SameProductZero
  <2>13. Same(n, NonResidue)
    BY <1>1, <2>12, ZeroFacts
  <2>14. n % Modulus = NonResidue
    <3>1. n % Modulus \in 0 .. Modulus - 1 /\ Same(n % Modulus, n)
      BY SameFacts
    <3>2. Same(n % Modulus, NonResidue)
      BY <2>13, <3>1 DEF Same, SameMod
    <3> QED BY <1>1, <3>1, <3>2, SameSmall
  <2> QED BY <2>4, <2>14, FieldAssumption
<1> QED BY <1>2, <1>3

-----------------------------------------------------------------------------
\* The product.

\* What an element is.
LEMMA ElementFacts ==
  ASSUME NEW a \in Element
  PROVE  /\ a = <<a[1], a[2]>>
         /\ a[1] \in 0 .. Modulus - 1 /\ a[2] \in 0 .. Modulus - 1
         /\ a[1] \in Int /\ a[2] \in Int
         /\ Degree = 1 => a[2] = 0
<1>1. 0 \in 0 .. Modulus - 1 /\ 0 .. Modulus - 1 \subseteq Int
  BY FieldAssumption
<1> QED BY <1>1 DEF Element

\* Elements with congruent coefficients are equal.
LEMMA ElementsEqual ==
  ASSUME NEW a \in Element, NEW b \in Element, Same(a[1], b[1]), Same(a[2], b[2])
  PROVE  a = b
<1>1. a[1] = b[1] /\ a[2] = b[2]
  BY ElementFacts, SameSmall
<1>2. a = <<a[1], a[2]>> /\ b = <<b[1], b[2]>>
  BY ElementFacts
<1> QED BY <1>1, <1>2

\* The coefficients of a product, before they are reduced.
First(a1, a2, b1, b2) == a1 * b1 + NonResidue * a2 * b2
Second(a1, a2, b1, b2) == a1 * b2 + a2 * b1

\* They are integers.
LEMMA CoefficientTypes ==
  ASSUME NEW a1 \in Int, NEW a2 \in Int, NEW b1 \in Int, NEW b2 \in Int
  PROVE  First(a1, a2, b1, b2) \in Int /\ Second(a1, a2, b1, b2) \in Int
  BY FieldAssumption DEF First, Second

\* A product is an element, whose coefficients are those reduced.
LEMMA MulFacts ==
  ASSUME NEW a \in Element, NEW b \in Element
  PROVE  /\ Mul(a, b) \in Element
         /\ Same(Mul(a, b)[1], First(a[1], a[2], b[1], b[2]))
         /\ Same(Mul(a, b)[2], Second(a[1], a[2], b[1], b[2]))
<1> DEFINE x == First(a[1], a[2], b[1], b[2])
           y == Second(a[1], a[2], b[1], b[2])
<1>1. x \in Int /\ y \in Int
  BY ElementFacts, CoefficientTypes
<1>2. Mul(a, b) = <<x % Modulus, y % Modulus>>
  BY DEF Mul, First, Second
<1>3. Degree = 1 => y = 0
  <2>1. Degree = 1 => a[2] = 0 /\ b[2] = 0 /\ a[1] \in Int /\ b[1] \in Int
    BY ElementFacts
  <2> QED BY <2>1 DEF Second
<1> HIDE DEF x, y
<1>4. /\ x % Modulus \in 0 .. Modulus - 1 /\ y % Modulus \in 0 .. Modulus - 1
      /\ Same(x % Modulus, x) /\ Same(y % Modulus, y)
  BY <1>1, SameFacts
<1>5. Degree = 1 => y % Modulus = 0
  BY <1>3, FieldAssumption, DivSmall
<1>6. Mul(a, b) \in Element
  BY <1>2, <1>4, <1>5 DEF Element
<1> QED BY <1>2, <1>4, <1>6 DEF x, y

\* The coefficients of a product may be reduced at any time.
LEMMA CoefficientsCompatible ==
  ASSUME NEW x1 \in Int, NEW x2 \in Int, NEW y1 \in Int, NEW y2 \in Int,
         NEW c1 \in Int, NEW c2 \in Int, Same(x1, y1), Same(x2, y2)
  PROVE  /\ Same(First(x1, x2, c1, c2), First(y1, y2, c1, c2))
         /\ Same(Second(x1, x2, c1, c2), Second(y1, y2, c1, c2))
<1>1. NonResidue \in Int
  BY FieldAssumption
<1>2. Same(x1 * c1, y1 * c1) /\ Same(x2 * c1, y2 * c1) /\ Same(x1 * c2, y1 * c2)
  BY SameFacts, SameCompatible
<1>3. Same(NonResidue * x2, NonResidue * y2)
  BY <1>1, SameFacts, SameCompatible
<1>4. PICK u \in Int, v \in Int : u = NonResidue * x2 /\ v = NonResidue * y2
  BY <1>1
<1>5. Same(u * c2, v * c2)
  BY <1>3, <1>4, SameFacts, SameCompatible
<1>6. PICK p \in Int, q \in Int, r \in Int, s \in Int :
        p = x1 * c1 /\ q = y1 * c1 /\ r = u * c2 /\ s = v * c2
  OBVIOUS
<1>7. Same(p + r, q + s)
  BY <1>2, <1>5, <1>6, SameCompatible
<1>8. PICK k \in Int, l \in Int, m \in Int, n \in Int :
        k = x1 * c2 /\ l = y1 * c2 /\ m = x2 * c1 /\ n = y2 * c1
  OBVIOUS
<1>9. Same(k + m, l + n)
  BY <1>2, <1>8, SameCompatible
<1>10. First(x1, x2, c1, c2) = p + r /\ First(y1, y2, c1, c2) = q + s
  BY <1>4, <1>6 DEF First
<1>11. Second(x1, x2, c1, c2) = k + m /\ Second(y1, y2, c1, c2) = l + n
  BY <1>8 DEF Second
<1> QED BY <1>7, <1>9, <1>10, <1>11

\* Either factor may come first.
LEMMA MulCommutes ==
  ASSUME NEW a \in Element, NEW b \in Element
  PROVE  Mul(a, b) = Mul(b, a)
<1>1. PICK a1 \in Int, a2 \in Int, b1 \in Int, b2 \in Int :
        a1 = a[1] /\ a2 = a[2] /\ b1 = b[1] /\ b2 = b[2]
  BY ElementFacts
<1>2. NonResidue \in Int
  BY FieldAssumption
<1>3. a1 * b1 = b1 * a1 /\ a1 * b2 + a2 * b1 = b1 * a2 + b2 * a1
  OBVIOUS
<1>4. NonResidue * a2 * b2 = NonResidue * b2 * a2
  BY <1>2
<1> QED BY <1>1, <1>3, <1>4 DEF Mul

\* Coefficients of threefold products.
LEMMA CoefficientsAssociate ==
  ASSUME NEW n \in Int, NEW a1 \in Int, NEW a2 \in Int, NEW b1 \in Int, NEW b2 \in Int,
         NEW c1 \in Int, NEW c2 \in Int
  PROVE  /\ (a1 * b1 + n * a2 * b2) * c1 + n * (a1 * b2 + a2 * b1) * c2
              = (b1 * c1 + n * b2 * c2) * a1 + n * (b1 * c2 + b2 * c1) * a2
         /\ (a1 * b1 + n * a2 * b2) * c2 + (a1 * b2 + a2 * b1) * c1
              = (b1 * c1 + n * b2 * c2) * a2 + (b1 * c2 + b2 * c1) * a1
  BY SMT

\* Products may be taken in any order.
LEMMA MulAssociates ==
  ASSUME NEW a \in Element, NEW b \in Element, NEW c \in Element
  PROVE  Mul(Mul(a, b), c) = Mul(a, Mul(b, c))
<1>1. PICK x, y, l, r : x = Mul(a, b) /\ y = Mul(b, c) /\ l = Mul(x, c) /\ r = Mul(y, a)
  OBVIOUS
<1>2. x \in Element /\ y \in Element /\ l \in Element /\ r \in Element
  BY <1>1, MulFacts
<1>3. PICK a1 \in Int, a2 \in Int, b1 \in Int, b2 \in Int, c1 \in Int, c2 \in Int :
        a1 = a[1] /\ a2 = a[2] /\ b1 = b[1] /\ b2 = b[2] /\ c1 = c[1] /\ c2 = c[2]
  BY ElementFacts
<1>4. PICK x1 \in Int, x2 \in Int, y1 \in Int, y2 \in Int, l1 \in Int, l2 \in Int, r1 \in Int, r2 \in Int :
        /\ x1 = x[1] /\ x2 = x[2] /\ y1 = y[1] /\ y2 = y[2]
        /\ l1 = l[1] /\ l2 = l[2] /\ r1 = r[1] /\ r2 = r[2]
  BY <1>2, ElementFacts
<1>5. PICK u1 \in Int, u2 \in Int, v1 \in Int, v2 \in Int :
        /\ u1 = First(a1, a2, b1, b2) /\ u2 = Second(a1, a2, b1, b2)
        /\ v1 = First(b1, b2, c1, c2) /\ v2 = Second(b1, b2, c1, c2)
  BY CoefficientTypes
<1>6. Same(x1, u1) /\ Same(x2, u2) /\ Same(y1, v1) /\ Same(y2, v2)
  BY <1>1, <1>3, <1>4, <1>5, MulFacts
<1>7. /\ Same(l1, First(x1, x2, c1, c2)) /\ Same(l2, Second(x1, x2, c1, c2))
      /\ Same(r1, First(y1, y2, a1, a2)) /\ Same(r2, Second(y1, y2, a1, a2))
  BY <1>1, <1>2, <1>3, <1>4, MulFacts
<1>8. /\ Same(First(x1, x2, c1, c2), First(u1, u2, c1, c2))
      /\ Same(Second(x1, x2, c1, c2), Second(u1, u2, c1, c2))
  BY <1>6, CoefficientsCompatible
<1>9. /\ Same(First(y1, y2, a1, a2), First(v1, v2, a1, a2))
      /\ Same(Second(y1, y2, a1, a2), Second(v1, v2, a1, a2))
  BY <1>6, CoefficientsCompatible
<1>10. First(u1, u2, c1, c2) = First(v1, v2, a1, a2)
  BY <1>5, CoefficientsAssociate, FieldAssumption DEF First, Second
<1>11. Second(u1, u2, c1, c2) = Second(v1, v2, a1, a2)
  BY <1>5, CoefficientsAssociate, FieldAssumption DEF First, Second
<1>12. Same(l1, r1) /\ Same(l2, r2)
  BY <1>7, <1>8, <1>9, <1>10, <1>11 DEF Same, SameMod
<1>13. l = r
  BY <1>2, <1>4, <1>12, ElementsEqual
<1>14. r = Mul(a, y)
  BY <1>1, <1>2, MulCommutes
<1> QED BY <1>1, <1>13, <1>14

\* One is an element, and neutral.
LEMMA OneFacts ==
  /\ One \in Element /\ Zero \in Element /\ One # Zero
  /\ \A a \in Element : Mul(One, a) = a /\ Mul(a, One) = a
<1>1. 0 \in 0 .. Modulus - 1 /\ 1 \in 0 .. Modulus - 1
  BY FieldAssumption
<1>2. One \in Element /\ Zero \in Element /\ One # Zero
  BY <1>1 DEF One, Zero, Element
<1>3. ASSUME NEW a \in Element PROVE Mul(One, a) = a
  <2>1. One[1] = 1 /\ One[2] = 0
    BY DEF One
  <2>2. PICK a1 \in Int, a2 \in Int : a1 = a[1] /\ a2 = a[2]
    BY ElementFacts
  <2>3. First(1, 0, a1, a2) = a1 /\ Second(1, 0, a1, a2) = a2
    <3>1. 1 * a1 + NonResidue * 0 * a2 = a1 /\ 1 * a2 + 0 * a1 = a2
      BY FieldAssumption
    <3> QED BY <3>1 DEF First, Second
  <2>4. Mul(One, a) \in Element /\ Same(Mul(One, a)[1], a1) /\ Same(Mul(One, a)[2], a2)
    BY <1>2, <2>1, <2>2, <2>3, MulFacts
  <2> QED BY <2>2, <2>4, ElementsEqual
<1> QED BY <1>2, <1>3, MulCommutes

\* A factor other than zero can be cancelled.
LEMMA Cancel ==
  ASSUME NEW a \in Unit, NEW x \in Element, NEW y \in Element, Mul(a, x) = Mul(a, y)
  PROVE  x = y
<1>1. PICK a1 \in Int, a2 \in Int, x1 \in Int, x2 \in Int, y1 \in Int, y2 \in Int :
        a1 = a[1] /\ a2 = a[2] /\ x1 = x[1] /\ x2 = x[2] /\ y1 = y[1] /\ y2 = y[2]
  BY ElementFacts DEF Unit
<1>2. /\ a1 \in 0 .. Modulus - 1 /\ a2 \in 0 .. Modulus - 1 /\ (a1 # 0 \/ a2 # 0)
      /\ Degree = 1 => a2 = 0 /\ x2 = 0 /\ y2 = 0
  <2>1. a = <<a1, a2>> /\ a # <<0, 0>>
    BY <1>1, ElementFacts DEF Unit, Zero
  <2> QED BY <1>1, <2>1, ElementFacts DEF Unit
<1>3. PICK z1 \in Int, z2 \in Int : z1 = x1 - y1 /\ z2 = x2 - y2
  OBVIOUS
<1>4. PICK f1 \in Int, f2 \in Int, g1 \in Int, g2 \in Int, h1 \in Int, h2 \in Int :
        /\ f1 = First(a1, a2, x1, x2) /\ f2 = Second(a1, a2, x1, x2)
        /\ g1 = First(a1, a2, y1, y2) /\ g2 = Second(a1, a2, y1, y2)
        /\ h1 = First(a1, a2, z1, z2) /\ h2 = Second(a1, a2, z1, z2)
  BY CoefficientTypes
<1>5. Same(f1, g1) /\ Same(f2, g2)
  <2>1. /\ Same(Mul(a, x)[1], f1) /\ Same(Mul(a, x)[2], f2)
        /\ Same(Mul(a, y)[1], g1) /\ Same(Mul(a, y)[2], g2)
    BY <1>1, <1>4, MulFacts DEF Unit
  <2> QED BY <2>1 DEF Same, SameMod
<1>6. NonResidue \in Int
  BY FieldAssumption
<1>7. h1 = f1 - g1 /\ h2 = f2 - g2
  <2>1. a1 * z1 = a1 * x1 - a1 * y1 /\ a1 * z2 = a1 * x2 - a1 * y2 /\ a2 * z1 = a2 * x1 - a2 * y1
    BY <1>3
  <2>2. NonResidue * a2 * z2 = NonResidue * a2 * x2 - NonResidue * a2 * y2
    BY <1>3, <1>6
  <2> QED BY <1>4, <1>6, <2>1, <2>2 DEF First, Second
<1>8. Same(h1, 0) /\ Same(h2, 0)
  BY <1>5, <1>7, ZeroFacts
<1>9. Same(z1, 0) /\ Same(z2, 0)
  <2>1. CASE Degree = 1
    <3>1. h1 = a1 * z1 /\ z2 = 0
      BY <1>2, <1>3, <1>4, <1>6, <2>1 DEF First
    <3>2. ~ Same(a1, 0)
      BY <1>2, <2>1, FieldAssumption, SameSmall
    <3> QED BY <1>8, <3>1, <3>2, SameProductZero, SameFacts
  <2>2. CASE Degree = 2
    <3>1. PICK n \in Int : n = a1 * a1 - NonResidue * (a2 * a2)
      BY <1>6
    <3>2. ~ Same(n, 0)
      BY <1>2, <2>2, <3>1, NormNotZero
    <3>3. n * z1 = a1 * h1 - (NonResidue * a2) * h2
      BY <1>4, <1>6, <3>1, SMT DEF First, Second
    <3>4. n * z2 = a1 * h2 - a2 * h1
      BY <1>4, <1>6, <3>1, SMT DEF First, Second
    <3>5. Same(a1 * h1 - (NonResidue * a2) * h2, 0)
      <4>1. PICK k \in Int, i \in Int, j \in Int : k = NonResidue * a2 /\ i = a1 * h1 /\ j = k * h2
        BY <1>6
      <4>2. Same(i, 0) /\ Same(j, 0)
        BY <1>8, <4>1, ZeroFacts
      <4> QED BY <4>1, <4>2, ZeroFacts
    <3>6. Same(a1 * h2 - a2 * h1, 0)
      <4>1. PICK i \in Int, j \in Int : i = a1 * h2 /\ j = a2 * h1
        OBVIOUS
      <4>2. Same(i, 0) /\ Same(j, 0)
        BY <1>8, <4>1, ZeroFacts
      <4> QED BY <4>1, <4>2, ZeroFacts
    <3> QED BY <3>2, <3>3, <3>4, <3>5, <3>6, SameProductZero
  <2> QED BY <2>1, <2>2, FieldAssumption
<1>10. Same(x1, y1) /\ Same(x2, y2)
  BY <1>3, <1>9, ZeroFacts
<1> QED BY <1>1, <1>10, ElementsEqual

-----------------------------------------------------------------------------
\* Powers.

\* The powers of a, up to the n-th.
Powers(t, a, n) == t = [k \in 0 .. n |-> IF k = 0 THEN One ELSE Mul(t[k - 1], a)]

\* There is such a list.
LEMMA PowersExist ==
  ASSUME NEW a, NEW n \in Nat
  PROVE  \E t : Powers(t, a, n)
<1> DEFINE B == {m \in Nat : \E t : Powers(t, a, m)}
<1>1. 0 \in B
  <2> DEFINE g == [k \in 0 .. 0 |-> One]
  <2>1. Powers(g, a, 0)
    BY DEF Powers
  <2> QED BY <2>1
<1>2. ASSUME NEW m \in Nat, m \in B PROVE m + 1 \in B
  <2>1. PICK t : Powers(t, a, m)
    BY <1>2
  <2> DEFINE g == [k \in 0 .. m + 1 |-> IF k = m + 1 THEN Mul(t[m], a) ELSE t[k]]
  <2>2. \A k \in 0 .. m : t[k] = IF k = 0 THEN One ELSE Mul(t[k - 1], a)
    BY <2>1 DEF Powers
  <2>3. \A k \in 0 .. m + 1 : g[k] = IF k = 0 THEN One ELSE Mul(g[k - 1], a)
    <3> SUFFICES ASSUME NEW k \in 0 .. m + 1
                 PROVE  g[k] = IF k = 0 THEN One ELSE Mul(g[k - 1], a)
      OBVIOUS
    <3>1. CASE k = m + 1
      <4>1. k # 0 /\ k - 1 = m /\ m \in 0 .. m + 1 /\ m # m + 1
        BY <3>1
      <4> QED BY <3>1, <4>1
    <3>2. CASE k # m + 1
      <4>1. k \in 0 .. m /\ (k # 0 => k - 1 \in 0 .. m + 1 /\ k - 1 # m + 1)
        BY <3>2
      <4> QED BY <2>2, <3>2, <4>1
    <3> QED BY <3>1, <3>2
  <2>4. Powers(g, a, m + 1)
    BY <2>3 DEF Powers
  <2> QED BY <2>4
<1> HIDE DEF B
<1>3. \A m \in Nat : m \in B
  BY <1>1, <1>2, NumbersClosed
<1> QED BY <1>3 DEF B

\* Shorter lists of powers agree with longer ones.
LEMMA PowersAgree ==
  ASSUME NEW a, NEW n \in Nat, NEW m \in Nat, NEW s, NEW t,
         Powers(s, a, n), Powers(t, a, m)
  PROVE  \A k \in Nat : k <= n /\ k <= m => s[k] = t[k]
<1> DEFINE B == {k \in Nat : k <= n /\ k <= m => s[k] = t[k]}
<1>1. /\ \A k \in 0 .. n : s[k] = IF k = 0 THEN One ELSE Mul(s[k - 1], a)
      /\ \A k \in 0 .. m : t[k] = IF k = 0 THEN One ELSE Mul(t[k - 1], a)
  BY DEF Powers
<1>2. 0 \in B
  BY <1>1
<1>3. ASSUME NEW k \in Nat, k \in B PROVE k + 1 \in B
  <2>1. SUFFICES ASSUME k + 1 <= n, k + 1 <= m PROVE s[k + 1] = t[k + 1]
    OBVIOUS
  <2>2. k + 1 \in 0 .. n /\ k + 1 \in 0 .. m /\ k + 1 # 0 /\ (k + 1) - 1 = k /\ k <= n /\ k <= m
    BY <2>1
  <2> QED BY <1>1, <1>3, <2>2
<1> HIDE DEF B
<1>4. \A k \in Nat : k \in B
  BY <1>2, <1>3, NumbersClosed
<1> QED BY <1>4 DEF B

\* What Power computes.
LEMMA PowerUnfolds ==
  ASSUME NEW a
  PROVE  /\ Power(a, 0) = One
         /\ \A n \in Nat : Power(a, n + 1) = Mul(Power(a, n), a)
<1> DEFINE table(n) == CHOOSE t : Powers(t, a, n)
           g == [n \in Nat |-> table(n)[n]]
<1>1. \A n \in Nat : Powers(table(n), a, n)
  BY PowersExist
<1> HIDE DEF table
<1>2. g[0] = One
  <2>1. Powers(table(0), a, 0)
    BY <1>1
  <2> QED BY <2>1 DEF Powers
<1>3. ASSUME NEW n \in Nat PROVE g[n + 1] = Mul(g[n], a)
  <2>1. n + 1 \in Nat /\ n + 1 # 0 /\ (n + 1) - 1 = n /\ n + 1 \in 0 .. n + 1 /\ n <= n /\ n <= n + 1
    OBVIOUS
  <2>2. table(n + 1)[n + 1] = Mul(table(n + 1)[n], a)
    BY <1>1, <2>1 DEF Powers
  <2>3. table(n + 1)[n] = table(n)[n]
    <3>1. PICK s, t : s = table(n + 1) /\ t = table(n)
      OBVIOUS
    <3>2. Powers(s, a, n + 1) /\ Powers(t, a, n)
      BY <1>1, <2>1, <3>1
    <3> QED BY <2>1, <3>1, <3>2, PowersAgree
  <2> QED BY <2>1, <2>2, <2>3
<1>4. \A k \in Nat : g[k] = IF k = 0 THEN One ELSE Mul(g[k - 1], a)
  <2> SUFFICES ASSUME NEW k \in Nat, k # 0 PROVE g[k] = Mul(g[k - 1], a)
    BY <1>2
  <2>1. k - 1 \in Nat /\ (k - 1) + 1 = k
    OBVIOUS
  <2> QED BY <1>3, <2>1
<1> DEFINE Solution(f) == f = [k \in Nat |-> IF k = 0 THEN One ELSE Mul(f[k - 1], a)]
           h == CHOOSE f : Solution(f)
<1>5. Solution(g)
  BY <1>4
<1>6. Solution(h)
  BY <1>5
<1>7. \A n \in Nat : Power(a, n) = h[n]
  BY DEF Power
<1> HIDE DEF h
<1>8. h[0] = One
  BY <1>6
<1>9. ASSUME NEW n \in Nat PROVE h[n + 1] = Mul(h[n], a)
  <2>1. n + 1 \in Nat /\ n + 1 # 0 /\ (n + 1) - 1 = n
    OBVIOUS
  <2> QED BY <1>6, <2>1
<1> QED BY <1>7, <1>8, <1>9

\* Products of units are units.
LEMMA UnitFacts ==
  /\ One \in Unit
  /\ \A a, b \in Unit : Mul(a, b) \in Unit
<1>1. One \in Unit
  BY OneFacts DEF Unit
<1>2. ASSUME NEW a \in Unit, NEW b \in Unit PROVE Mul(a, b) \in Unit
  <2>1. a \in Element /\ b \in Element /\ Zero \in Element /\ b # Zero
    BY OneFacts DEF Unit
  <2>2. Mul(a, Zero) = Zero
    <3>1. PICK a1 \in Int, a2 \in Int : a1 = a[1] /\ a2 = a[2]
      BY <2>1, ElementFacts
    <3>2. a1 * 0 + NonResidue * a2 * 0 = 0 /\ a1 * 0 + a2 * 0 = 0
      BY FieldAssumption
    <3>3. 0 % Modulus = 0
      BY FieldAssumption, DivSmall
    <3> QED BY <3>1, <3>2, <3>3 DEF Mul, Zero
  <2>3. Mul(a, b) \in Element
    BY <2>1, MulFacts
  <2> QED BY <2>1, <2>2, <2>3, Cancel DEF Unit
<1> QED BY <1>1, <1>2

\* So are their powers.
LEMMA PowerUnit ==
  ASSUME NEW a \in Unit, NEW n \in Nat
  PROVE  Power(a, n) \in Unit
<1> DEFINE B == {k \in Nat : Power(a, k) \in Unit}
<1>1. 0 \in B
  BY PowerUnfolds, UnitFacts
<1>2. ASSUME NEW k \in Nat, k \in B PROVE k + 1 \in B
  <2>1. Power(a, k + 1) = Mul(Power(a, k), a) /\ Power(a, k) \in Unit
    BY <1>2, PowerUnfolds
  <2> QED BY <2>1, UnitFacts
<1> HIDE DEF B
<1>3. \A k \in Nat : k \in B
  BY <1>1, <1>2, NumbersClosed
<1> QED BY <1>3 DEF B

\* The power of a sum.
LEMMA PowerSum ==
  ASSUME NEW a \in Unit, NEW m \in Nat, NEW n \in Nat
  PROVE  Power(a, m + n) = Mul(Power(a, m), Power(a, n))
<1> DEFINE B == {k \in Nat : Power(a, m + k) = Mul(Power(a, m), Power(a, k))}
<1>1. Unit \subseteq Element
  BY DEF Unit
<1>2. 0 \in B
  <2>1. m + 0 = m /\ Power(a, 0) = One /\ Power(a, m) \in Element
    BY <1>1, PowerUnfolds, PowerUnit
  <2> QED BY <2>1, OneFacts
<1>3. ASSUME NEW k \in Nat, k \in B PROVE k + 1 \in B
  <2>1. m + k \in Nat /\ m + (k + 1) = (m + k) + 1
    OBVIOUS
  <2>2. Power(a, (m + k) + 1) = Mul(Power(a, m + k), a)
    BY <2>1, PowerUnfolds
  <2>3. Power(a, k + 1) = Mul(Power(a, k), a)
    BY PowerUnfolds
  <2>4. Power(a, m) \in Element /\ Power(a, k) \in Element /\ a \in Element
    BY <1>1, PowerUnit
  <2>5. Mul(Mul(Power(a, m), Power(a, k)), a) = Mul(Power(a, m), Mul(Power(a, k), a))
    BY <2>4, MulAssociates
  <2> QED BY <1>3, <2>1, <2>2, <2>3, <2>5
<1> HIDE DEF B
<1>4. \A k \in Nat : k \in B
  BY <1>2, <1>3, NumbersClosed
<1> QED BY <1>4 DEF B

-----------------------------------------------------------------------------
\* The group of the units.

\* There are as many units as the order says.
LEMMA UnitsCounted == IsFiniteSet(Unit) /\ Cardinality(Unit) = Order /\ Order \in Nat /\ Order > 0
<1>1. Modulus \in Nat /\ Modulus > 1 /\ Degree \in {1, 2}
  BY FieldAssumption
<1> DEFINE R == 0 .. Modulus - 1
           T == IF Degree = 1 THEN {0} ELSE R
           e == IF Degree = 1 THEN 1 ELSE Modulus
<1>2. IsFiniteSet(R) /\ Cardinality(R) = Modulus
  <2>1. IsFiniteSet(R) /\ Cardinality(R) = IF 0 > Modulus - 1 THEN 0 ELSE (Modulus - 1) - 0 + 1
    BY <1>1, FS_Interval
  <2> QED BY <1>1, <2>1
<1>3. IsFiniteSet(T) /\ Cardinality(T) = e
  BY <1>2, FS_Singleton
<1>4. Element = R \X T
  BY DEF Element
<1> HIDE DEF R, T, e
<1>5. IsFiniteSet(Element) /\ Cardinality(Element) = Modulus * e
  BY <1>2, <1>3, <1>4, FS_Product
<1>6. IsFiniteSet(Unit) /\ Cardinality(Unit) = Modulus * e - 1
  BY <1>5, OneFacts, FS_RemoveElement DEF Unit
<1>7. Order = Modulus * e - 1
  BY <1>1 DEF Order, e
<1>8. Modulus * e \in Nat /\ Modulus * e > 1
  <2>1. CASE Degree = 1
    BY <1>1, <2>1 DEF e
  <2>2. CASE Degree = 2
    <3>1. Modulus * Modulus \in Nat /\ Modulus * Modulus > 1
      <4>1. Modulus * 1 <= Modulus * Modulus /\ Modulus * 1 = Modulus
        BY <1>1, MulMono
      <4>2. PICK m \in Int : m = Modulus * Modulus
        BY <1>1
      <4> QED BY <1>1, <4>1, <4>2
    <3> QED BY <2>2, <3>1 DEF e
  <2> QED BY <1>1, <2>1, <2>2
<1>9. PICK m \in Nat : m = Modulus * e
  BY <1>8
<1> QED BY <1>6, <1>7, <1>8, <1>9

\* Equal powers are a period apart.
LEMMA SamePower ==
  ASSUME NEW a \in Unit, NEW i \in Nat, NEW j \in Nat, i < j, Power(a, i) = Power(a, j)
  PROVE  Power(a, j - i) = One
<1>1. PICK n \in Nat : n = j - i /\ j = i + n
  OBVIOUS
<1>2. Power(a, j) = Mul(Power(a, i), Power(a, n))
  BY <1>1, PowerSum
<1>3. Power(a, i) \in Unit /\ Power(a, n) \in Element /\ Power(a, i) \in Element
  BY PowerUnit DEF Unit
<1>4. Mul(Power(a, i), One) = Power(a, i)
  BY <1>3, OneFacts
<1>5. Power(a, n) = One
  BY <1>2, <1>3, <1>4, OneFacts, Cancel
<1> QED BY <1>1, <1>5

IsPeriod(a, t) ==
  /\ t \in Nat /\ t > 0 /\ Power(a, t) = One
  /\ \A k \in 1 .. t - 1 : Power(a, k) # One

\* There are fewer units than numbers.
LEMMA HasPeriod ==
  ASSUME NEW a \in Unit
  PROVE  \E t : IsPeriod(a, t)
<1> DEFINE S == 0 .. Order
           f == [i \in S |-> Power(a, i)]
           T == {k \in Nat : k > 0 /\ Power(a, k) = One}
<1>1. Order \in Nat /\ IsFiniteSet(Unit) /\ Cardinality(Unit) = Order
  BY UnitsCounted
<1>2. IsFiniteSet(S) /\ Cardinality(S) = Order + 1
  <2>1. IsFiniteSet(S) /\ Cardinality(S) = IF 0 > Order THEN 0 ELSE Order - 0 + 1
    BY <1>1, FS_Interval
  <2> QED BY <1>1, <2>1
<1>3. f \in [S -> Unit] /\ \A i \in S : i \in Nat
  BY <1>1, PowerUnit
<1>4. Cardinality(Unit) < Cardinality(S)
  BY <1>1, <1>2
<1>5. PICK x, y \in S : x # y /\ f[x] = f[y]
  <2> HIDE DEF S, f
  <2> QED BY <1>1, <1>2, <1>3, <1>4, FS_PigeonHole
<1>6. PICK i \in Nat, j \in Nat : i < j /\ Power(a, i) = Power(a, j)
  BY <1>3, <1>5
<1>7. j - i \in T
  BY <1>6, SamePower
<1>8. PICK t \in T : \A k \in T : t <= k
  <2>1. T \in SUBSET Nat /\ T # {}
    BY <1>7
  <2> HIDE DEF T
  <2> QED BY <2>1, LeastNatural
<1>9. ASSUME NEW k \in 1 .. t - 1 PROVE Power(a, k) # One
  <2>1. k \in Nat /\ k > 0 /\ ~ (t <= k)
    OBVIOUS
  <2> QED BY <1>8, <2>1
<1> QED BY <1>9 DEF IsPeriod

\* What powers of a make of x.
Orbit(x, a, t) == {Mul(x, Power(a, i)) : i \in 0 .. t - 1}

\* Neither in nor out of it leads multiplication by a.
Closed(S, a) == \A y \in Unit : y \in S <=> Mul(y, a) \in S

\* The next member of an orbit.
LEMMA NextInOrbit ==
  ASSUME NEW a \in Unit, NEW x \in Unit, NEW i \in Nat
  PROVE  Mul(Mul(x, Power(a, i)), a) = Mul(x, Power(a, i + 1))
<1>1. a \in Element /\ x \in Element /\ Power(a, i) \in Element
  BY PowerUnit DEF Unit
<1>2. Power(a, i + 1) = Mul(Power(a, i), a)
  BY PowerUnfolds
<1> QED BY <1>1, <1>2, MulAssociates

\* An orbit has as many members as its period.
LEMMA OrbitCounted ==
  ASSUME NEW a \in Unit, NEW x \in Unit, NEW t, IsPeriod(a, t)
  PROVE  /\ Orbit(x, a, t) \subseteq Unit /\ x \in Orbit(x, a, t)
         /\ IsFiniteSet(Orbit(x, a, t)) /\ Cardinality(Orbit(x, a, t)) = t
<1> DEFINE I == 0 .. t - 1
           O == Orbit(x, a, t)
           f == [i \in I |-> Mul(x, Power(a, i))]
<1>1. t \in Nat /\ t > 0 /\ I \subseteq Nat /\ 0 \in I
  BY DEF IsPeriod
<1>2. \A i \in I : Power(a, i) \in Unit /\ Mul(x, Power(a, i)) \in Unit
  BY <1>1, PowerUnit, UnitFacts
<1>3. O \subseteq Unit
  BY <1>2 DEF Orbit
<1>4. x \in O
  <2>1. Mul(x, Power(a, 0)) = x
    BY PowerUnfolds, OneFacts DEF Unit
  <2> QED BY <1>1, <2>1 DEF Orbit
<1>5. ASSUME NEW i \in I, NEW j \in I, f[i] = f[j], i < j PROVE FALSE
  <2>1. Power(a, i) = Power(a, j)
    BY <1>2, <1>5, Cancel DEF Unit
  <2>2. i \in Nat /\ j \in Nat /\ j - i \in 1 .. t - 1
    BY <1>1, <1>5
  <2> QED BY <1>5, <2>1, <2>2, SamePower DEF IsPeriod
<1>6. \A i, j \in I : f[i] = f[j] => i = j
  <2> SUFFICES ASSUME NEW i \in I, NEW j \in I, f[i] = f[j] PROVE i = j
    OBVIOUS
  <2>1. i \in Nat /\ j \in Nat
    BY <1>1
  <2>2. ~ (i < j) /\ ~ (j < i)
    BY <1>5
  <2> QED BY <2>1, <2>2
<1>7. f \in Bijection(I, O)
  <2>1. f \in [I -> O] /\ \A y \in O : \E i \in I : f[i] = y
    BY DEF Orbit
  <2> QED BY <1>6, <2>1 DEF Bijection, Injection, Surjection, IsInjective
<1>8. IsFiniteSet(I) /\ Cardinality(I) = t
  <2>1. IsFiniteSet(I) /\ Cardinality(I) = IF 0 > t - 1 THEN 0 ELSE (t - 1) - 0 + 1
    BY <1>1, FS_Interval
  <2> QED BY <1>1, <2>1
<1>9. IsFiniteSet(O) /\ Cardinality(O) = t
  <2>1. ExistsBijection(I, O)
    BY <1>7 DEF ExistsBijection
  <2> HIDE DEF I, O
  <2> QED BY <1>8, <2>1, FS_Bijection
<1> QED BY <1>3, <1>4, <1>9

\* Multiplication by a leads from members to members, and only from those.
LEMMA OrbitClosed ==
  ASSUME NEW a \in Unit, NEW x \in Unit, NEW t, IsPeriod(a, t)
  PROVE  Closed(Orbit(x, a, t), a)
<1>1. t \in Nat /\ t > 0 /\ Power(a, t) = One /\ Power(a, 0) = One
  BY PowerUnfolds DEF IsPeriod
<1> SUFFICES ASSUME NEW y \in Unit
             PROVE  y \in Orbit(x, a, t) <=> Mul(y, a) \in Orbit(x, a, t)
  BY DEF Closed
<1>2. ASSUME NEW i \in 0 .. t - 1, y = Mul(x, Power(a, i)) PROVE Mul(y, a) \in Orbit(x, a, t)
  <2>1. i \in Nat /\ Mul(y, a) = Mul(x, Power(a, i + 1))
    BY <1>2, NextInOrbit
  <2>2. CASE i = t - 1
    <3>1. i + 1 = t /\ 0 \in 0 .. t - 1
      BY <1>1, <2>2
    <3>2. Mul(y, a) = Mul(x, Power(a, 0))
      BY <1>1, <2>1, <3>1
    <3> QED BY <3>1, <3>2 DEF Orbit
  <2>3. CASE i # t - 1
    <3>1. i + 1 \in 0 .. t - 1
      BY <1>1, <2>3
    <3> QED BY <2>1, <3>1 DEF Orbit
  <2> QED BY <2>2, <2>3
<1>3. ASSUME NEW i \in 0 .. t - 1, Mul(y, a) = Mul(x, Power(a, i)) PROVE y \in Orbit(x, a, t)
  <2>1. PICK k \in 0 .. t - 1 : Power(a, i) = Power(a, k + 1)
    <3>1. CASE i = 0
      <4>1. t - 1 \in 0 .. t - 1 /\ (t - 1) + 1 = t
        BY <1>1
      <4>2. Power(a, i) = Power(a, t)
        BY <1>1, <3>1
      <4> QED BY <4>1, <4>2
    <3>2. CASE i # 0
      <4>1. i - 1 \in 0 .. t - 1 /\ (i - 1) + 1 = i
        BY <1>1, <3>2
      <4> QED BY <4>1
    <3> QED BY <3>1, <3>2
  <2>2. PICK z : z = Mul(x, Power(a, k))
    OBVIOUS
  <2>3. k \in Nat /\ z \in Unit /\ Mul(z, a) = Mul(x, Power(a, k + 1))
    BY <2>2, PowerUnit, UnitFacts, NextInOrbit
  <2>4. Mul(a, y) = Mul(a, z)
    BY <1>3, <2>1, <2>3, MulCommutes DEF Unit
  <2>5. y = z
    BY <2>3, <2>4, Cancel DEF Unit
  <2> QED BY <2>2, <2>5 DEF Orbit
<1> QED BY <1>2, <1>3 DEF Orbit

\* A closed set has the orbit of each of its members.
LEMMA OrbitWithin ==
  ASSUME NEW a \in Unit, NEW S \in SUBSET Unit, NEW x \in S, NEW t, Closed(S, a), IsPeriod(a, t)
  PROVE  Orbit(x, a, t) \subseteq S
<1> DEFINE B == {i \in Nat : Mul(x, Power(a, i)) \in S}
<1>1. x \in Unit
  OBVIOUS
<1>2. 0 \in B
  <2>1. Mul(x, Power(a, 0)) = x
    BY <1>1, PowerUnfolds, OneFacts DEF Unit
  <2> QED BY <2>1
<1>3. ASSUME NEW i \in Nat, i \in B PROVE i + 1 \in B
  <2>1. PICK y \in Unit : y = Mul(x, Power(a, i))
    BY <1>1, PowerUnit, UnitFacts
  <2>2. Mul(y, a) \in S
    BY <1>3, <2>1 DEF Closed
  <2>3. Mul(y, a) = Mul(x, Power(a, i + 1))
    BY <1>1, <2>1, NextInOrbit
  <2> QED BY <2>2, <2>3
<1> HIDE DEF B
<1>4. \A i \in Nat : i \in B
  BY <1>2, <1>3, NumbersClosed
<1> QED BY <1>4 DEF B, Orbit

\* A closed set falls into orbits, so its size is a multiple of the period.
LEMMA ClosedPower ==
  ASSUME NEW a \in Unit, NEW S \in SUBSET Unit, Closed(S, a)
  PROVE  Power(a, Cardinality(S)) = One
<1>1. PICK t : IsPeriod(a, t)
  BY HasPeriod
<1>2. t \in Nat /\ t > 0 /\ Power(a, t) = One
  BY <1>1 DEF IsPeriod
<1> DEFINE Bad == {n \in Nat : \E X \in SUBSET Unit :
                     Closed(X, a) /\ Cardinality(X) = n /\ Power(a, n) # One}
<1>3. \A X \in SUBSET Unit : IsFiniteSet(X) /\ Cardinality(X) \in Nat
  BY UnitsCounted, FS_Subset, FS_CardinalityType
<1>4. SUFFICES ASSUME Bad # {} PROVE FALSE
  BY <1>3
<1>5. PICK n \in Bad : \A k \in Bad : n <= k
  <2>1. Bad \in SUBSET Nat
    OBVIOUS
  <2> HIDE DEF Bad
  <2> QED BY <1>4, <2>1, LeastNatural
<1>6. PICK X \in SUBSET Unit : Closed(X, a) /\ Cardinality(X) = n /\ Power(a, n) # One
  OBVIOUS
<1>7. n \in Nat /\ n # 0
  BY <1>6, PowerUnfolds
<1>8. PICK x \in X : TRUE
  BY <1>3, <1>6, <1>7, FS_EmptySet
<1> DEFINE O == Orbit(x, a, t)
           Y == X \ O
<1>9. O \subseteq X /\ IsFiniteSet(O) /\ Cardinality(O) = t /\ Closed(O, a)
  BY <1>1, <1>6, OrbitWithin, OrbitCounted, OrbitClosed
<1>10. Y \in SUBSET Unit /\ Closed(Y, a)
  BY <1>6, <1>9 DEF Closed
<1>11. Cardinality(Y) = n - t
  <2>1. Cardinality(Y) = Cardinality(X) - Cardinality(X \cap O)
    BY <1>3, FS_Difference
  <2>2. X \cap O = O
    BY <1>9
  <2> QED BY <1>6, <1>9, <2>1, <2>2
<1> HIDE DEF O, Y
<1>12. PICK m \in Nat : m = n - t /\ n = m + t /\ ~ (n <= m)
  <2>1. n - t \in Nat
    BY <1>3, <1>10, <1>11
  <2> QED BY <1>2, <1>7, <2>1
<1>13. Power(a, m) = One
  <2>1. m \notin Bad
    BY <1>5, <1>12
  <2> QED BY <1>10, <1>11, <1>12, <2>1
<1>14. Power(a, n) = Mul(Power(a, m), Power(a, t))
  BY <1>2, <1>12, PowerSum
<1>15. Mul(One, One) = One
  BY OneFacts
<1> QED BY <1>2, <1>6, <1>13, <1>14, <1>15

\* Fermat's theorem, for the units of a field.
LEMMA OrderIsPeriod ==
  ASSUME NEW a \in Unit
  PROVE  Power(a, Order) = One
<1>1. Closed(Unit, a)
  BY UnitFacts DEF Closed
<1> QED BY <1>1, UnitsCounted, ClosedPower

\* A power does not change with a multiple of the order.
LEMMA PowerReduced ==
  ASSUME NEW a \in Unit, NEW n \in Nat
  PROVE  ReducedExp(n) \in Nat /\ Power(a, ReducedExp(n)) = Power(a, n)
<1>1. PICK m \in Nat : m = Order /\ m > 0
  BY UnitsCounted
<1> DEFINE q == n \div m
           r == n % m
           B == {k \in Nat : m * k \in Nat /\ Power(a, m * k) = One}
<1>2. q \in Nat /\ r \in Nat /\ n = m * q + r
  <2>1. q \in Int /\ r \in 0 .. m - 1 /\ n = m * q + r
    BY <1>1, DivModBasics
  <2> QED BY <1>1, <2>1
<1>3. 0 \in B
  <2>1. m * 0 = 0
    OBVIOUS
  <2> QED BY <2>1, PowerUnfolds
<1>4. ASSUME NEW k \in Nat, k \in B PROVE k + 1 \in B
  <2>1. PICK u \in Nat : u = m * k /\ m * (k + 1) = u + m
    BY <1>1
  <2>2. Power(a, u + m) = Mul(Power(a, u), Power(a, m))
    BY PowerSum
  <2>3. Power(a, u) = One /\ Power(a, m) = One /\ Mul(One, One) = One
    BY <1>1, <1>4, <2>1, OrderIsPeriod, OneFacts
  <2> QED BY <2>1, <2>2, <2>3
<1> HIDE DEF B, q, r
<1>5. \A k \in Nat : k \in B
  BY <1>3, <1>4, NumbersClosed
<1>6. PICK u \in Nat : u = m * q /\ Power(a, u) = One
  BY <1>2, <1>5 DEF B
<1>7. Power(a, n) = Mul(One, Power(a, r))
  BY <1>2, <1>6, PowerSum
<1>8. Mul(One, Power(a, r)) = Power(a, r)
  BY <1>2, PowerUnit, OneFacts DEF Unit
<1>9. ReducedExp(n) = r
  BY <1>1 DEF ReducedExp, r
<1> QED BY <1>2, <1>7, <1>8, <1>9
-----------------------------------------------------------------------------
\* field.powui: the binary method for the exponent that is left.
PowInv == Inv /\ base \in Element /\ exp \in Nat /\ scalar = ReducedExp(exp)

\* The exponent that is left is a natural number.
LEMMA InitPowInv == InitPow => PowInv
<1> SUFFICES ASSUME InitPow PROVE PowInv
  OBVIOUS
<1>1. base \in Element /\ exp \in Nat /\ constant \in BOOLEAN /\ InitFrom(ReducedExp(exp))
  BY ExponentAssumption DEF InitPow
<1>2. PICK s \in Nat : s = ReducedExp(exp)
  BY <1>1, UnitFacts, PowerReduced
<1>3. Inv
  BY <1>1, <1>2
  DEF InitFrom, Inv, TypeOK, Carried, Weight, Multiplied, NoWastedDouble
<1> QED BY <1>1, <1>3 DEF PowInv, InitFrom

\* No step changes the operands.
LEMMA NextPowInv == PowInv /\ [NextPow]_powVars => PowInv'
<1> SUFFICES ASSUME PowInv, [NextPow]_powVars PROVE PowInv'
  OBVIOUS
<1>1. [Next]_vars /\ base' = base /\ exp' = exp
  BY DEF NextPow, powVars
<1>2. scalar' = scalar
  BY <1>1 DEF Next, vars, ReturnIdentity, TestBit, Double, Stop, Terminated
<1>3. Inv'
  BY <1>1, NextInv DEF PowInv
<1> QED BY <1>1, <1>2, <1>3 DEF PowInv, ReducedExp

\* The lowering of field.powui keeps the invariant of the loop.
THEOREM PowInvariant == SpecPow => []PowInv
<1> QED BY InitPowInv, NextPowInv, PTL DEF SpecPow

\* What the loop of field.powui carries adds up to the reduced exponent.
THEOREM PowCarries == SpecPow => []Carried
<1>1. PowInv => Carried  BY DEF PowInv, Inv
<1> QED  BY <1>1, PowInvariant, PTL

\* The loop of field.powui ends in the power that the reduced exponent names.
THEOREM PowMultiplies == SpecPow => []Multiplied
<1>1. PowInv => Multiplied  BY DEF PowInv, Inv
<1> QED  BY <1>1, PowInvariant, PTL

\* field.powui of a nonzero base is exact, for every prime modulus, every
\* quadratic extension and every exponent: reducing the exponent modulo the
\* order of the group changes no power.
THEOREM KeepsUnitPowers == SpecPow => []UnitPowered
<1>1. PowInv => UnitPowered
  <2> SUFFICES ASSUME PowInv, pc = "done", base # Zero
               PROVE  Power(base, result) = Power(base, exp)
    BY DEF UnitPowered
  <2>1. base \in Unit /\ exp \in Nat /\ scalar = ReducedExp(exp) /\ result = scalar
    BY DEF PowInv, Inv, Multiplied, Unit
  <2>2. Power(base, ReducedExp(exp)) = Power(base, exp)
    BY <2>1, PowerReduced
  <2> QED BY <2>1, <2>2
<1> QED  BY <1>1, PowInvariant, PTL

-----------------------------------------------------------------------------
\* The parallel bit reversal.

(* Partners are cells and come in pairs. *)
LEMMA PartnerFacts ==
  ASSUME NEW c \in Cell
  PROVE  /\ Partner(c) \in Cell
         /\ Partner(Partner(c)) = c
         /\ c[1] \in Nat /\ Rev[c[1]] \in Nat
<1>1. c = <<c[1], c[2]>> /\ c[1] \in Index /\ c[2] \in Rest
  BY DEF Cell
<1>2. Rev[c[1]] \in Index /\ Rev[Rev[c[1]]] = c[1]
  BY <1>1, RevAssumption
<1>3. Partner(c) \in Cell
  BY <1>1, <1>2 DEF Partner, Cell
<1>4. Partner(Partner(c)) = <<c[1], c[2]>>
  BY <1>2 DEF Partner
<1> QED BY <1>1, <1>2, <1>3, <1>4, IndexAssumption

(* One side of a pair at least swaps. *)
LEMMA SomeoneSwaps ==
  ASSUME NEW c \in Cell
  PROVE  Swaps(c) \/ Swaps(Partner(c))
<1>1. Partner(c)[1] = Rev[c[1]] /\ Rev[Partner(c)[1]] = c[1]
  <2>1. c[1] \in Index
    BY DEF Cell
  <2> QED BY <2>1, RevAssumption DEF Partner
<1> QED BY <1>1, PartnerFacts DEF Swaps

(* Two iterations that swap have no element in common. *)
LEMMA OneOwner ==
  ASSUME NEW c \in Cell, NEW d \in Cell, c # d, Swaps(c), Swaps(d)
  PROVE  c # Partner(d) /\ Partner(c) # d /\ Partner(c) # Partner(d)
<1>1. Partner(c) # Partner(d)
  BY PartnerFacts
<1>2. c # Partner(d)
  <2> SUFFICES ASSUME c = Partner(d) PROVE FALSE
    OBVIOUS
  <2>1. c = <<c[1], c[2]>> /\ d = <<d[1], d[2]>> /\ d[1] \in Index
    BY DEF Cell
  <2>2. c[1] = Rev[d[1]] /\ c[2] = d[2] /\ Rev[c[1]] = d[1]
    BY <2>1, RevAssumption DEF Partner
  <2>3. d[1] >= c[1] /\ c[1] >= d[1]
    BY <2>2 DEF Swaps
  <2>4. c[1] = d[1]
    BY <2>3, PartnerFacts
  <2> QED BY <2>1, <2>2, <2>4
<1>3. Partner(c) # d
  BY <1>2, PartnerFacts
<1> QED BY <1>1, <1>2, <1>3

-----------------------------------------------------------------------------
(* What an iteration that swaps has done, by its program counter. *)
SwapInv(c) ==
  /\ phase[c] \in {"guard", "load1", "load2"} =>
       mem["source"][c] = Input[c] /\ mem["source"][Partner(c)] = Input[Partner(c)]
  /\ phase[c] \in {"load2", "store1", "store2"} => e1[c] = Input[c]
  /\ phase[c] \in {"store1", "store2"} => e2[c] = Input[Partner(c)]
  /\ phase[c] \in {"store2", "done"} => mem[Dest][Partner(c)] = Input[c]
  /\ phase[c] = "done" => mem[Dest][c] = Input[Partner(c)]

CellInv(c) == IF Swaps(c) THEN SwapInv(c) ELSE phase[c] \in {"guard", "done"}

(* The inductive invariant. *)
ReverseInv == ReverseTypeOK /\ SourceKept /\ \A c \in Cell : CellInv(c)

(* Before the loop nothing has been read or written. *)
LEMMA InitReverseInv == InitReverse => ReverseInv
<1> SUFFICES ASSUME InitReverse PROVE ReverseInv
  OBVIOUS
<1> USE DEF InitReverse
<1>1. mem["source"] = Input /\ DOMAIN mem = {"source", "dest"}
      /\ mem["dest"] = [c \in Cell |-> Unwritten]
  OBVIOUS
<1>2. /\ Input = [c \in Cell |-> Input[c]]
      /\ mem["dest"] = [c \in Cell |-> mem["dest"][c]]
  BY <1>1, InputAssumption
<1>3. ReverseTypeOK
  BY <1>1, <1>2 DEF ReverseTypeOK, Phases
<1>4. ASSUME NEW c \in Cell PROVE CellInv(c)
  BY <1>1 DEF CellInv, SwapInv
<1> QED BY <1>1, <1>3, <1>4 DEF ReverseInv, SourceKept

(* A store changes one element of the destination buffer only. *)
LEMMA WriteFacts ==
  ASSUME ReverseTypeOK, NEW cell \in Cell, NEW v, Write(cell, v)
  PROVE  /\ DOMAIN mem' = {"source", "dest"}
         /\ \A b \in {"source", "dest"} : mem'[b] = [k \in Cell |-> mem'[b][k]]
         /\ mem'[Dest][cell] = v
         /\ \A b \in {"source", "dest"}, d \in Cell :
              d # cell => mem'[b][d] = mem[b][d]
         /\ ~inPlace => mem'["source"] = mem["source"]
<1>1. Dest \in {"source", "dest"} /\ (~inPlace => Dest = "dest")
  BY DEF Dest
<1>2. DOMAIN mem = {"source", "dest"} /\ \A b \in {"source", "dest"} : mem[b] = [k \in Cell |-> mem[b][k]]
  BY DEF ReverseTypeOK
<1>3. mem' = [mem EXCEPT ![Dest][cell] = v]
  BY DEF Write
<1> HIDE DEF Dest
<1>4. DOMAIN mem' = {"source", "dest"}
  BY <1>2, <1>3
<1>5. \A b \in {"source", "dest"} :
        mem'[b] = IF b = Dest THEN [mem[b] EXCEPT ![cell] = v] ELSE mem[b]
  BY <1>1, <1>2, <1>3
<1> QED BY <1>1, <1>2, <1>4, <1>5

(* Every step of the iteration at c preserves the invariant.  Its own part   *)
(* follows its program counter; the other iterations share no element.       *)
LEMMA StepInv ==
  ASSUME ReverseInv, NEW c \in Cell, Step(c)
  PROVE  ReverseInv'
<1>1. /\ phase \in [Cell -> Phases] /\ DOMAIN e1 = Cell /\ DOMAIN e2 = Cell
      /\ DOMAIN mem = {"source", "dest"} /\ inPlace \in BOOLEAN
      /\ \A b \in {"source", "dest"} : mem[b] = [k \in Cell |-> mem[b][k]]
  BY DEF ReverseInv, ReverseTypeOK
<1>2. \A d \in Cell : CellInv(d)
  BY DEF ReverseInv
<1>3. Partner(c) \in Cell /\ Partner(Partner(c)) = c
  BY PartnerFacts
<1>4. CASE Guard(c)
  <2>1. /\ e1' = e1 /\ e2' = e2 /\ mem' = mem /\ inPlace' = inPlace /\ phase[c] = "guard"
        /\ phase' = [phase EXCEPT ![c] = IF Swaps(c) THEN "load1" ELSE "done"]
    BY <1>4 DEF Guard, Goto
  <2>2. ReverseTypeOK' /\ SourceKept'
    BY <2>1, <1>1 DEF ReverseInv, ReverseTypeOK, SourceKept, Phases
  <2>3. ASSUME NEW d \in Cell PROVE CellInv(d)'
    <3>1. CASE d = c
      BY <3>1, <2>1, <1>1, <1>2 DEF CellInv, SwapInv, Swaps, Dest
    <3>2. CASE d # c
      BY <3>2, <2>1, <1>1, <1>2 DEF CellInv, SwapInv, Swaps, Dest
    <3> QED BY <3>1, <3>2
  <2> QED BY <2>2, <2>3 DEF ReverseInv
<1>5. phase[c] \in {"load1", "load2", "store1", "store2"} => Swaps(c) /\ SwapInv(c)
  BY <1>2 DEF CellInv
<1>6. CASE Load1(c)
  <2>1. /\ e1' = [e1 EXCEPT ![c] = mem["source"][c]] /\ e2' = e2 /\ mem' = mem /\ inPlace' = inPlace
        /\ phase[c] = "load1" /\ phase' = [phase EXCEPT ![c] = "load2"]
    BY <1>6 DEF Load1, Goto
  <2>2. ReverseTypeOK' /\ SourceKept'
    BY <2>1, <1>1 DEF ReverseInv, ReverseTypeOK, SourceKept, Phases
  <2>3. ASSUME NEW d \in Cell PROVE CellInv(d)'
    <3>1. CASE d = c
      <4>1. mem["source"][c] = Input[c] /\ mem["source"][Partner(c)] = Input[Partner(c)]
        BY <2>1, <1>5 DEF SwapInv
      <4>2. phase'[c] = "load2" /\ e1'[c] = Input[c]
        BY <2>1, <1>1, <4>1
      <4> QED BY <3>1, <4>1, <4>2, <2>1, <1>5 DEF CellInv, SwapInv, Swaps, Dest
    <3>2. CASE d # c
      <4>1. phase'[d] = phase[d] /\ e1'[d] = e1[d]
        BY <3>2, <2>1, <1>1
      <4> QED BY <4>1, <2>1, <1>2 DEF CellInv, SwapInv, Swaps, Dest
    <3> QED BY <3>1, <3>2
  <2> QED BY <2>2, <2>3 DEF ReverseInv
<1>7. CASE Load2(c)
  <2>1. /\ e2' = [e2 EXCEPT ![c] = mem["source"][Partner(c)]] /\ e1' = e1
        /\ inPlace' = inPlace /\ mem' = mem /\ phase[c] = "load2" /\ phase' = [phase EXCEPT ![c] = "store1"]
    BY <1>7 DEF Load2, Goto
  <2>2. ReverseTypeOK' /\ SourceKept'
    BY <2>1, <1>1 DEF ReverseInv, ReverseTypeOK, SourceKept, Phases
  <2>3. ASSUME NEW d \in Cell PROVE CellInv(d)'
    <3>1. CASE d = c
      <4>1. mem["source"][Partner(c)] = Input[Partner(c)] /\ e1[c] = Input[c]
        BY <2>1, <1>5 DEF SwapInv
      <4>2. phase'[c] = "store1" /\ e2'[c] = Input[Partner(c)]
        BY <2>1, <1>1, <4>1
      <4> QED BY <3>1, <4>1, <4>2, <2>1, <1>5 DEF CellInv, SwapInv, Swaps, Dest
    <3>2. CASE d # c
      <4>1. phase'[d] = phase[d] /\ e2'[d] = e2[d]
        BY <3>2, <2>1, <1>1
      <4> QED BY <4>1, <2>1, <1>2 DEF CellInv, SwapInv, Swaps, Dest
    <3> QED BY <3>1, <3>2
  <2> QED BY <2>2, <2>3 DEF ReverseInv
<1>8. CASE Store1(c)
  <2>1. /\ e1' = e1 /\ e2' = e2 /\ inPlace' = inPlace /\ phase[c] = "store1"
        /\ phase' = [phase EXCEPT ![c] = "store2"] /\ Write(Partner(c), e1[c])
    BY <1>8 DEF Store1, Goto
  <2>2. /\ DOMAIN mem' = {"source", "dest"}
        /\ \A b \in {"source", "dest"} : mem'[b] = [k \in Cell |-> mem'[b][k]]
        /\ mem'[Dest][Partner(c)] = e1[c]
        /\ \A b \in {"source", "dest"}, d \in Cell :
             d # Partner(c) => mem'[b][d] = mem[b][d]
        /\ ~inPlace => mem'["source"] = mem["source"]
    BY <2>1, <1>3, WriteFacts DEF ReverseInv
  <2>3. ReverseTypeOK' /\ SourceKept'
    BY <2>1, <2>2, <1>1 DEF ReverseInv, ReverseTypeOK, SourceKept, Phases
  <2>4. ASSUME NEW d \in Cell PROVE CellInv(d)'
    <3>1. CASE d = c
      <4>1. Swaps(c) /\ e1[c] = Input[c] /\ e2[c] = Input[Partner(c)]
        BY <2>1, <1>5 DEF SwapInv
      <4>2. phase'[c] = "store2"
        BY <2>1, <1>1
      <4>3. (mem[Dest][Partner(c)])' = Input[c]
        BY <4>1, <2>1, <2>2 DEF Dest
      <4> QED BY <3>1, <4>1, <4>2, <4>3, <2>1 DEF CellInv, SwapInv, Swaps, Dest
    <3>2. CASE d # c /\ ~Swaps(d)
      BY <3>2, <2>1, <1>1, <1>2 DEF CellInv, Swaps
    <3>3. CASE d # c /\ Swaps(d)
      <4>1. d # Partner(c) /\ Partner(d) # Partner(c) /\ Partner(d) \in Cell
        BY <3>3, <2>1, <1>5, OneOwner, PartnerFacts
      <4>2. \A b \in {"source", "dest"} :
              mem'[b][d] = mem[b][d] /\ mem'[b][Partner(d)] = mem[b][Partner(d)]
        BY <4>1, <2>2
      <4>3. phase'[d] = phase[d] /\ Dest \in {"source", "dest"} /\ SwapInv(d)
        BY <3>3, <2>1, <1>1, <1>2 DEF Dest, CellInv
      <4>4. SwapInv(d)'
        BY <4>2, <4>3, <2>1 DEF SwapInv, Dest, Partner
      <4> QED BY <3>3, <4>4 DEF CellInv, Swaps
    <3> QED BY <3>1, <3>2, <3>3
  <2> QED BY <2>3, <2>4 DEF ReverseInv
<1>9. CASE Store2(c)
  <2>1. /\ e1' = e1 /\ e2' = e2 /\ inPlace' = inPlace /\ phase[c] = "store2"
        /\ phase' = [phase EXCEPT ![c] = "done"] /\ Write(c, e2[c])
    BY <1>9 DEF Store2, Goto
  <2>2. /\ DOMAIN mem' = {"source", "dest"}
        /\ \A b \in {"source", "dest"} : mem'[b] = [k \in Cell |-> mem'[b][k]]
        /\ mem'[Dest][c] = e2[c]
        /\ \A b \in {"source", "dest"}, d \in Cell :
             d # c => mem'[b][d] = mem[b][d]
        /\ ~inPlace => mem'["source"] = mem["source"]
    BY <2>1, WriteFacts DEF ReverseInv
  <2>3. ReverseTypeOK' /\ SourceKept'
    BY <2>1, <2>2, <1>1 DEF ReverseInv, ReverseTypeOK, SourceKept, Phases
  <2>4. ASSUME NEW d \in Cell PROVE CellInv(d)'
    <3>1. CASE d = c
      <4>1. Swaps(c) /\ e2[c] = Input[Partner(c)] /\ mem[Dest][Partner(c)] = Input[c]
        BY <2>1, <1>5 DEF SwapInv
      <4>2. phase'[c] = "done"
        BY <2>1, <1>1
      <4>3. mem'[Dest][c] = Input[Partner(c)] /\ mem'[Dest][Partner(c)] = Input[c]
        <5>1. CASE Partner(c) = c
          BY <5>1, <4>1, <2>2
        <5>2. CASE Partner(c) # c
          BY <5>2, <4>1, <2>2, <1>3 DEF Dest
        <5> QED BY <5>1, <5>2
      <4> QED BY <3>1, <4>1, <4>2, <4>3, <2>1 DEF CellInv, SwapInv, Swaps, Dest, Partner
    <3>2. CASE d # c /\ ~Swaps(d)
      BY <3>2, <2>1, <1>1, <1>2 DEF CellInv, Swaps
    <3>3. CASE d # c /\ Swaps(d)
      <4>1. Partner(d) # c /\ Partner(d) \in Cell
        BY <3>3, <2>1, <1>5, OneOwner, PartnerFacts
      <4>2. \A b \in {"source", "dest"} :
              mem'[b][d] = mem[b][d] /\ mem'[b][Partner(d)] = mem[b][Partner(d)]
        BY <4>1, <3>3, <2>2
      <4>3. phase'[d] = phase[d] /\ Dest \in {"source", "dest"} /\ SwapInv(d)
        BY <3>3, <2>1, <1>1, <1>2 DEF Dest, CellInv
      <4>4. SwapInv(d)'
        BY <4>2, <4>3, <2>1 DEF SwapInv, Dest, Partner
      <4> QED BY <3>3, <4>4 DEF CellInv, Swaps
    <3> QED BY <3>1, <3>2, <3>3
  <2> QED BY <2>3, <2>4 DEF ReverseInv
<1> QED BY <1>4, <1>6, <1>7, <1>8, <1>9 DEF Step

(* ReverseInv is an invariant. *)
THEOREM ReverseInvariant == SpecReverse => []ReverseInv
<1>1. ReverseInv /\ UNCHANGED reverseVars => ReverseInv'
  BY DEF reverseVars, ReverseInv, ReverseTypeOK, SourceKept, CellInv, SwapInv, Swaps, Dest
<1>2. ReverseInv /\ [NextReverse]_reverseVars => ReverseInv'
  BY <1>1, StepInv DEF NextReverse, Joined
<1> QED BY <1>2, InitReverseInv, PTL DEF SpecReverse

(* The registers, counters and buffers keep their shape. *)
THEOREM ReverseTypeCorrect == SpecReverse => []ReverseTypeOK
<1>1. ReverseInv => ReverseTypeOK
  BY DEF ReverseInv
<1> QED BY <1>1, ReverseInvariant, PTL

(* A read-only source stays what it was: nobody stores to it unless the      *)
(* destination is the same buffer.                                           *)
THEOREM SourceAlwaysKept == SpecReverse => []SourceKept
<1>1. ReverseInv => SourceKept
  BY DEF ReverseInv
<1> QED BY <1>1, ReverseInvariant, PTL

(* No interleaving of the iterations has a data race: two iterations that    *)
(* are past the guard own different pairs of elements.                       *)
THEOREM NeverRaces == SpecReverse => []NoRace
<1>1. ReverseInv => NoRace
  <2> SUFFICES ASSUME ReverseInv, NEW c \in Cell, NEW d \in Cell, c # d
               PROVE  Writes(c) \cap (Writes(d) \cup Reads(d)) = {}
    BY DEF NoRace
  <2>1. CellInv(c) /\ CellInv(d)
    BY DEF ReverseInv
  <2>2. CASE Swaps(c) /\ Swaps(d)
    <3>1. c # Partner(d) /\ Partner(c) # d /\ Partner(c) # Partner(d)
      BY <2>2, OneOwner
    <3>2. /\ \A x \in Writes(c) : x[2] \in {c, Partner(c)}
          /\ \A x \in Writes(d) \cup Reads(d) : x[2] \in {d, Partner(d)}
      BY DEF Writes, Reads
    <3> QED BY <3>1, <3>2
  <2>3. CASE ~Swaps(c)
    BY <2>1, <2>3 DEF CellInv, Writes
  <2>4. CASE ~Swaps(d)
    BY <2>1, <2>4 DEF CellInv, Writes, Reads
  <2> QED BY <2>2, <2>3, <2>4
<1> QED BY <1>1, ReverseInvariant, PTL

(* Once every iteration has ended the destination is the reversed source. *)
LEMMA DonePermuted ==
  ASSUME ReverseInv, AllDone
  PROVE  mem[Dest] = Reversed
<1>1. ASSUME NEW c \in Cell PROVE mem[Dest][c] = Input[Partner(c)]
  <2>1. phase[c] = "done" /\ phase[Partner(c)] = "done" /\ Partner(c) \in Cell
    BY PartnerFacts DEF AllDone
  <2>2. CASE Swaps(c)
    BY <2>1, <2>2 DEF ReverseInv, CellInv, SwapInv
  <2>3. CASE Swaps(Partner(c))
    <3>1. mem[Dest][Partner(Partner(c))] = Input[Partner(c)]
      BY <2>1, <2>3 DEF ReverseInv, CellInv, SwapInv
    <3> QED BY <3>1, PartnerFacts
  <2> QED BY <2>2, <2>3, SomeoneSwaps
<1>2. mem[Dest] = [c \in Cell |-> mem[Dest][c]]
  BY DEF ReverseInv, ReverseTypeOK, Dest
<1> QED BY <1>1, <1>2 DEF Reversed

(* The result of the parallel loop, whatever the interleaving. *)
THEOREM AlwaysPermutes == SpecReverse => []Permuted
<1>1. ReverseInv => Permuted
  BY DonePermuted DEF Permuted
<1> QED BY <1>1, ReverseInvariant, PTL

(* The loop as its user sees it: the result appears in one step, and it is    *)
(* the permuted source.  A tensor has an element.                             *)
THEOREM ImplementsPermutation ==
  ASSUME Cell # {}
  PROVE  SpecReverse => OpSpec
<1> DEFINE shown == IF AllDone THEN mem[Dest] ELSE Unwritten
<1>1. InitReverse => Op!Init
  BY DEF InitReverse, Op!Init, AllDone
<1>2. ReverseInv /\ AllDone => mem[Dest] = Reversed
  BY DonePermuted
<1>3. (ReverseInv /\ AllDone => mem[Dest] = Reversed)'
  BY <1>2, PTL
<1>4. ReverseInv /\ [NextReverse]_reverseVars => [Op!Reverse]_shown
  <2> SUFFICES ASSUME ReverseInv, [NextReverse]_reverseVars PROVE Op!Reverse \/ shown' = shown
    OBVIOUS
  <2>1. CASE UNCHANGED reverseVars
    BY <2>1 DEF reverseVars, AllDone, Dest
  <2>2. CASE \E c \in Cell : Step(c)
    <3>1. ~ AllDone
      BY <2>2 DEF AllDone, Step, Guard, Load1, Load2, Store1, Store2, Goto
    <3>2. CASE ~ AllDone'
      BY <3>1, <3>2
    <3>3. CASE AllDone'
      <4>1. (mem[Dest] = Reversed)'
        BY <1>3, <2>2, <3>3, StepInv
      <4> QED BY <3>1, <3>3, <4>1 DEF Op!Reverse, Reversed, Partner, Cell
    <3> QED BY <3>2, <3>3
  <2> QED BY <2>1, <2>2 DEF NextReverse, Joined
<1> QED BY <1>1, <1>4, ReverseInvariant, PTL DEF SpecReverse, OpSpec, Op!Spec
=============================================================================
