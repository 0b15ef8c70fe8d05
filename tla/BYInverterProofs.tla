--------------------------- MODULE BYInverterProofs ---------------------------
(***************************************************************************)
(* The Bernstein-Yang inverse is right for every odd modulus, every width  *)
(* and every size of jump.                                                 *)
(*                                                                         *)
(* Three things are known of the outer loop between two jumps (Outer): f   *)
(* and g generate the same ideal as the modulus and the input do, d and e  *)
(* are their factors of the input and stay between -2m and m, and eta,     *)
(* which nothing reduces, cannot leave a limb, because a large one means a *)
(* small g (EtaFits).                                                      *)
(*                                                                         *)
(* A jump sees no more than the low bits of f and g.  What it has done is  *)
(* measured against the two numbers F and H that the division steps would  *)
(* have made of f and g themselves (InJump): its words agree with them in  *)
(* the bits that still count, and its matrix leads to them.  At the end of *)
(* the jump the matrix, applied to the extended words, yields F and H.     *)
(***************************************************************************)
EXTENDS BYInverter, ArithLemmas

-----------------------------------------------------------------------------
\* Words.

\* Half of a word's numbers are negative.
LEMMA HalfWord ==
  ASSUME NEW width \in Nat, width >= 1
  PROVE  /\ 2^(width - 1) \in Nat /\ 2^(width - 1) > 0
         /\ 2^width \in Nat /\ 2^width = 2 * 2^(width - 1)
<1>1. width - 1 \in Nat /\ (width - 1) + 1 = width
  OBVIOUS
<1> QED BY <1>1, TwoPowerStep

\* A word differs from what it is made of by a multiple of its size.
LEMMA WrapFacts ==
  ASSUME NEW x \in Int, NEW width \in Nat, width >= 1
  PROVE  /\ Wrap(x, width) \in Int
         /\ -(2^(width - 1)) <= Wrap(x, width) /\ Wrap(x, width) < 2^(width - 1)
         /\ \E k \in Int : Wrap(x, width) = x + 2^width * k
<1>1. PICK h \in Nat : h = 2^(width - 1) /\ h > 0
  BY HalfWord
<1>2. PICK s \in Nat : s = 2^width /\ s = 2 * h
  BY <1>1, HalfWord
<1>3. PICK k \in Int : x + h = ((x + h) % s) + s * k
  <2>1. x + h \in Int /\ s > 0
    BY <1>1, <1>2
  <2> QED BY ONLY <2>1, s \in Nat, ResidueWitness
<1> DEFINE r == (x + h) % s
<1>4. r \in 0 .. s - 1
  <2>1. x + h \in Int /\ s > 0
    BY <1>1, <1>2
  <2> QED BY <2>1, ResidueWitness
<1>5. Wrap(x, width) = r - h
  BY <1>1, <1>2 DEF Wrap
<1> HIDE DEF r
<1>6. x + h = r + s * k
  BY <1>3 DEF r
<1>7. r - h = x + s * (-k)
  <2>1. s * (-k) = - (s * k) /\ s * k \in Int
    OBVIOUS
  <2> QED BY <1>4, <1>6, <2>1
<1>8. -h <= r - h /\ r - h < h /\ r - h \in Int /\ -k \in Int
  BY <1>1, <1>2, <1>4
<1> QED BY <1>1, <1>2, <1>5, <1>7, <1>8

\* What fits a word does not change.
LEMMA WrapSmall ==
  ASSUME NEW x \in Int, NEW width \in Nat, width >= 1,
         -(2^(width - 1)) <= x, x < 2^(width - 1)
  PROVE  Wrap(x, width) = x
<1>1. PICK h \in Nat : h = 2^(width - 1) /\ h > 0
  BY HalfWord
<1>2. PICK s \in Nat : s = 2^width /\ s = 2 * h
  BY <1>1, HalfWord
<1>3. x + h \in Nat /\ x + h < s
  BY <1>1, <1>2
<1>4. (x + h) % s = x + h
  BY <1>3, DivSmall
<1> QED BY <1>1, <1>2, <1>4 DEF Wrap

\* Words are words.
LEMMA WrapTwice ==
  ASSUME NEW x \in Int, NEW width \in Nat, width >= 1
  PROVE  Wrap(Wrap(x, width), width) = Wrap(x, width)
BY WrapFacts, WrapSmall

-----------------------------------------------------------------------------
\* Rows of the matrix.

\* The absolute values of a and b add up to c at most.
RowFits(a, b, c) == a + b <= c /\ a - b <= c /\ b - a <= c /\ -a - b <= c

\* A number times one that is bounded on both sides.
LEMMA ProductBounds ==
  ASSUME NEW a \in Int, NEW x \in Int, NEW M \in Nat, -M <= x, x <= M
  PROVE  /\ a >= 0 => -(a * M) <= a * x /\ a * x <= a * M
         /\ a <= 0 => a * M <= a * x /\ a * x <= -(a * M)
<1>1. ASSUME NEW b \in Nat PROVE -(b * M) <= b * x /\ b * x <= b * M
  <2>1. b * x <= b * M
    BY MulMono
  <2>2. b * (-M) <= b * x
    <3>1. -M \in Int
      OBVIOUS
    <3> QED BY <3>1, MulMono
  <2>3. b * (-M) = -(b * M)
    OBVIOUS
  <2> QED BY <2>1, <2>2, <2>3
<1>2. ASSUME a >= 0 PROVE -(a * M) <= a * x /\ a * x <= a * M
  <2>1. a \in Nat
    BY <1>2
  <2> QED BY <2>1, <1>1
<1>3. ASSUME a <= 0 PROVE a * M <= a * x /\ a * x <= -(a * M)
  <2>1. PICK b \in Nat : b = -a
    BY <1>3
  <2>2. a * M = -(b * M) /\ a * x = -(b * x)
    BY <2>1
  <2>3. -(b * M) <= b * x /\ b * x <= b * M
    BY <1>1
  <2>4. b * M \in Int /\ b * x \in Int
    OBVIOUS
  <2> QED BY <2>2, <2>3, <2>4
<1> QED BY <1>2, <1>3

\* A row takes numbers that are bounded to one that is.
LEMMA RowProduct ==
  ASSUME NEW a \in Int, NEW b \in Int, NEW c \in Nat, RowFits(a, b, c),
         NEW x \in Int, NEW y \in Int, NEW M \in Nat, -M <= x, x <= M, -M <= y, y <= M
  PROVE  -(c * M) <= a * x + b * y /\ a * x + b * y <= c * M
<1>1. PICK u \in Int : u = a * x
  OBVIOUS
<1>2. PICK v \in Int : v = b * y
  OBVIOUS
<1>3. PICK p \in Int : p = a * M
  OBVIOUS
<1>4. PICK q \in Int : q = b * M
  OBVIOUS
<1>5. /\ a >= 0 => -p <= u /\ u <= p
      /\ a <= 0 => p <= u /\ u <= -p
  BY <1>1, <1>3, ProductBounds
<1>6. /\ b >= 0 => -q <= v /\ v <= q
      /\ b <= 0 => q <= v /\ v <= -q
  BY <1>2, <1>4, ProductBounds
<1>7. PICK r \in Int : r = c * M
  OBVIOUS
<1>8. p + q <= r /\ p - q <= r /\ q - p <= r /\ -p - q <= r
  <2>1. ASSUME NEW i \in Int, i <= c PROVE i * M <= r
    BY <1>7, <2>1, MulMono
  <2>2. /\ a + b \in Int /\ a - b \in Int /\ b - a \in Int /\ -a - b \in Int
        /\ a + b <= c /\ a - b <= c /\ b - a <= c /\ -a - b <= c
    BY DEF RowFits
  <2>3. (a + b) * M <= r /\ (a - b) * M <= r /\ (b - a) * M <= r /\ (-a - b) * M <= r
    BY <2>1, <2>2
  <2>4. /\ (a + b) * M = p + q /\ (a - b) * M = p - q
        /\ (b - a) * M = q - p /\ (-a - b) * M = -p - q
    BY <1>3, <1>4
  <2> QED BY <2>3, <2>4
<1>9. -r <= u + v /\ u + v <= r
  <2>1. CASE a >= 0 /\ b >= 0
    BY <1>5, <1>6, <1>8, <2>1
  <2>2. CASE a >= 0 /\ b <= 0
    BY <1>5, <1>6, <1>8, <2>2
  <2>3. CASE a <= 0 /\ b >= 0
    BY <1>5, <1>6, <1>8, <2>3
  <2>4. CASE a <= 0 /\ b <= 0
    BY <1>5, <1>6, <1>8, <2>4
  <2> QED BY <2>1, <2>2, <2>3, <2>4
<1> QED BY <1>1, <1>2, <1>7, <1>9

\* A row times a number.
LEMMA RowScaled ==
  ASSUME NEW a \in Int, NEW b \in Int, NEW c \in Nat, RowFits(a, b, c), NEW k \in Nat
  PROVE  RowFits(a * k, b * k, c * k)
<1>1. ASSUME NEW i \in Int, i <= c PROVE i * k <= c * k
  <2>1. k * i <= k * c
    BY <1>1, MulMono
  <2> QED BY <2>1
<1>2. /\ a + b \in Int /\ a - b \in Int /\ b - a \in Int /\ -a - b \in Int
      /\ a + b <= c /\ a - b <= c /\ b - a <= c /\ -a - b <= c
  BY DEF RowFits
<1>3. (a + b) * k <= c * k /\ (a - b) * k <= c * k /\ (b - a) * k <= c * k /\ (-a - b) * k <= c * k
  BY <1>1, <1>2
<1>4. /\ (a + b) * k = a * k + b * k /\ (a - b) * k = a * k - b * k
      /\ (b - a) * k = b * k - a * k /\ (-a - b) * k = -(a * k) - b * k
  OBVIOUS
<1> QED BY <1>3, <1>4 DEF RowFits

\* The sum of two rows.
LEMMA RowSum ==
  ASSUME NEW a \in Int, NEW b \in Int, NEW c \in Nat, RowFits(a, b, c),
         NEW a2 \in Int, NEW b2 \in Int, NEW c2 \in Nat, RowFits(a2, b2, c2)
  PROVE  RowFits(a + a2, b + b2, c + c2)
BY DEF RowFits

\* A row with more room.
LEMMA RowWider ==
  ASSUME NEW a \in Int, NEW b \in Int, NEW c \in Nat, RowFits(a, b, c), NEW c2 \in Nat, c <= c2
  PROVE  RowFits(a, b, c2)
BY DEF RowFits

\* The row that cancels bits: less than s times one row and another.
LEMMA RowCancelled ==
  ASSUME NEW a \in Int, NEW b \in Int, NEW c \in Nat, RowFits(a, b, c),
         NEW a2 \in Int, NEW b2 \in Int, RowFits(a2, b2, c),
         NEW s \in Nat, NEW w \in 0 .. s - 1
  PROVE  RowFits(a * w + a2, b * w + b2, c * s)
<1>1. w \in Nat /\ w + 1 <= s
  OBVIOUS
<1>2. RowFits(a * w, b * w, c * w) /\ c * w \in Nat /\ a * w \in Int /\ b * w \in Int
  BY <1>1, RowScaled
<1>3. RowFits(a * w + a2, b * w + b2, c * w + c)
  BY ONLY <1>2, RowSum, RowFits(a2, b2, c), a2 \in Int, b2 \in Int, c \in Nat
<1>4. c * w + c <= c * s
  <2>1. c * (w + 1) <= c * s /\ w + 1 \in Int
    BY <1>1, MulMono
  <2>2. c * (w + 1) = c * w + c
    BY <1>1
  <2> QED BY <2>1, <2>2
<1>5. a * w + a2 \in Int /\ b * w + b2 \in Int /\ c * w + c \in Nat /\ c * s \in Nat
  BY <1>2
<1> QED BY ONLY <1>3, <1>4, <1>5, RowWider

\* The entries of a row fit a word that has room for their sum.
LEMMA RowEntries ==
  ASSUME NEW a \in Int, NEW b \in Int, NEW c \in Nat, RowFits(a, b, c)
  PROVE  -c <= a /\ a <= c /\ -c <= b /\ b <= c
BY DEF RowFits

-----------------------------------------------------------------------------
\* The multiple of f that cancels bits of g.

\* Flipping three bits leads from three times an odd number below 32 to the
\* negative of its inverse.
LEMMA FlippedSmall ==
  ASSUME NEW r \in 0 .. 31, r % 2 = 1
  PROVE  (r * Flipped(3 * r)) % 32 = 31
<1>1. r \in {1, 3, 5, 7, 9, 11, 13, 15, 17, 19, 21, 23, 25, 27, 29, 31}
  OBVIOUS
<1>2. /\ Flipped(3) = 31 /\ Flipped(9) = 21 /\ Flipped(15) = 19 /\ Flipped(21) = 9
      /\ Flipped(27) = 7 /\ Flipped(33) = 61 /\ Flipped(39) = 59 /\ Flipped(45) = 49
      /\ Flipped(51) = 47 /\ Flipped(57) = 37 /\ Flipped(63) = 35 /\ Flipped(69) = 89
      /\ Flipped(75) = 87 /\ Flipped(81) = 77 /\ Flipped(87) = 75 /\ Flipped(93) = 65
  BY DEF Flipped
<1> QED BY <1>1, <1>2

\* Flipping does not depend on what is above the low bits.
LEMMA FlippedLow ==
  ASSUME NEW x \in Int, NEW k \in Int
  PROVE  Flipped(x + 32 * k) = Flipped(x) + 32 * k /\ Flipped(x) \in Int
<1>1. (x + 32 * k) % 32 = x % 32 /\ (x + 32 * k) % 4 = x % 4
  OBVIOUS
<1> QED BY <1>1 DEF Flipped

\* The same for every odd number.
LEMMA FlippedInverse ==
  ASSUME NEW x \in Int, x % 2 = 1
  PROVE  \E k \in Int : x * Flipped(3 * x) = 32 * k - 1
<1> DEFINE r == x % 32
           q == x \div 32
<1>1. r \in 0 .. 31 /\ q \in Int /\ x = r + 32 * q /\ r % 2 = 1
  OBVIOUS
<1> HIDE DEF r, q
<1>2. PICK y \in Int : y = Flipped(3 * r)
  <2>1. 3 * r \in Int /\ 0 \in Int
    BY <1>1
  <2>2. Flipped(3 * r) \in Int
    BY ONLY <2>1, FlippedLow
  <2> QED BY <2>2
<1>3. Flipped(3 * x) = y + 32 * (3 * q)
  <2>1. 3 * x = 3 * r + 32 * (3 * q) /\ 3 * r \in Int /\ 3 * q \in Int
    BY <1>1
  <2>2. Flipped(3 * r + 32 * (3 * q)) = Flipped(3 * r) + 32 * (3 * q)
    BY ONLY <2>1, FlippedLow
  <2> QED BY <1>2, <2>1, <2>2
<1>4. PICK j \in Int : r * y = 32 * j + 31
  <2>1. PICK z \in Int : z = r * y
    BY <1>1
  <2>2. z % 32 = 31
    BY <1>1, <1>2, <2>1, FlippedSmall
  <2>3. z = 32 * (z \div 32) + 31 /\ z \div 32 \in Int
    BY <2>2
  <2> QED BY <2>1, <2>3
<1>5. x * (y + 32 * (3 * q)) = r * y + 32 * (q * y + 3 * (x * q))
  <2>1. x * (y + 32 * (3 * q)) = x * y + 32 * (3 * (x * q))
    BY <1>1
  <2>2. x * y = r * y + 32 * (q * y)
    BY <1>1
  <2>3. x * y \in Int /\ x * q \in Int /\ q * y \in Int /\ r * y \in Int
    BY <1>1
  <2> QED BY <2>1, <2>2, <2>3
<1>6. PICK i \in Int : i = q * y + 3 * (x * q)
  BY <1>1
<1>7. x * Flipped(3 * x) = 32 * (i + j + 1) - 1 /\ i + j + 1 \in Int
  BY <1>3, <1>4, <1>5, <1>6
<1> QED BY <1>7

\* Words of up to five bits are smaller than a limb.
LEMMA LimbMultiple ==
  ASSUME NEW s \in Nat, NEW l \in Nat, s <= l
  PROVE  /\ 2^s \in Nat /\ 2^s > 0 /\ \E c \in Nat : 2^l = 2^s * c /\ c > 0
<1>1. l - s \in Nat /\ l = s + (l - s)
  OBVIOUS
<1>2. 2^l = 2^s * 2^(l - s)
  BY <1>1, TwoPowerSum
<1>3. 2^(l - s) \in Nat /\ 2^(l - s) > 0
  BY <1>1, TwoPowerStep
<1> QED BY <1>2, <1>3, TwoPowerStep

\* Limb words agree with what they are made of in as many bits as fit.
LEMMA WrapLow ==
  ASSUME NEW x \in Int, NEW l \in Nat, l >= 1, NEW s \in Nat, s <= l
  PROVE  Wrap(x, l) \in Int /\ \E k \in Int : Wrap(x, l) = x + 2^s * k
<1>1. PICK k \in Int : Wrap(x, l) = x + 2^l * k
  BY WrapFacts
<1>2. PICK c \in Nat : 2^l = 2^s * c
  BY LimbMultiple
<1>3. 2^l * k = 2^s * (c * k) /\ c * k \in Int
  BY <1>2, LimbMultiple
<1> QED BY <1>1, <1>3, WrapFacts

\* Adding the multiple clears the bits of g that it is to clear.
LEMMA MultipleCancels ==
  ASSUME NEW l \in Nat, l = attr.limb, l >= 5,
         NEW x \in Int, x % 2 = 1, NEW y \in Int, NEW s \in 0 .. 5
  PROVE  /\ Multiple(x, y, s) \in 0 .. 2^s - 1
         /\ \E k \in Int : y + Multiple(x, y, s) * x = 2^s * k
<1>1. PICK S \in Nat : S = 2^s /\ S > 0
  BY TwoPowerStep
<1>2. PICK c \in Int : 32 = S * c
  <2>1. s = 0 \/ s = 1 \/ s = 2 \/ s = 3 \/ s = 4 \/ s = 5
    OBVIOUS
  <2>2. S \in {1, 2, 4, 8, 16, 32}
    <3>1. 2^0 = 1 /\ 2^1 = 2 /\ 2^2 = 4 /\ 2^3 = 8 /\ 2^4 = 16 /\ 2^5 = 32
      <4>1. 2^0 = 1 /\ 2^1 = 2
        BY TwoPowerZero
      <4>2. 2^(1+1) = 4 /\ 2^(2+1) = 2 * 2^2 /\ 2^(3+1) = 2 * 2^3 /\ 2^(4+1) = 2 * 2^4
        BY <4>1, TwoPowerStep
      <4> QED BY <4>1, <4>2
    <3> QED BY <1>1, <2>1, <3>1
  <2>3. CASE S = 1
    BY <2>3, 32 = S * 32
  <2>4. CASE S = 2
    BY <2>4, 32 = S * 16
  <2>5. CASE S = 4
    BY <2>5, 32 = S * 8
  <2>6. CASE S = 8
    BY <2>6, 32 = S * 4
  <2>7. CASE S = 16
    BY <2>7, 32 = S * 2
  <2>8. CASE S = 32
    BY <2>8, 32 = S * 1
  <2> QED BY <2>2, <2>3, <2>4, <2>5, <2>6, <2>7, <2>8
<1>3. PICK u \in Int : u = Flipped(Limb(3 * x)) /\ \E k \in Int : x * u = 32 * k - 1
  <2>1. 3 * x \in Int
    OBVIOUS
  <2>2. PICK i \in Int : Limb(3 * x) = 3 * x + 32 * i
    <3>1. 2^5 = 32
      <4>1. 2^0 = 1 /\ 2^1 = 2
        BY TwoPowerZero
      <4>2. 2^(1+1) = 4 /\ 2^(2+1) = 2 * 2^2 /\ 2^(3+1) = 2 * 2^3 /\ 2^(4+1) = 2 * 2^4
        BY <4>1, TwoPowerStep
      <4> QED BY <4>1, <4>2
    <3>2. 5 \in Nat /\ 5 <= l /\ l >= 1
      OBVIOUS
    <3>3. \E i \in Int : Wrap(3 * x, l) = 3 * x + 2^5 * i
      BY ONLY <2>1, <3>2, l \in Nat, WrapLow
    <3> QED BY <3>1, <3>3 DEF Limb
  <2>3. PICK v \in Int : v = Flipped(3 * x)
    <3>1. 0 \in Int
      OBVIOUS
    <3>2. Flipped(3 * x) \in Int
      BY ONLY <2>1, <3>1, FlippedLow
    <3> QED BY <3>2
  <2>4. Flipped(Limb(3 * x)) = v + 32 * i
    BY <2>1, <2>2, <2>3, FlippedLow
  <2>5. PICK j \in Int : x * v = 32 * j - 1
    BY <2>3, FlippedInverse
  <2>6. x * (v + 32 * i) = 32 * (j + x * i) - 1 /\ j + x * i \in Int /\ v + 32 * i \in Int
    <3>1. x * (v + 32 * i) = x * v + 32 * (x * i) /\ x * i \in Int
      OBVIOUS
    <3> QED BY <2>5, <3>1
  <2> QED BY <2>4, <2>6
<1>4. PICK j \in Int : x * u = 32 * j - 1
  BY <1>3
<1>5. PICK i \in Int : Limb(y * u) = y * u + S * i
  <2>1. s \in Nat /\ s <= l /\ l >= 1 /\ y * u \in Int
    OBVIOUS
  <2>2. \E i \in Int : Wrap(y * u, l) = y * u + 2^s * i
    BY ONLY <2>1, l \in Nat, WrapLow
  <2> QED BY <1>1, <2>2 DEF Limb
<1>6. PICK z \in Int : z = Limb(y * u)
  BY <1>5
<1>7. z % S \in 0 .. S - 1 /\ \E k \in Int : z = (z % S) + S * k
  BY <1>1, ResidueWitness
<1>8. PICK w \in 0 .. S - 1, k \in Int : w = z % S /\ z = w + S * k
  BY <1>7
<1>9. Multiple(x, y, s) = w
  BY <1>1, <1>3, <1>6, <1>8 DEF Multiple
<1>10. w = y * u + S * (i - k)
  <2>1. S * (i - k) = S * i - S * k /\ S * i \in Int /\ S * k \in Int
    OBVIOUS
  <2> QED BY <1>5, <1>6, <1>8, <2>1
<1>11. y + w * x = S * ((c * j) * y + (i - k) * x)
  <2>1. PICK a \in Int : a = i - k
    OBVIOUS
  <2>2. w * x = (y * u) * x + (S * a) * x
    BY <1>10, <2>1
  <2>3. (y * u) * x = y * (x * u)
    OBVIOUS
  <2>4. y * (x * u) = y * (32 * j) - y
    BY <1>4
  <2>5. y * (32 * j) = S * ((c * j) * y)
    <3>1. 32 * j = S * (c * j)
      BY <1>2
    <3>2. PICK b \in Int : b = c * j
      OBVIOUS
    <3> QED BY <3>1, <3>2
  <2>6. (S * a) * x = S * (a * x)
    OBVIOUS
  <2>7. PICK b \in Int : b = (c * j) * y
    OBVIOUS
  <2>8. y + w * x = S * b + S * (a * x)
    BY <2>2, <2>3, <2>4, <2>5, <2>6, <2>7
  <2>9. S * b + S * (a * x) = S * (b + a * x)
    OBVIOUS
  <2> QED BY <2>1, <2>7, <2>8, <2>9
<1>12. (c * j) * y + (i - k) * x \in Int
  OBVIOUS
<1> QED BY <1>1, <1>9, <1>11, <1>12

-----------------------------------------------------------------------------
\* Division steps, as many as a jump takes.

\* The states that s goes through in n steps.
StepsFrom(r, s, n) == r = [k \in 0 .. n |-> IF k = 0 THEN s ELSE DivStep(r[k - 1])]

\* There are such states.
LEMMA StepsExist ==
  ASSUME NEW s, NEW n \in Nat
  PROVE  \E r : StepsFrom(r, s, n)
<1> DEFINE B == {m \in Nat : \E r : StepsFrom(r, s, m)}
<1>1. 0 \in B
  <2> DEFINE x == [k \in 0 .. 0 |-> s]
  <2>1. StepsFrom(x, s, 0)
    BY DEF StepsFrom
  <2> QED BY <2>1
<1>2. ASSUME NEW m \in Nat, m \in B PROVE m + 1 \in B
  <2>1. PICK r : StepsFrom(r, s, m)
    BY <1>2
  <2> DEFINE x == [k \in 0 .. m + 1 |-> IF k = m + 1 THEN DivStep(r[m]) ELSE r[k]]
  <2>2. \A k \in 0 .. m : r[k] = IF k = 0 THEN s ELSE DivStep(r[k - 1])
    BY <2>1 DEF StepsFrom
  <2>3. \A k \in 0 .. m + 1 : x[k] = IF k = 0 THEN s ELSE DivStep(x[k - 1])
    <3> SUFFICES ASSUME NEW k \in 0 .. m + 1
                 PROVE  x[k] = IF k = 0 THEN s ELSE DivStep(x[k - 1])
      OBVIOUS
    <3>1. CASE k = m + 1
      <4>1. k # 0 /\ k - 1 = m /\ m \in 0 .. m + 1 /\ m # m + 1
        BY <3>1
      <4> QED BY <3>1, <4>1
    <3>2. CASE k # m + 1
      <4>1. k \in 0 .. m /\ (k # 0 => k - 1 \in 0 .. m + 1 /\ k - 1 # m + 1)
        BY <3>2
      <4> QED BY <2>2, <3>2, <4>1
    <3> QED BY <3>1, <3>2
  <2>4. StepsFrom(x, s, m + 1)
    BY <2>3 DEF StepsFrom
  <2> QED BY <2>4
<1> HIDE DEF B
<1>3. \A m \in Nat : m \in B
  BY <1>1, <1>2, NumbersClosed
<1> QED BY <1>3 DEF B

\* They do not depend on how many steps follow.
LEMMA StepsAgree ==
  ASSUME NEW s, NEW n \in Nat, NEW m \in Nat, NEW r, NEW u,
         StepsFrom(r, s, n), StepsFrom(u, s, m)
  PROVE  \A k \in Nat : k <= n /\ k <= m => r[k] = u[k]
<1> DEFINE B == {k \in Nat : k <= n /\ k <= m => r[k] = u[k]}
<1>1. /\ \A k \in 0 .. n : r[k] = IF k = 0 THEN s ELSE DivStep(r[k - 1])
      /\ \A k \in 0 .. m : u[k] = IF k = 0 THEN s ELSE DivStep(u[k - 1])
  BY DEF StepsFrom
<1>2. 0 \in B
  BY <1>1
<1>3. ASSUME NEW k \in Nat, k \in B PROVE k + 1 \in B
  <2>1. SUFFICES ASSUME k + 1 <= n, k + 1 <= m PROVE r[k + 1] = u[k + 1]
    OBVIOUS
  <2>2. k + 1 \in 0 .. n /\ k + 1 \in 0 .. m /\ k + 1 # 0 /\ (k + 1) - 1 = k /\ k <= n /\ k <= m
    BY <2>1
  <2> QED BY <1>1, <1>3, <2>2
<1> HIDE DEF B
<1>4. \A k \in Nat : k \in B
  BY <1>2, <1>3, NumbersClosed
<1> QED BY <1>4 DEF B

\* One step more.
LEMMA DivStepsUnfold ==
  ASSUME NEW s
  PROVE  /\ DivSteps(s, 0) = s
         /\ \A n \in Nat : DivSteps(s, n + 1) = DivStep(DivSteps(s, n))
<1> DEFINE h(n) == CHOOSE r : StepsFrom(r, s, n)
<1>1. \A n \in Nat : StepsFrom(h(n), s, n)
  BY StepsExist
<1>2. \A n \in Nat : DivSteps(s, n) = h(n)[n]
  BY DEF DivSteps, StepsFrom
<1> HIDE DEF h
<1>3. h(0)[0] = s
  <2>1. StepsFrom(h(0), s, 0)
    BY <1>1
  <2> QED BY <2>1 DEF StepsFrom
<1>4. ASSUME NEW n \in Nat PROVE h(n + 1)[n + 1] = DivStep(h(n)[n])
  <2>1. n + 1 \in Nat /\ n + 1 # 0 /\ (n + 1) - 1 = n /\ n + 1 \in 0 .. n + 1 /\ n <= n /\ n <= n + 1
    OBVIOUS
  <2>2. h(n + 1)[n + 1] = DivStep(h(n + 1)[n])
    BY <1>1, <2>1 DEF StepsFrom
  <2>3. h(n + 1)[n] = h(n)[n]
    <3>1. PICK r, u : r = h(n + 1) /\ u = h(n)
      OBVIOUS
    <3>2. StepsFrom(r, s, n + 1) /\ StepsFrom(u, s, n)
      BY <1>1, <2>1, <3>1
    <3> QED BY <2>1, <3>1, <3>2, StepsAgree
  <2> QED BY <2>2, <2>3
<1>5. DivSteps(s, 0) = s
  BY <1>2, <1>3
<1>6. ASSUME NEW n \in Nat PROVE DivSteps(s, n + 1) = DivStep(DivSteps(s, n))
  <2>1. n + 1 \in Nat
    OBVIOUS
  <2> QED BY <1>2, <1>4, <2>1
<1> QED BY <1>5, <1>6

\* What a division step computes.
State(h, x, y) == [eta |-> h, f |-> x, g |-> y]

\* An even g is halved.
LEMMA EvenStep ==
  ASSUME NEW h \in Int, NEW x \in Int, NEW y \in Int
  PROVE  DivStep(State(h, x, 2 * y)) = State(h + 1, x, y)
<1>1. (2 * y) % 2 = 0 /\ (2 * y + 0) \div 2 = y /\ 0 * x = 0 /\ 1 + h = h + 1 /\ 2 * y + 0 = 2 * y
  OBVIOUS
<1> QED BY <1>1 DEF DivStep, State

\* To an odd g, f is added, unless eta is positive.
LEMMA OddStep ==
  ASSUME NEW h \in Int, h <= 0, NEW x \in Int, NEW y \in Int, NEW z \in Int,
         y % 2 = 1, y + x = 2 * z
  PROVE  DivStep(State(h, x, y)) = State(h + 1, x, z)
<1>1. (y + 1 * x) \div 2 = z /\ 1 + h = h + 1 /\ ~ (h > 0)
  OBVIOUS
<1> QED BY <1>1 DEF DivStep, State

\* A step that swaps is one that does not, after the swap.
LEMMA SwapStep ==
  ASSUME NEW h \in Int, h > 0, NEW x \in Int, x % 2 = 1, NEW y \in Int, y % 2 = 1
  PROVE  DivStep(State(h, x, y)) = DivStep(State(-h, y, -x))
<1>1. DivStep(State(h, x, y)) = State(1 - h, y, (y - x) \div 2)
  BY DEF DivStep, State
<1>2. (-x) % 2 = 1 /\ ~ (-h > 0) /\ -x + 1 * y = y - x /\ 1 + (-h) = 1 - h
  OBVIOUS
<1>3. DivStep(State(-h, y, -x)) = State(1 - h, y, (y - x) \div 2)
  BY <1>2 DEF DivStep, State
<1> QED BY <1>1, <1>3

\* Steps after steps.
LEMMA DivStepsSum ==
  ASSUME NEW s, NEW n \in Nat, NEW m \in Nat
  PROVE  DivSteps(s, n + m) = DivSteps(DivSteps(s, n), m)
<1> DEFINE B == {k \in Nat : DivSteps(s, n + k) = DivSteps(DivSteps(s, n), k)}
<1>1. 0 \in B
  <2>1. n + 0 = n
    OBVIOUS
  <2> QED BY <2>1, DivStepsUnfold
<1>2. ASSUME NEW k \in Nat, k \in B PROVE k + 1 \in B
  <2>1. n + (k + 1) = (n + k) + 1 /\ n + k \in Nat
    OBVIOUS
  <2>2. DivSteps(s, (n + k) + 1) = DivStep(DivSteps(s, n + k))
    BY <2>1, DivStepsUnfold
  <2>3. DivSteps(DivSteps(s, n), k + 1) = DivStep(DivSteps(DivSteps(s, n), k))
    BY DivStepsUnfold
  <2> QED BY <1>2, <2>1, <2>2, <2>3
<1> HIDE DEF B
<1>3. \A k \in Nat : k \in B
  BY <1>1, <1>2, NumbersClosed
<1> QED BY <1>3 DEF B

\* What agrees after one step does so after several.
LEMMA SameSteps ==
  ASSUME NEW s, NEW u, DivStep(s) = DivStep(u), NEW m \in Nat, m > 0
  PROVE  DivSteps(s, m) = DivSteps(u, m)
<1> DEFINE B == {k \in Nat : DivSteps(s, k + 1) = DivSteps(u, k + 1)}
<1>1. 0 \in B
  <2>1. DivSteps(s, 0 + 1) = DivStep(s) /\ DivSteps(u, 0 + 1) = DivStep(u)
    <3>1. 0 \in Nat
      OBVIOUS
    <3> QED BY <3>1, DivStepsUnfold
  <2> QED BY <2>1
<1>2. ASSUME NEW k \in Nat, k \in B PROVE k + 1 \in B
  <2>1. k + 1 \in Nat
    OBVIOUS
  <2>2. /\ DivSteps(s, (k + 1) + 1) = DivStep(DivSteps(s, k + 1))
        /\ DivSteps(u, (k + 1) + 1) = DivStep(DivSteps(u, k + 1))
    BY <2>1, DivStepsUnfold
  <2> QED BY <1>2, <2>1, <2>2
<1> HIDE DEF B
<1>3. \A k \in Nat : k \in B
  BY <1>1, <1>2, NumbersClosed
<1>4. m - 1 \in Nat /\ (m - 1) + 1 = m
  OBVIOUS
<1> QED BY <1>3, <1>4 DEF B

\* As many steps as g has zeros, or fewer.
LEMMA ZeroSteps ==
  ASSUME NEW h \in Int, NEW x \in Int, NEW z \in Nat, NEW y \in Int
  PROVE  DivSteps(State(h, x, 2^z * y), z) = State(h + z, x, y)
<1> DEFINE B == {k \in Nat : \A i \in Int : DivSteps(State(h, x, 2^k * i), k) = State(h + k, x, i)}
<1>1. 0 \in B
  <2> SUFFICES ASSUME NEW i \in Int PROVE DivSteps(State(h, x, 2^0 * i), 0) = State(h + 0, x, i)
    OBVIOUS
  <2>1. 2^0 * i = i /\ h + 0 = h
    BY TwoPowerZero
  <2> QED BY <2>1, DivStepsUnfold
<1>2. ASSUME NEW k \in Nat, k \in B PROVE k + 1 \in B
  <2> SUFFICES ASSUME NEW i \in Int
               PROVE  DivSteps(State(h, x, 2^(k + 1) * i), k + 1) = State(h + (k + 1), x, i)
    OBVIOUS
  <2>1. 2^(k + 1) * i = 2^k * (2 * i) /\ 2 * i \in Int
    <3>1. PICK p \in Nat : p = 2^k /\ 2^(k + 1) = 2 * p
      BY TwoPowerStep
    <3> QED BY <3>1
  <2>2. DivSteps(State(h, x, 2^(k + 1) * i), k) = State(h + k, x, 2 * i)
    BY <1>2, <2>1
  <2>3. DivStep(State(h + k, x, 2 * i)) = State((h + k) + 1, x, i)
    <3>1. h + k \in Int
      OBVIOUS
    <3> QED BY <3>1, EvenStep
  <2>4. (h + k) + 1 = h + (k + 1)
    OBVIOUS
  <2> QED BY <2>2, <2>3, <2>4, DivStepsUnfold
<1> HIDE DEF B
<1>3. \A k \in Nat : k \in B
  BY <1>1, <1>2, NumbersClosed
<1> QED BY <1>3 DEF B

\* What an odd number lacks from an even one is odd.
LEMMA OddComplement ==
  ASSUME NEW x \in Int, x % 2 = 1, NEW i \in Int
  PROVE  (2 * i - x) % 2 = 1 /\ (2 * i - x) + x = 2 * i
OBVIOUS

\* w times x cancels the last j bits of y, and leaves z.
BitsGone(h, x, y, j, w, z) ==
  x % 2 = 1 /\ j <= 1 - h /\ w \in 0 .. 2^j - 1 /\ y + w * x = 2^j * z

\* Steps that do not swap cancel one bit each, and so as many bits as there
\* are steps until eta is positive.
LEMMA CancelSteps ==
  ASSUME NEW h \in Int, NEW x \in Int, NEW y \in Int, NEW j \in Nat, NEW w, NEW z \in Int,
         BitsGone(h, x, y, j, w, z)
  PROVE  DivSteps(State(h, x, y), j) = State(h + j, x, z)
<1>0. x % 2 = 1 /\ j <= 1 - h /\ w \in 0 .. 2^j - 1 /\ y + w * x = 2^j * z
  BY DEF BitsGone
<1> DEFINE B == {k \in Nat : k <= 1 - h =>
                   \A v \in 0 .. 2^k - 1, i \in Int :
                     y + v * x = 2^k * i => DivSteps(State(h, x, y), k) = State(h + k, x, i)}
<1>1. 0 \in B
  <2> SUFFICES ASSUME NEW v \in 0 .. 2^0 - 1, NEW i \in Int, y + v * x = 2^0 * i
               PROVE  DivSteps(State(h, x, y), 0) = State(h + 0, x, i)
    OBVIOUS
  <2>1. v = 0 /\ 2^0 * i = i /\ h + 0 = h
    BY TwoPowerZero
  <2>2. y = i
    BY <2>1
  <2> QED BY <2>1, <2>2, DivStepsUnfold
<1>2. ASSUME NEW k \in Nat, k \in B PROVE k + 1 \in B
  <2> SUFFICES ASSUME k + 1 <= 1 - h, NEW v \in 0 .. 2^(k + 1) - 1, NEW i \in Int,
                      y + v * x = 2^(k + 1) * i
               PROVE  DivSteps(State(h, x, y), k + 1) = State(h + (k + 1), x, i)
    OBVIOUS
  <2>1. PICK p \in Nat : p = 2^k /\ 2^(k + 1) = 2 * p /\ p > 0
    BY TwoPowerStep
  <2>2. PICK b \in {0, 1}, u \in 0 .. p - 1 : v = u + p * b
    <3>1. v \in Nat /\ v < 2 * p
      BY <2>1
    <3>2. CASE v < p
      <4>1. v \in 0 .. p - 1 /\ v = v + p * 0
        BY <3>1, <3>2
      <4> QED BY <4>1
    <3>3. CASE ~ (v < p)
      <4>1. v - p \in 0 .. p - 1 /\ v = (v - p) + p * 1
        BY <3>1, <3>3
      <4> QED BY <4>1
    <3> QED BY <3>2, <3>3
  <2>3. y + u * x = p * (2 * i - b * x) /\ 2 * i - b * x \in Int
    <3>1. y + v * x = (2 * p) * i
      BY <2>1
    <3>2. CASE b = 0
      BY <2>2, <3>1, <3>2
    <3>3. CASE b = 1
      <4>1. v * x = u * x + p * x
        BY <2>2, <3>3
      <4>2. p * (2 * i - x) = (2 * p) * i - p * x /\ 1 * x = x
        OBVIOUS
      <4>3. u * x \in Int /\ p * x \in Int /\ (2 * p) * i \in Int
        OBVIOUS
      <4> QED BY <3>1, <3>3, <4>1, <4>2, <4>3
    <3> QED BY <3>2, <3>3
  <2>4. PICK r \in Int : r = 2 * i - b * x
    BY <2>3
  <2>5. DivSteps(State(h, x, y), k) = State(h + k, x, r)
    <3>1. k <= 1 - h /\ u \in 0 .. 2^k - 1 /\ y + u * x = 2^k * r
      BY <2>1, <2>3, <2>4
    <3> QED BY <1>2, <3>1
  <2>6. DivStep(State(h + k, x, r)) = State((h + k) + 1, x, i)
    <3>1. h + k \in Int /\ h + k <= 0
      OBVIOUS
    <3>2. CASE b = 0
      <4>1. r = 2 * i
        <5>1. b * x = 0
          BY <3>2
        <5> QED BY <2>4, <5>1
      <4>2. DivStep(State(h + k, x, 2 * i)) = State((h + k) + 1, x, i)
        BY ONLY <3>1, x \in Int, i \in Int, EvenStep
      <4> QED BY <4>1, <4>2
    <3>3. CASE b = 1
      <4>1. r = 2 * i - x
        <5>1. b * x = x
          BY <3>3
        <5> QED BY <2>4, <5>1
      <4>2. r % 2 = 1 /\ r + x = 2 * i
        BY <1>0, <4>1, OddComplement
      <4> QED BY ONLY <3>1, <4>2, x \in Int, i \in Int, r \in Int, OddStep
    <3> QED BY <3>2, <3>3
  <2>7. (h + k) + 1 = h + (k + 1)
    OBVIOUS
  <2>8. DivSteps(State(h, x, y), k + 1) = DivStep(DivSteps(State(h, x, y), k))
    BY k \in Nat, DivStepsUnfold
  <2> QED BY ONLY <2>5, <2>6, <2>7, <2>8
<1> HIDE DEF B
<1>3. j \in B
  BY <1>1, <1>2, NumbersClosed
<1> QED BY <1>0, <1>3 DEF B

-----------------------------------------------------------------------------
\* The attribute of a modulus.

\* What the widths leave room for.
LEMMA Attribute ==
  ASSUME attr \in Moduli
  PROVE  /\ attr.m \in Nat /\ attr.m >= 3 /\ attr.m % 2 = 1
         /\ attr.width \in Nat /\ attr.n \in Nat /\ attr.limb \in Nat
         /\ attr.n >= 1 /\ attr.limb >= attr.n + 2 /\ attr.limb >= 5
         /\ attr.m < 2^attr.width
         /\ attr.width + 1 < 2^(attr.limb - 1)
<1>1. /\ attr.m % 2 = 1 /\ attr.m \in 3 .. 2^attr.width - 1
      /\ attr.width \in Nat /\ attr.n \in Nat /\ attr.limb \in Nat
      /\ attr.n >= 1 /\ attr.limb >= attr.n + 2
      /\ attr.limb >= 5 /\ attr.width + 1 < 2^(attr.limb - 1)
  BY ModuliAssumption
<1>2. 2^attr.width \in Nat
  BY <1>1, TwoPowerStep
<1> QED BY <1>1, <1>2

\* A larger exponent, a larger power.
LEMMA TwoPowerMono ==
  ASSUME NEW a \in Nat, NEW b \in Nat, a <= b
  PROVE  2^a \in Nat /\ 2^b \in Nat /\ 2^a > 0 /\ 2^a <= 2^b
<1>1. 2^a \in Nat /\ 2^b \in Nat /\ 2^a > 0
  BY TwoPowerStep
<1>2. CASE a = b
  BY <1>1, <1>2
<1>3. CASE a < b
  BY <1>1, <1>3, TwoPowerGrows
<1> QED BY <1>1, <1>2, <1>3

\* A limb holds what a row of a jump's matrix can add up to, four times.
LEMMA LimbRoom ==
  ASSUME attr \in Moduli, NEW k \in Nat, k <= attr.n
  PROVE  /\ 2^k \in Nat /\ 2^attr.n \in Nat /\ 2^(attr.limb - 1) \in Nat
         /\ 2^k > 0 /\ 2^k <= 2^attr.n /\ 2 * 2^attr.n <= 2^(attr.limb - 1)
<1>1. attr.n \in Nat /\ attr.limb - 1 \in Nat /\ attr.n < attr.limb - 1
  BY Attribute
<1>2. 2 * 2^attr.n <= 2^(attr.limb - 1)
  BY <1>1, TwoPowerGrows
<1> QED BY <1>1, <1>2, TwoPowerMono

\* What fits a limb.
LEMMA LimbFits ==
  ASSUME attr \in Moduli, NEW x \in Int, -(2 * 2^attr.n) <= x, x < 2 * 2^attr.n
  PROVE  Limb(x) = x
<1>1. attr.limb \in Nat /\ attr.limb >= 1
  BY Attribute
<1>2. PICK N \in Nat, L \in Nat : N = 2^attr.n /\ L = 2^(attr.limb - 1) /\ 2 * N <= L /\ N > 0
  <2>1. attr.n \in Nat /\ attr.n <= attr.n
    BY Attribute
  <2> QED BY <2>1, LimbRoom
<1>3. -L <= x /\ x < L
  BY <1>2
<1>4. Wrap(x, attr.limb) = x
  BY ONLY <1>1, <1>2, <1>3, x \in Int, WrapSmall
<1> QED BY <1>4 DEF Limb

\* The limb word of a limb word.
LEMMA LimbTwice ==
  ASSUME attr \in Moduli, NEW x \in Int
  PROVE  Limb(x) \in Int /\ Limb(Limb(x)) = Limb(x)
<1>1. attr.limb \in Nat /\ attr.limb >= 1
  BY Attribute
<1> QED BY <1>1, WrapFacts, WrapTwice DEF Limb

\* An extended word has room for 2^(n+1) times the modulus.
LEMMA ExtRoom ==
  ASSUME attr \in Moduli, NEW x \in Int,
         -(2 * (attr.m * 2^attr.n)) <= x, x <= 2 * (attr.m * 2^attr.n)
  PROVE  Ext(x) = x
<1>1. PICK M \in Nat, W \in Nat : M = attr.m /\ W = 2^attr.width /\ M < W
  BY Attribute, TwoPowerStep
<1>2. PICK N \in Nat, L \in Nat : N = 2^attr.n /\ L = 2^(attr.limb - 1) /\ 2 * N <= L /\ N > 0
  <2>1. attr.n \in Nat /\ attr.n <= attr.n
    BY Attribute
  <2> QED BY <2>1, LimbRoom
<1>3. PICK w \in Nat, l \in Nat : w = attr.width /\ l = attr.limb - 1 /\ ExtWidth = w + l + 1
  <2>1. attr.width \in Nat /\ attr.limb - 1 \in Nat /\ attr.limb \in Nat
    BY Attribute
  <2>2. attr.width + attr.limb = attr.width + (attr.limb - 1) + 1
    BY <2>1
  <2> QED BY <2>1, <2>2 DEF ExtWidth
<1>4. 2^(w + l) = W * L
  BY <1>1, <1>2, <1>3, TwoPowerSum
<1>5. 2 * (M * N) < W * L
  <2>1. M * (2 * N) <= M * L
    BY <1>1, <1>2, MulMono
  <2>2. L * (M + 1) <= L * W
    <3>1. M + 1 \in Int /\ W \in Int /\ M + 1 <= W
      BY <1>1
    <3> QED BY <3>1, MulMono
  <2>3. L * (M + 1) = M * L + L /\ L * W = W * L /\ M * (2 * N) = 2 * (M * N)
    BY <1>1, <1>2
  <2>4. L > 0 /\ M * L \in Int /\ W * L \in Int /\ M * N \in Int
    BY <1>1, <1>2
  <2> QED BY <2>1, <2>2, <2>3, <2>4
<1>6. PICK B \in Nat : B = W * L /\ -B <= x /\ x < B
  <2>1. PICK B \in Nat : B = W * L
    BY <1>1, <1>2
  <2>2. PICK C \in Nat : C = M * N
    BY <1>1, <1>2
  <2>3. 2 * C < B /\ -(2 * C) <= x /\ x <= 2 * C
    BY <1>1, <1>2, <1>5, <2>1, <2>2
  <2>4. -B <= x /\ x < B
    BY <2>3
  <2> QED BY <2>1, <2>4
<1>7. PICK v \in Nat : v = ExtWidth /\ v >= 1 /\ v - 1 = w + l
  BY <1>3
<1>8. Wrap(x, v) = x
  <2>1. -(2^(v - 1)) <= x /\ x < 2^(v - 1)
    BY <1>4, <1>6, <1>7
  <2> QED BY ONLY <1>7, <2>1, x \in Int, v \in Nat, WrapSmall
<1> QED BY <1>7, <1>8 DEF Ext

\* Shifting a multiple of 2^n by n loses nothing.
LEMMA ShiftExact ==
  ASSUME attr \in Moduli, NEW x \in Int, -(2 * attr.m) <= x, x <= 2 * attr.m
  PROVE  Shifted(2^attr.n * x) = x
<1>1. PICK N \in Nat, M \in Nat : N = 2^attr.n /\ N > 0 /\ M = attr.m
  <2>1. attr.n \in Nat /\ attr.n <= attr.n /\ attr.m \in Nat
    BY Attribute
  <2> QED BY <2>1, LimbRoom
<1>2. -(2 * (M * N)) <= N * x /\ N * x <= 2 * (M * N) /\ N * x \in Int
  <2>1. N * (-(2 * M)) <= N * x /\ N * x <= N * (2 * M)
    <3>1. -(2 * M) \in Int /\ 2 * M \in Int /\ -(2 * M) <= x /\ x <= 2 * M
      BY <1>1
    <3> QED BY <3>1, MulMono
  <2>2. N * (-(2 * M)) = -(2 * (M * N)) /\ N * (2 * M) = 2 * (M * N) /\ N * x \in Int
    BY <1>1
  <2> QED BY <2>1, <2>2
<1>3. Ext(N * x) = N * x
  BY <1>1, <1>2, ExtRoom
<1>4. (N * x) \div N = x
  <2>1. N * x = N * x + 0 /\ 0 \in 0 .. N - 1 /\ N * x \in Int
    BY <1>1
  <2> QED BY ONLY <2>1, N \in Nat, N > 0, <1>1, x \in Int, DivModUnique
<1> QED BY <1>1, <1>3, <1>4 DEF Shifted

\* A number that is not zero has an odd part.
LEMMA OddPart ==
  ASSUME NEW x \in Int, x # 0, NEW l \in Nat, -(2^l) <= x, x <= 2^l
  PROVE  \E z \in 0 .. l, q \in Int : x = 2^z * q /\ q % 2 = 1
<1> DEFINE T == {z \in Nat : ~ \E q \in Int : x = 2^(z + 1) * q}
<1>1. l \in T
  <2> SUFFICES ASSUME NEW q \in Int, x = 2^(l + 1) * q PROVE FALSE
    OBVIOUS
  <2>1. PICK L \in Nat : L = 2^l /\ L > 0 /\ 2^(l + 1) = 2 * L
    BY TwoPowerStep
  <2>2. -L <= x /\ x <= L /\ x = (2 * L) * q
    BY <2>1
  <2>3. CASE q >= 1
    <3>1. (2 * L) * 1 <= (2 * L) * q
      BY <2>1, <2>3, MulMono
    <3> QED BY <2>1, <2>2, <3>1
  <2>4. CASE q <= -1
    <3>1. (2 * L) * q <= (2 * L) * (-1)
      BY <2>1, <2>4, MulMono
    <3> QED BY <2>1, <2>2, <3>1
  <2>5. CASE q = 0
    BY <2>2, <2>5
  <2> QED BY <2>3, <2>4, <2>5
<1>2. PICK z \in T : \A y \in T : z <= y
  <2>1. T \in SUBSET Nat /\ T # {}
    BY <1>1
  <2> HIDE DEF T
  <2> QED BY <2>1, LeastNatural
<1>3. z \in 0 .. l
  <2>1. z <= l /\ z \in Nat
    BY ONLY <1>1, <1>2, z \in T DEF T
  <2> QED BY <2>1
<1>4. PICK q \in Int : x = 2^z * q
  <2>1. CASE z = 0
    <3>1. x = 2^z * x
      BY <2>1, TwoPowerZero
    <3> QED BY <3>1
  <2>2. CASE z # 0
    <3>1. z - 1 \in Nat /\ ~ (z <= z - 1) /\ (z - 1) + 1 = z
      BY <1>3, <2>2
    <3>2. z - 1 \notin T
      BY <1>2, <3>1
    <3> QED BY <3>1, <3>2
  <2> QED BY <2>1, <2>2
<1>5. q % 2 = 1
  <2> SUFFICES ASSUME q % 2 = 0 PROVE FALSE
    BY q % 2 \in {0, 1}
  <2>1. PICK r \in Int : q = 2 * r
    BY q = 2 * (q \div 2) + (q % 2), q \div 2 \in Int
  <2>2. PICK p \in Nat : p = 2^z /\ 2^(z + 1) = 2 * p
    <3>1. z \in Nat
      BY <1>3
    <3> QED BY <3>1, TwoPowerStep
  <2>3. x = 2^(z + 1) * r
    <3>1. p * (2 * r) = (2 * p) * r
      OBVIOUS
    <3> QED BY <1>4, <2>1, <2>2, <3>1
  <2> QED BY <2>3
<1> QED BY <1>3, <1>4, <1>5

\* The zeros at the end of an odd multiple of a power of two.
LEMMA PowerDivides ==
  ASSUME NEW z \in Nat, NEW q \in Int, q % 2 = 1, NEW a \in Nat
  PROVE  ((2^z * q) % 2^a = 0) <=> a <= z
<1>1. PICK p \in Nat : p = 2^z /\ p > 0
  BY TwoPowerStep
<1>2. CASE a <= z
  <2>1. PICK A \in Nat, c \in Nat : A = 2^a /\ A > 0 /\ 2^z = A * c
    BY <1>2, LimbMultiple
  <2>2. (A * c) * q = A * (c * q) /\ c * q \in Int
    OBVIOUS
  <2>3. (A * (c * q)) % A = 0
    BY <2>1, <2>2, MultipleMod
  <2> QED BY <1>2, <2>1, <2>2, <2>3
<1>3. CASE ~ (a <= z)
  <2>1. a - (z + 1) \in Nat /\ a = (z + 1) + (a - (z + 1)) /\ z + 1 \in Nat
    BY <1>3
  <2>2. PICK c \in Nat : c = 2^(a - (z + 1)) /\ c > 0
    BY <2>1, TwoPowerStep
  <2>3. 2^a = (2 * p) * c
    <3>1. 2^(z + 1) = 2 * p
      BY <1>1, TwoPowerStep
    <3>2. 2^((z + 1) + (a - (z + 1))) = 2^(z + 1) * 2^(a - (z + 1))
      BY <2>1, TwoPowerSum
    <3> QED BY <2>1, <2>2, <3>1, <3>2
  <2>4. ASSUME (2^z * q) % 2^a = 0 PROVE FALSE
    <3>1. PICK A \in Nat : A = 2^a /\ A > 0
      BY TwoPowerStep
    <3>2. p * q \in Int
      OBVIOUS
    <3>3. PICK k \in Int : p * q = ((p * q) % A) + A * k
      BY ONLY <3>1, <3>2, A \in Nat, ResidueWitness
    <3>4. p * q = ((2 * p) * c) * k
      <4>1. (p * q) % A = 0 /\ A * k \in Int
        BY <1>1, <2>4, <3>1
      <4> QED BY <2>3, <3>1, <3>3, <4>1
    <3>5. ((2 * p) * c) * k = p * (2 * (c * k)) /\ c * k \in Int
      OBVIOUS
    <3>6. PICK r \in Int : r = c * k
      OBVIOUS
    <3>7. p * (q - 2 * r) = 0
      <4>1. p * q = p * (2 * r)
        BY <3>4, <3>5, <3>6
      <4>2. p * (q - 2 * r) = p * q - p * (2 * r) /\ p * q \in Int /\ p * (2 * r) \in Int
        OBVIOUS
      <4> QED BY <4>1, <4>2
    <3>8. q - 2 * r = 0
      <4>1. PICK u \in Int : u = q - 2 * r
        OBVIOUS
      <4>2. p * u = 0
        BY <3>7, <4>1
      <4>3. u = 0
        <5>1. CASE u >= 1
          <6>1. p * 1 <= p * u
            BY <5>1, MulMono
          <6> QED BY <1>1, <4>2, <6>1
        <5>2. CASE u <= -1
          <6>1. p * u <= p * (-1)
            BY <5>2, MulMono
          <6> QED BY <1>1, <4>2, <6>1
        <5> QED BY <5>1, <5>2
      <4> QED BY <4>1, <4>3
    <3>9. q = 2 * r
      BY <3>8
    <3> QED BY <3>9
  <2> QED BY <1>3, <2>4
<1> QED BY <1>2, <1>3

\* How many zeros are dropped, and what is left of g.
LEMMA ZerosFacts ==
  ASSUME attr \in Moduli, jumpG \in Int, jumpG = Limb(jumpG), steps \in 0 .. attr.n
  PROVE  /\ Zeros \in 0 .. steps
         /\ \E q \in Int : jumpG = 2^Zeros * q /\ (Zeros < steps => q % 2 = 1)
<1>1. PICK l \in Nat : l = attr.limb /\ l >= 5 /\ steps \in Nat /\ steps <= l
  BY Attribute
<1>2. CASE jumpG = 0
  <2>1. TrailingZeros(jumpG) = l
    BY <1>1, <1>2 DEF TrailingZeros
  <2>2. Zeros = steps
    BY <1>1, <2>1 DEF Zeros, Smaller
  <2>3. 2^steps \in Nat
    BY <1>1, TwoPowerStep
  <2>4. jumpG = 2^steps * 0
    BY <1>2, <2>3
  <2> QED BY <1>1, <2>2, <2>4
<1>3. CASE jumpG # 0
  <2>1. PICK z \in 0 .. l, q \in Int : jumpG = 2^z * q /\ q % 2 = 1
    <3>1. l - 1 \in Nat /\ l >= 1
      BY <1>1
    <3>2. -(2^(l - 1)) <= jumpG /\ jumpG <= 2^(l - 1)
      <4>1. -(2^(l - 1)) <= Wrap(jumpG, l) /\ Wrap(jumpG, l) < 2^(l - 1) /\ 2^(l - 1) \in Nat
        BY ONLY <3>1, l \in Nat, jumpG \in Int, WrapFacts, TwoPowerStep
      <4>2. Wrap(jumpG, l) = jumpG
        BY <1>1 DEF Limb
      <4> QED BY <4>1, <4>2
    <3>3. \E z \in 0 .. l - 1, q \in Int : jumpG = 2^z * q /\ q % 2 = 1
      BY ONLY <1>3, <3>1, <3>2, jumpG \in Int, OddPart
    <3> QED BY <1>1, <3>3
  <2>2. z \in Nat /\ z + 1 \in Nat
    BY <1>1
  <2>3. \A a \in Nat : jumpG % 2^a = 0 <=> a <= z
    <3> SUFFICES ASSUME NEW a \in Nat PROVE jumpG % 2^a = 0 <=> a <= z
      OBVIOUS
    <3>1. ((2^z * q) % 2^a = 0) <=> a <= z
      BY ONLY <2>1, <2>2, q \in Int, a \in Nat, PowerDivides
    <3> QED BY <2>1, <3>1
  <2>4. TrailingZeros(jumpG) = z
    <3>1. \A y \in 0 .. l : (jumpG % 2^y = 0 /\ jumpG % 2^(y + 1) # 0) <=> y = z
      <4> SUFFICES ASSUME NEW y \in 0 .. l
                   PROVE  (jumpG % 2^y = 0 /\ jumpG % 2^(y + 1) # 0) <=> y = z
        OBVIOUS
      <4>1. y \in Nat /\ y + 1 \in Nat
        BY <1>1
      <4>2. (jumpG % 2^y = 0) <=> y <= z
        BY <2>3, <4>1
      <4>3. (jumpG % 2^(y + 1) = 0) <=> y + 1 <= z
        BY <2>3, <4>1
      <4> QED BY <2>2, <4>1, <4>2, <4>3
    <3> QED BY <1>1, <1>3, <3>1 DEF TrailingZeros
  <2>5. CASE z <= steps
    <3>1. Zeros = z
      BY <2>4, <2>5 DEF Zeros, Smaller
    <3> QED BY <1>1, <2>1, <2>2, <2>5, <3>1
  <2>6. CASE ~ (z <= steps)
    <3>1. Zeros = steps
      BY <2>4, <2>6 DEF Zeros, Smaller
    <3>2. PICK c \in Nat : 2^z = 2^steps * c
      <4>1. steps \in Nat /\ z \in Nat /\ steps <= z
        BY <1>1, <2>2, <2>6
      <4> QED BY ONLY <4>1, LimbMultiple
    <3>3. jumpG = 2^steps * (c * q) /\ c * q \in Int
      <4>1. PICK S \in Nat : S = 2^steps
        BY <1>1, TwoPowerStep
      <4>2. (S * c) * q = S * (c * q)
        OBVIOUS
      <4> QED BY <2>1, <3>2, <4>1, <4>2
    <3> QED BY <1>1, <3>1, <3>3
  <2> QED BY <2>5, <2>6
<1> QED BY <1>2, <1>3

-----------------------------------------------------------------------------
\* How far eta gets.  Where it is h, y stands for what g is after c steps.

EtaFits(h, y, c) ==
  /\ h \in Int /\ -attr.width <= h
  /\ \/ h <= 0
     \/ y = 0 /\ h <= c
     \/ h > 0 /\ y # 0 /\ -(2 * attr.m) <= 2^h * y /\ 2^h * y <= 2 * attr.m

\* Positive eta leaves little room for g.
LEMMA EtaLimits ==
  ASSUME attr \in Moduli, NEW h, NEW y \in Int, NEW c \in 0 .. attr.n, EtaFits(h, y, c)
  PROVE  h \in Int /\ -attr.width <= h /\ (h <= attr.width \/ (y = 0 /\ h <= attr.n))
<1>1. PICK W \in Nat, M \in Nat, w \in Nat : W = 2^w /\ M = attr.m /\ w = attr.width /\ M < W
  BY Attribute, TwoPowerStep
<1>2. h \in Int /\ -w <= h
  BY <1>1 DEF EtaFits
<1>3. CASE h <= 0
  BY <1>1, <1>2, <1>3
<1>4. CASE y = 0 /\ h <= c
  BY <1>1, <1>2, <1>4, Attribute
<1>5. CASE h > 0 /\ y # 0 /\ -(2 * M) <= 2^h * y /\ 2^h * y <= 2 * M
  <2>1. h \in Nat
    BY <1>2, <1>5
  <2>2. PICK P \in Nat : P = 2^h /\ P > 0
    BY <2>1, TwoPowerStep
  <2>3. P <= 2 * M
    <3>1. CASE y >= 1
      <4>1. P * 1 <= P * y
        BY <3>1, MulMono
      <4> QED BY <1>5, <2>2, <4>1
    <3>2. CASE y <= -1
      <4>1. P * y <= P * (-1)
        BY <3>2, MulMono
      <4> QED BY <1>5, <2>2, <4>1
    <3> QED BY <1>5, <3>1, <3>2
  <2>4. CASE h <= w
    BY <1>1, <1>2, <2>4
  <2>5. CASE w < h
    <3>1. 2 * 2^w <= 2^h
      BY <2>1, <2>5, TwoPowerGrows
    <3> QED BY <1>1, <2>2, <2>3, <3>1
  <2> QED BY <1>2, <2>4, <2>5
<1> QED BY <1>1, <1>2, <1>3, <1>4, <1>5 DEF EtaFits

\* Such an eta fits a limb, and so do its neighbours.
LEMMA EtaLimb ==
  ASSUME attr \in Moduli, NEW h \in Int, -(attr.width + 1) <= h,
         h <= attr.width + 1 \/ h <= attr.n
  PROVE  Limb(h) = h
<1>1. PICK w \in Nat, n \in Nat, l \in Nat, L \in Nat :
        /\ w = attr.width /\ n = attr.n /\ l = attr.limb /\ L = 2^(l - 1)
        /\ l >= 1 /\ w + 1 < L
  <2>1. attr.limb - 1 \in Nat
    BY Attribute
  <2> QED BY <2>1, Attribute, TwoPowerStep
<1>2. n < L
  <2>1. n < 2^n /\ n <= n
    BY TwoPowerAbove
  <2>2. 2^n \in Nat /\ L \in Nat /\ 2 * 2^n <= L
    BY <1>1, <2>1, LimbRoom
  <2> QED BY <2>1, <2>2
<1>3. -L <= h /\ h < L
  BY <1>1, <1>2
<1>4. Wrap(h, l) = h
  BY ONLY <1>1, <1>3, h \in Int, l \in Nat, L \in Nat, WrapSmall
<1> QED BY <1>1, <1>4 DEF Limb

\* Dropping zeros of g.
LEMMA EtaDrops ==
  ASSUME attr \in Moduli, NEW h, NEW c \in Nat, NEW j \in Nat, NEW y \in Int,
         EtaFits(h, 2^j * y, c), -attr.m <= 2^j * y, 2^j * y <= attr.m
  PROVE  EtaFits(h + j, y, c + j)
<1>1. PICK M \in Nat, w \in Nat : M = attr.m /\ w = attr.width
  BY Attribute
<1>2. PICK J \in Nat : J = 2^j /\ J > 0
  BY TwoPowerStep
<1>3. h \in Int /\ -w <= h + j /\ h + j \in Int
  BY <1>1 DEF EtaFits
<1>4. PICK v \in Int : v = J * y
  BY <1>2
<1>5. v = 0 <=> y = 0
  <2>1. CASE y >= 1
    <3>1. J * 1 <= J * y
      BY <2>1, MulMono
    <3> QED BY <1>2, <1>4, <2>1, <3>1
  <2>2. CASE y <= -1
    <3>1. J * y <= J * (-1)
      BY <2>2, MulMono
    <3> QED BY <1>2, <1>4, <2>2, <3>1
  <2>3. CASE y = 0
    BY <1>4, <2>3
  <2> QED BY <2>1, <2>2, <2>3
<1>6. CASE h <= 0
  <2>1. CASE h + j <= 0
    BY <1>1, <1>3, <2>1 DEF EtaFits
  <2>2. CASE h + j > 0 /\ y = 0
    <3>1. h + j <= c + j
      BY <1>3, <1>6
    <3> QED BY <1>1, <1>3, <2>2, <3>1 DEF EtaFits
  <2>3. CASE h + j > 0 /\ y # 0
    <3>1. h + j \in Nat /\ h + j <= j
      BY <1>3, <1>6, <2>3
    <3>2. PICK P \in Nat : P = 2^(h + j) /\ P > 0 /\ P <= J
      BY <1>2, <3>1, TwoPowerMono
    <3>3. -(2 * M) <= P * y /\ P * y <= 2 * M
      <4>1. -M <= v /\ v <= M
        BY <1>1, <1>2, <1>4
      <4>2. CASE y >= 0
        <5>1. y * P <= y * J /\ y * 0 <= y * P
          <6>1. y \in Nat
            BY <4>2
          <6> QED BY <3>2, <6>1, MulMono
        <5>2. y * P = P * y /\ y * J = v /\ P * y \in Int
          BY <1>4
        <5> QED BY <4>1, <5>1, <5>2
      <4>3. CASE y <= 0
        <5>1. PICK x \in Nat : x = -y
          BY <4>3
        <5>2. x * P <= x * J /\ x * 0 <= x * P
          BY <3>2, MulMono
        <5>3. x * P = -(P * y) /\ x * J = -v /\ P * y \in Int
          BY <1>4, <5>1
        <5> QED BY <4>1, <5>2, <5>3
      <4> QED BY <4>2, <4>3
    <3> QED BY <1>1, <1>3, <2>3, <3>2, <3>3 DEF EtaFits
  <2> QED BY <1>3, <2>1, <2>2, <2>3
<1>7. CASE v = 0 /\ h <= c
  <2>1. y = 0 /\ h + j <= c + j
    BY <1>3, <1>5, <1>7
  <2> QED BY <1>1, <1>3, <2>1 DEF EtaFits
<1>8. CASE h > 0 /\ v # 0 /\ -(2 * M) <= 2^h * v /\ 2^h * v <= 2 * M
  <2>1. h \in Nat /\ h + j \in Nat
    BY <1>3, <1>8
  <2>2. PICK P \in Nat : P = 2^h /\ 2^(h + j) = P * J
    BY <1>2, <2>1, TwoPowerStep, TwoPowerSum
  <2>3. 2^(h + j) * y = P * v
    <3>1. (P * J) * y = P * (J * y)
      OBVIOUS
    <3> QED BY <1>4, <2>2, <3>1
  <2>4. h + j > 0 /\ y # 0
    BY <1>3, <1>5, <1>8
  <2> QED BY <1>1, <1>3, <1>8, <2>2, <2>3, <2>4 DEF EtaFits
<1> QED BY <1>1, <1>2, <1>4, <1>6, <1>7, <1>8 DEF EtaFits

\* Cancelling bits of g.
LEMMA EtaCancels ==
  ASSUME attr \in Moduli, NEW h \in Int, h <= 0, -attr.width <= h,
         NEW s \in Nat, s <= 1 - h, NEW c \in Nat, c >= 1,
         NEW y \in Int, -attr.m <= y, y <= attr.m
  PROVE  EtaFits(h + s, y, c)
<1>1. PICK M \in Nat, w \in Nat : M = attr.m /\ w = attr.width
  BY Attribute
<1>2. h + s \in Int /\ -w <= h + s /\ h + s <= 1
  BY <1>1
<1>3. CASE h + s <= 0
  BY <1>1, <1>2, <1>3 DEF EtaFits
<1>4. CASE h + s = 1
  <2>1. 2^(h + s) = 2
    BY <1>4, TwoPowerZero
  <2>2. -(2 * M) <= 2 * y /\ 2 * y <= 2 * M
    BY <1>1
  <2> QED BY <1>1, <1>2, <1>4, <2>1, <2>2 DEF EtaFits
<1> QED BY <1>2, <1>3, <1>4

-----------------------------------------------------------------------------
\* The correction that makes d and e divisible.

\* A factor that is positive cancels.
LEMMA PositiveCancels ==
  ASSUME NEW p \in Nat, p > 0, NEW a \in Int, NEW b \in Int
  PROVE  /\ p * a <= p * b => a <= b
         /\ p * a < p * b => a < b
         /\ p * a = p * b => a = b
<1>1. ASSUME a > b PROVE p * b < p * a
  <2>1. p * (b + 1) <= p * a /\ b + 1 \in Int
    BY <1>1, MulMono
  <2>2. p * (b + 1) = p * b + p /\ p * b \in Int /\ p * a \in Int
    OBVIOUS
  <2> QED BY <2>1, <2>2
<1>2. ASSUME a < b PROVE p * a < p * b
  <2>1. p * (a + 1) <= p * b /\ a + 1 \in Int
    BY <1>2, MulMono
  <2>2. p * (a + 1) = p * a + p /\ p * b \in Int /\ p * a \in Int
    OBVIOUS
  <2> QED BY <2>1, <2>2
<1>3. p * a \in Int /\ p * b \in Int
  OBVIOUS
<1> QED BY <1>1, <1>2, <1>3

\* Modulo an odd number, powers of two cancel.
LEMMA PowerCancels ==
  ASSUME NEW m \in Nat, m >= 3, m % 2 = 1, NEW n \in Nat,
         NEW x \in Int, NEW y \in Int, 2^n * x = m * y
  PROVE  x % m = 0
<1>1. PICK N \in Nat : N = 2^n
  BY TwoPowerStep
<1>2. PICK z \in 1 .. m - 1 : SameMod(z * N, 1, m)
  BY <1>1, TwoPowerHasInverse
<1>3. PICK k \in Int : z * N = 1 + m * k
  BY <1>1, <1>2, SameModOnlyIf
<1>4. x = m * (z * y - k * x)
  <2>1. (z * N) * x = z * (m * y)
    <3>1. (z * N) * x = z * (N * x)
      OBVIOUS
    <3> QED BY <1>1, <3>1
  <2>2. (1 + m * k) * x = x + m * (k * x)
    OBVIOUS
  <2>3. z * (m * y) = m * (z * y)
    OBVIOUS
  <2>4. PICK a \in Int, b \in Int : a = z * y /\ b = k * x
    OBVIOUS
  <2>5. x + m * b = m * a
    BY <1>3, <2>1, <2>2, <2>3, <2>4
  <2>6. m * (a - b) = m * a - m * b /\ m * a \in Int /\ m * b \in Int
    OBVIOUS
  <2> QED BY <2>4, <2>5, <2>6
<1>5. z * y - k * x \in Int /\ m > 0
  OBVIOUS
<1>6. (m * (z * y - k * x)) % m = 0
  BY ONLY <1>5, m \in Nat, MultipleMod
<1> QED BY <1>4, <1>6

\* The constant of the attribute.
LEMMA MInvFacts ==
  ASSUME attr \in Moduli
  PROVE  MInv \in Nat /\ \E k \in Int : attr.m * MInv = 1 + 2^attr.n * k
<1>1. PICK N \in Nat, m \in Nat : N = 2^attr.n /\ m = attr.m /\ N > 0
  BY Attribute, TwoPowerStep
<1>2. \E x \in 0 .. N - 1 : (x * m) % N = 1
  <2>1. \E x \in 0 .. 2^attr.n - 1 : (m * x) % 2^attr.n = 1
    <3>1. m >= 3 /\ m % 2 = 1 /\ attr.n \in Nat /\ attr.n >= 1
      BY <1>1, Attribute
    <3> QED BY ONLY <3>1, m \in Nat, OddHasInverse
  <2>2. \A x \in 0 .. N - 1 : m * x = x * m
    OBVIOUS
  <2> QED BY <1>1, <2>1, <2>2
<1>3. MInv \in 0 .. N - 1 /\ (MInv * m) % N = 1
  BY <1>1, <1>2 DEF MInv, LowN
<1>4. PICK v \in Nat : v = MInv
  BY <1>1, <1>3
<1>5. m * v \in Int /\ v * m = m * v
  OBVIOUS
<1>6. PICK k \in Int : m * v = ((m * v) % N) + N * k
  BY ONLY <1>1, <1>5, N \in Nat, ResidueWitness
<1>7. m * v = 1 + N * k
  BY <1>3, <1>4, <1>5, <1>6
<1> QED BY <1>1, <1>4, <1>7

\* The low bits of a number.
LEMMA LowFacts ==
  ASSUME attr \in Moduli, NEW x \in Int
  PROVE  LowN(x) \in 0 .. 2^attr.n - 1 /\ \E k \in Int : x = LowN(x) + 2^attr.n * k
<1>1. 2^attr.n \in Nat /\ 2^attr.n > 0
  BY Attribute, TwoPowerStep
<1> QED BY <1>1, ResidueWitness DEF LowN

\* GenerateDE: a row of the matrix, applied to d and e and corrected, is a
\* multiple of 2^n and as small as d and e are.
LEMMA Corrected ==
  ASSUME attr \in Moduli, NEW a \in Int, NEW b \in Int, RowFits(a, b, 2^attr.n),
         d \in Int, e \in Int, -2 * attr.m < d, d < attr.m, -2 * attr.m < e, e < attr.m
  PROVE  \E c \in Int, x \in Int :
           /\ Correction(a, b) = c
           /\ d * a + e * b + attr.m * c = 2^attr.n * x
           /\ -2 * attr.m < x /\ x < attr.m
<1>1. PICK N \in Nat, m \in Nat : N = 2^attr.n /\ m = attr.m /\ N > 0 /\ m >= 3
  BY Attribute, TwoPowerStep
<1>2. PICK x \in Int, y \in Int : x = d /\ y = e
  OBVIOUS
<1>3. PICK sx \in {0, 1} : sx = IF d < 0 THEN 1 ELSE 0
  OBVIOUS
<1>4. PICK sy \in {0, 1} : sy = IF e < 0 THEN 1 ELSE 0
  OBVIOUS
<1> DEFINE md == a * sx + b * sy
<1>5. md \in Int /\ -N <= md /\ md <= N
  <2>1. RowFits(a, b, N)
    BY <1>1
  <2>2. -N <= a /\ a <= N /\ -N <= b /\ b <= N /\ -N <= a + b /\ a + b <= N
    BY <2>1 DEF RowFits
  <2>3. CASE sx = 0 /\ sy = 0
    BY <2>3, <1>1
  <2>4. CASE sx = 0 /\ sy = 1
    BY <2>2, <2>4
  <2>5. CASE sx = 1 /\ sy = 0
    BY <2>2, <2>5
  <2>6. CASE sx = 1 /\ sy = 1
    BY <2>2, <2>6
  <2> QED BY <2>3, <2>4, <2>5, <2>6
<1>6. (IF d < 0 THEN a ELSE 0) + (IF e < 0 THEN b ELSE 0) = md
  <2>1. (IF d < 0 THEN a ELSE 0) = a * sx
    BY <1>3
  <2>2. (IF e < 0 THEN b ELSE 0) = b * sy
    BY <1>4
  <2> QED BY <2>1, <2>2
<1> HIDE DEF md
<1>7. Limb(md) = md
  <2>1. -(2 * 2^attr.n) <= md /\ md < 2 * 2^attr.n
    BY <1>1, <1>5
  <2> QED BY <1>5, <2>1, LimbFits
<1>8. PICK lx \in 0 .. N - 1, kx \in Int : lx = LowN(d) /\ x = lx + N * kx
  BY <1>1, <1>2, LowFacts
<1>9. PICK ly \in 0 .. N - 1, ky \in Int : ly = LowN(e) /\ y = ly + N * ky
  BY <1>1, <1>2, LowFacts
<1>10. PICK c \in 0 .. N - 1, kc \in Int : c = LowN(a * lx + b * ly) /\ a * lx + b * ly = c + N * kc
  <2>1. a * lx + b * ly \in Int
    OBVIOUS
  <2> QED BY <1>1, <2>1, LowFacts
<1>11. PICK v \in Nat, kv \in Int : v = MInv /\ m * v = 1 + N * kv
  BY <1>1, MInvFacts
<1>12. PICK low \in 0 .. N - 1, kl \in Int : low = LowN(c * v + md) /\ c * v + md = low + N * kl
  <2>1. c * v + md \in Int
    BY <1>5
  <2> QED BY <1>1, <2>1, LowFacts
<1>13. Correction(a, b) = md - low
  <2>1. Correction(a, b) = Limb(md - low)
    BY <1>6, <1>7, <1>8, <1>9, <1>10, <1>11, <1>12 DEF Correction
  <2>2. md - low \in Int /\ -(2 * 2^attr.n) <= md - low /\ md - low < 2 * 2^attr.n
    BY <1>1, <1>5
  <2> QED BY <2>1, <2>2, LimbFits
<1> DEFINE k == a * kx + b * ky + kc + m * kl - kv * c
<1>14. x * a + y * b + m * (md - low) = N * k /\ k \in Int
  <2>1. x * a + y * b = c + N * (a * kx + b * ky + kc)
    <3>1. x * a = a * lx + N * (a * kx)
      BY <1>8
    <3>2. y * b = b * ly + N * (b * ky)
      BY <1>9
    <3>3. PICK i \in Int, j \in Int : i = a * kx /\ j = b * ky
      OBVIOUS
    <3>4. N * (i + j + kc) = N * i + N * j + N * kc
      OBVIOUS
    <3>5. N * i \in Int /\ N * j \in Int /\ N * kc \in Int /\ a * lx \in Int /\ b * ly \in Int
      OBVIOUS
    <3>6. N * (a * kx) = N * i /\ N * (b * ky) = N * j
      BY <3>3
    <3>7. N * (a * kx + b * ky + kc) = N * (i + j + kc)
      BY <3>3
    <3>8. x * a = a * lx + N * i /\ y * b = b * ly + N * j
      BY <3>1, <3>2, <3>6
    <3>9. a * lx + b * ly = c + N * kc
      BY <1>10
    <3> QED BY ONLY <3>4, <3>5, <3>7, <3>8, <3>9, c \in Int
  <2>2. m * (md - low) = N * (m * kl - kv * c) - c
    <3>1. md - low = N * kl - c * v
      BY <1>5, <1>12
    <3>2. m * (N * kl - c * v) = N * (m * kl) - (m * v) * c
      OBVIOUS
    <3>3. (m * v) * c = c + N * (kv * c)
      BY <1>11
    <3>4. PICK i \in Int, j \in Int : i = m * kl /\ j = kv * c
      OBVIOUS
    <3>5. N * (i - j) = N * i - N * j /\ N * i \in Int /\ N * j \in Int
      OBVIOUS
    <3> QED BY <3>1, <3>2, <3>3, <3>4, <3>5
  <2>3. PICK i \in Int, j \in Int : i = a * kx + b * ky + kc /\ j = m * kl - kv * c
    OBVIOUS
  <2>4. c + N * i + (N * j - c) = N * (i + j)
    OBVIOUS
  <2>5. k = i + j
    BY <2>3
  <2>6. x * a + y * b \in Int /\ m * (md - low) \in Int
    BY <1>5
  <2> QED BY <2>1, <2>2, <2>3, <2>4, <2>5, <2>6
<1> HIDE DEF k
<1>15. PICK u \in Int : /\ u = x * a + y * b + m * md
                        /\ -(N * (m - 1)) <= u /\ u <= N * (m - 1)
  <2>1. PICK x1 \in Int : x1 = x + m * sx /\ -(m - 1) <= x1 /\ x1 <= m - 1
    <3>1. CASE d < 0
      BY <1>1, <1>2, <1>3, <3>1
    <3>2. CASE ~ (d < 0)
      BY <1>1, <1>2, <1>3, <3>2
    <3> QED BY <3>1, <3>2
  <2>2. PICK y1 \in Int : y1 = y + m * sy /\ -(m - 1) <= y1 /\ y1 <= m - 1
    <3>1. CASE e < 0
      BY <1>1, <1>2, <1>4, <3>1
    <3>2. CASE ~ (e < 0)
      BY <1>1, <1>2, <1>4, <3>2
    <3> QED BY <3>1, <3>2
  <2>3. m - 1 \in Nat /\ RowFits(a, b, N)
    BY <1>1
  <2>4. -(N * (m - 1)) <= a * x1 + b * y1 /\ a * x1 + b * y1 <= N * (m - 1)
    BY ONLY <2>1, <2>2, <2>3, a \in Int, b \in Int, N \in Nat, x1 \in Int, y1 \in Int, RowProduct
  <2>5. a * x1 + b * y1 = x * a + y * b + m * md
    <3>1. a * x1 = x * a + m * (a * sx)
      BY <2>1
    <3>2. b * y1 = y * b + m * (b * sy)
      BY <2>2
    <3>3. PICK i \in Int, j \in Int : i = a * sx /\ j = b * sy
      OBVIOUS
    <3>4. m * md = m * i + m * j
      BY <3>3 DEF md
    <3>5. x * a \in Int /\ y * b \in Int /\ m * i \in Int /\ m * j \in Int
      OBVIOUS
    <3> QED BY <3>1, <3>2, <3>3, <3>4, <3>5
  <2>6. a * x1 + b * y1 \in Int
    OBVIOUS
  <2> QED BY <2>4, <2>5, <2>6
<1>16. N * k = u - m * low
  <2>1. m * (md - low) = m * md - m * low /\ m * md \in Int /\ m * low \in Int /\ x * a + y * b \in Int
    BY <1>5
  <2> QED BY <1>14, <1>15, <2>1
<1>17. -2 * m < k /\ k < m
  <2>1. PICK q \in Int : q = N * m
    OBVIOUS
  <2>2. N * (m - 1) = q - N
    BY <2>1
  <2>3. 0 <= m * low /\ m * low <= q - m /\ m * low \in Int
    <3>1. m * 0 <= m * low /\ m * low <= m * (N - 1)
      <4>1. low \in Int /\ 0 <= low /\ low <= N - 1
        OBVIOUS
      <4> QED BY <4>1, MulMono
    <3>2. m * (N - 1) = q - m
      BY <2>1
    <3> QED BY <3>1, <3>2
  <2>4. N * k \in Int /\ N * k <= q - N /\ N * k >= -2 * q + N + m
    BY <1>14, <1>15, <1>16, <2>2, <2>3
  <2>5. N * k < N * m
    BY <1>1, <2>1, <2>4
  <2>6. N * (-2 * m) < N * k
    <3>1. N * (-2 * m) = -2 * q
      BY <2>1
    <3> QED BY <1>1, <2>4, <3>1
  <2>7. -2 * m \in Int
    OBVIOUS
  <2> QED BY <1>1, <1>14, <2>5, <2>6, <2>7, PositiveCancels
<1>18. md - low \in Int
  BY <1>5
<1> QED BY <1>1, <1>2, <1>13, <1>14, <1>17, <1>18

-----------------------------------------------------------------------------
\* What holds within a jump.  After k division steps f and g would be F and
\* 2^p times H; the p bits are zero already and the steps they stand for still
\* to be counted.

\* The matrix r takes f and g there, up to the powers of two.
Linear(r, k, p, F, H) ==
  /\ r.t00 \in Int /\ r.t01 \in Int /\ r.t10 \in Int /\ r.t11 \in Int
  /\ r.t00 * f + r.t01 * g = 2^k * F
  /\ r.t10 * f + r.t11 * g = 2^(k + p) * H
  /\ r.t00 * r.t11 - r.t01 * r.t10 = 2^k
  /\ RowFits(r.t00, r.t01, 2^k)
  /\ RowFits(r.t10, r.t11, 2^(k + p))

\* The last s bits of x and y are theirs.
LowBits(x, y, s, p, F, H) ==
  /\ F % 2 = 1
  /\ \E i \in Int : x = F + 2^s * i
  /\ \E j \in Int : y = 2^p * H + 2^s * j

\* The steps so far, with p of those that halve.
StepsDone(h, s, p, F, H) ==
  /\ EtaFits(h + p, H, attr.n - s + p)
  /\ DivSteps(State(eta, f, g), attr.n - s + p) = State(h + p, F, H)

\* A jump with s steps to go.
InJump(h, x, y, s, r, p, F, H) ==
  /\ h \in Int /\ x \in Int /\ y \in Int /\ F \in Int /\ H \in Int
  /\ s \in 0 .. attr.n /\ p \in 0 .. s
  /\ Linear(r, attr.n - s, p, F, H)
  /\ LowBits(x, y, s, p, F, H)
  /\ StepsDone(h, s, p, F, H)

\* What a row makes of f and g is no larger than they are.
LEMMA RowBound ==
  ASSUME attr \in Moduli, f \in Int, g \in Int,
         -attr.m <= f, f <= attr.m, -attr.m <= g, g <= attr.m,
         NEW a \in Int, NEW b \in Int, NEW k \in Nat, RowFits(a, b, 2^k),
         NEW x \in Int, a * f + b * g = 2^k * x
  PROVE  -attr.m <= x /\ x <= attr.m
<1>1. PICK K \in Nat, m \in Nat : K = 2^k /\ K > 0 /\ m = attr.m
  BY Attribute, TwoPowerStep
<1>2. PICK u \in Int, v \in Int : u = f /\ v = g
  OBVIOUS
<1>3. RowFits(a, b, K) /\ -m <= u /\ u <= m /\ -m <= v /\ v <= m
  BY <1>1, <1>2
<1>4. -(K * m) <= a * u + b * v /\ a * u + b * v <= K * m
  BY ONLY <1>3, K \in Nat, m \in Nat, u \in Int, v \in Int, a \in Int, b \in Int, RowProduct
<1>5. a * u + b * v = K * x
  BY <1>1, <1>2
<1>6. K * (-m) = -(K * m) /\ -m \in Int
  OBVIOUS
<1>7. K * (-m) <= K * x /\ K * x <= K * m
  BY <1>4, <1>5, <1>6
<1> QED BY <1>1, <1>6, <1>7, PositiveCancels

\* A jump starts with the identity.
LEMMA JumpStarts ==
  ASSUME attr \in Moduli, f \in Int, g \in Int, f % 2 = 1, EtaFits(eta, g, attr.n),
         g # 0
  PROVE  InJump(eta, LowN(f), LowN(g), attr.n, Identity, 0, f, g)
<1>1. PICK n \in Nat : n = attr.n
  BY Attribute
<1>2. n - n = 0 /\ n - n + 0 = 0 /\ 0 + 0 = 0
  OBVIOUS
<1>3. eta \in Int /\ eta + 0 = eta
  BY DEF EtaFits
<1>4. Linear(Identity, 0, 0, f, g)
  BY <1>2, TwoPowerZero DEF Linear, Identity, RowFits
<1>5. LowN(f) \in Int /\ LowN(g) \in Int
  BY LowFacts
<1>6. \A x \in Int : \E i \in Int : LowN(x) = x + 2^n * i
  <2> SUFFICES ASSUME NEW x \in Int PROVE \E i \in Int : LowN(x) = x + 2^n * i
    OBVIOUS
  <2>0. PICK k \in Int : x = LowN(x) + 2^attr.n * k
    BY LowFacts
  <2>1. PICK l \in Int : l = LowN(x) /\ x = l + 2^n * k
    BY <1>1, <2>0, LowFacts
  <2>2. PICK N \in Nat : N = 2^n
    BY TwoPowerStep
  <2>3. l = x + N * (-k) /\ -k \in Int
    BY <2>1, <2>2
  <2> QED BY <2>1, <2>2, <2>3
<1>7. LowBits(LowN(f), LowN(g), n, 0, f, g)
  <2>1. 2^0 * g = g
    BY TwoPowerZero
  <2> QED BY <1>6, <2>1 DEF LowBits
<1>8. StepsDone(eta, n, 0, f, g)
  <2>1. EtaFits(eta, g, 0)
    BY DEF EtaFits
  <2>2. DivSteps(State(eta, f, g), 0) = State(eta, f, g)
    BY DivStepsUnfold
  <2> QED BY <1>1, <1>2, <1>3, <2>1, <2>2 DEF StepsDone
<1>9. n \in 0 .. attr.n /\ 0 \in 0 .. n
  BY <1>1
<1> QED BY ONLY <1>1, <1>2, <1>3, <1>4, <1>5, <1>7, <1>8, <1>9, f \in Int, g \in Int DEF InJump

\* With s bits that count z zeros are found, where p are known of.
ZerosFound(s, z, p, q, H, j) ==
  /\ z <= s /\ p <= s /\ (z < s => q % 2 = 1)
  /\ 2^z * q = 2^p * H + 2^s * j

ZerosAgree(s, z, p, q, H, j) == p <= z /\ H = 2^(z - p) * (q - 2^(s - z) * j)

\* The zeros that are known of are among those that are found.
LEMMA KnownZeros ==
  ASSUME NEW s \in Nat, NEW z \in Nat, NEW p \in Nat,
         NEW q \in Int, NEW H \in Int, NEW j \in Int, ZerosFound(s, z, p, q, H, j)
  PROVE  ZerosAgree(s, z, p, q, H, j)
<1>0. z <= s /\ p <= s /\ (z < s => q % 2 = 1) /\ 2^z * q = 2^p * H + 2^s * j
  BY DEF ZerosFound
<1>1. p <= z
  <2>1. SUFFICES ASSUME z < p PROVE FALSE
    OBVIOUS
  <2>2. q % 2 = 1 /\ z \in Nat /\ p \in Nat
    BY <1>0, <2>1
  <2>3. PICK P \in Nat, c \in Nat : P = 2^p /\ P > 0 /\ 2^s = P * c
    BY <1>0, <2>2, LimbMultiple
  <2>4. (P * c) * j = P * (c * j) /\ P * H + P * (c * j) = P * (H + c * j) /\ H + c * j \in Int
    <3>1. PICK i \in Int : i = c * j
      OBVIOUS
    <3> QED BY <3>1
  <2>5. 2^z * q = P * (H + c * j)
    BY <1>0, <2>3, <2>4
  <2>6. (2^z * q) % P = 0
    BY <2>3, <2>4, <2>5, MultipleMod
  <2>7. p <= z
    BY <2>2, <2>3, <2>6, PowerDivides
  <2> QED BY <2>1, <2>7
<1>2. z - p \in Nat /\ s - z \in Nat /\ z = p + (z - p) /\ s = z + (s - z) /\ p \in Nat /\ z \in Nat
  BY <1>0, <1>1
<1>3. PICK P \in Nat, Z \in Nat, S \in Nat :
        P = 2^p /\ P > 0 /\ Z = 2^(z - p) /\ S = 2^(s - z)
  BY <1>2, TwoPowerStep
<1>4. 2^z = P * Z
  BY <1>2, <1>3, TwoPowerSum
<1>5. 2^s = (P * Z) * S
  <2>1. 2^s = 2^z * 2^(s - z)
    BY <1>2, TwoPowerSum
  <2> QED BY <2>1, <1>3, <1>4
<1>6. (P * Z) * q = P * H + ((P * Z) * S) * j
  BY <1>0, <1>3, <1>4, <1>5
<1>7. PICK u \in Int, v \in Int : u = Z * q /\ v = Z * (S * j)
  OBVIOUS
<1>8. (P * Z) * q = P * u /\ ((P * Z) * S) * j = P * v /\ P * (u - v) = P * u - P * v /\ u - v \in Int
  <2>1. (P * Z) * q = P * (Z * q)
    OBVIOUS
  <2>2. ((P * Z) * S) * j = P * (Z * (S * j))
    OBVIOUS
  <2> QED BY <1>7, <2>1, <2>2
<1>9. P * H = P * (u - v)
  <2>1. P * H \in Int /\ P * u \in Int /\ P * v \in Int
    OBVIOUS
  <2> QED BY <1>6, <1>8, <2>1
<1>10. H = u - v
  BY <1>3, <1>8, <1>9, PositiveCancels
<1>11. H = Z * (q - S * j)
  <2>1. PICK i \in Int : i = S * j
    OBVIOUS
  <2> QED BY <1>7, <1>10, <2>1
<1> QED BY <1>1, <1>3, <1>11 DEF ZerosAgree

\* Shifting a limb without a sign only touches what is above the bits that
\* still count.
ShiftedDown(q, z) == Limb(((2^z * q) % 2^attr.limb) \div 2^z)

\* So the bits that still count arrive unchanged, the lowest one always.
LEMMA ShiftedRight ==
  ASSUME attr \in Moduli, NEW s \in Nat, s <= attr.n, NEW z \in Nat, z <= s, NEW q \in Int
  PROVE  /\ ShiftedDown(q, z) \in Int
         /\ \E k \in Int : ShiftedDown(q, z) = q + 2^(s - z) * k
         /\ \E k \in Int : ShiftedDown(q, z) = q + 2 * k
<1>1. PICK l \in Nat : l = attr.limb /\ l >= 5 /\ z \in Nat /\ z < l /\ s - z <= l - z /\ s - z \in Nat
                       /\ l - z \in Nat /\ l - z >= 1 /\ s - z <= l /\ l = z + (l - z)
  BY Attribute
<1>2. PICK Z \in Nat, C \in Nat, L \in Nat : Z = 2^z /\ Z > 0 /\ C = 2^(l - z) /\ C > 0 /\ L = 2^l /\ L > 0
  BY <1>1, TwoPowerStep
<1>3. L = Z * C
  BY <1>1, <1>2, TwoPowerSum
<1>4. PICK k \in Int, r \in 0 .. C - 1 : r = q % C /\ q = r + C * k
  BY <1>2, ResidueWitness
<1>5. (Z * q) % L = Z * r
  <2>1. Z * q = L * k + Z * r
    <3>1. Z * q = Z * r + Z * (C * k)
      BY <1>4
    <3>2. Z * (C * k) = (Z * C) * k
      OBVIOUS
    <3> QED BY <1>3, <3>1, <3>2
  <2>2. Z * r \in 0 .. L - 1
    <3>1. Z * r <= Z * (C - 1) /\ r \in Nat
      <4>1. r \in Int /\ C - 1 \in Int /\ r <= C - 1
        OBVIOUS
      <4> QED BY <4>1, MulMono
    <3>2. Z * (C - 1) = L - Z
      BY <1>3
    <3>3. PICK u \in Int : u = Z * r
      OBVIOUS
    <3>4. Z * 0 <= Z * r
      BY <3>1, MulMono
    <3> QED BY <1>2, <3>1, <3>2, <3>3, <3>4
  <2>3. PICK a \in Int, b \in 0 .. L - 1 : a = Z * q /\ b = Z * r
    BY <2>2
  <2>4. a = L * k + b
    BY <2>1, <2>3
  <2>5. a % L = b
    BY ONLY <1>2, <2>4, a \in Int, b \in 0 .. L - 1, L \in Nat, k \in Int, DivModUnique
  <2> QED BY <2>3, <2>5
<1>6. (Z * r) \div Z = r
  <2>1. Z * r = Z * r + 0 /\ Z * r \in Int /\ 0 \in 0 .. Z - 1 /\ r \in Int
    BY <1>2
  <2> QED BY <1>2, <2>1, DivModUnique
<1>7. ShiftedDown(q, z) = Limb(r)
  BY <1>1, <1>2, <1>5, <1>6 DEF ShiftedDown
<1>8. PICK i \in Int : Limb(r) = r + L * i /\ Limb(r) \in Int
  <2>1. r \in Int /\ l >= 1
    BY <1>1
  <2> QED BY <1>1, <1>2, <2>1, WrapFacts DEF Limb
<1>9. Limb(r) = q + C * (Z * i - k)
  <2>1. L * i = C * (Z * i)
    BY <1>3
  <2>2. C * (Z * i - k) = C * (Z * i) - C * k /\ C * (Z * i) \in Int /\ C * k \in Int
    <3>1. PICK v \in Int : v = Z * i
      OBVIOUS
    <3> QED BY <3>1
  <2>3. q = r + C * k
    BY <1>4
  <2>4. Limb(r) = r + C * (Z * i)
    BY <1>8, <2>1
  <2>5. PICK a \in Int, b \in Int, c \in Int : a = C * (Z * i) /\ b = C * k /\ c = C * (Z * i - k)
    BY <2>2
  <2>6. c = a - b
    BY <2>2, <2>5
  <2> QED BY <2>3, <2>4, <2>5, <2>6
<1>10. PICK v \in Int : v = Z * i - k
  OBVIOUS
<1>11. \A a \in Nat : a <= l - z => \E j \in Int : Limb(r) = q + 2^a * j
  <2> SUFFICES ASSUME NEW a \in Nat, a <= l - z PROVE \E j \in Int : Limb(r) = q + 2^a * j
    OBVIOUS
  <2>1. PICK A \in Nat, c \in Nat : A = 2^a /\ C = A * c
    <3>1. PICK b \in Nat : b = l - z /\ a <= b /\ C = 2^b
      BY <1>1, <1>2
    <3> QED BY ONLY <3>1, a \in Nat, LimbMultiple
  <2>2. (A * c) * v = A * (c * v) /\ c * v \in Int
    OBVIOUS
  <2> QED BY <1>9, <1>10, <2>1, <2>2
<1>12. 1 \in Nat /\ 1 <= l - z /\ 2^1 = 2
  BY <1>1, TwoPowerZero
<1> QED BY <1>1, <1>7, <1>8, <1>11, <1>12

\* The rows of a jump are limbs.
LEMMA RowLimbs ==
  ASSUME attr \in Moduli, NEW a \in Int, NEW b \in Int, NEW k \in Nat, k <= attr.n, RowFits(a, b, 2^k)
  PROVE  Limb(a) = a /\ Limb(b) = b
<1>1. PICK K \in Nat, N \in Nat : K = 2^k /\ N = 2^attr.n /\ K <= N /\ N > 0
  BY LimbRoom
<1>2. -K <= a /\ a <= K /\ -K <= b /\ b <= K
  BY <1>1, RowEntries
<1>3. -(2 * N) <= a /\ a < 2 * N /\ -(2 * N) <= b /\ b < 2 * N
  BY <1>1, <1>2
<1> QED BY <1>1, <1>3, LimbFits

\* A row takes f and g to a number, and so its multiple to the multiple.
LEMMA RowTimes ==
  ASSUME NEW a \in Int, NEW b \in Int, NEW x \in Int, NEW y \in Int, NEW v \in Int, NEW z \in Nat,
         a * x + b * y = v
  PROVE  (a * z) * x + (b * z) * y = v * z
<1>1. PICK i \in Int, j \in Int : i = a * x /\ j = b * y
  OBVIOUS
<1>2. (a * z) * x = i * z /\ (b * z) * y = j * z
  BY <1>1
<1>3. i * z + j * z = (i + j) * z
  OBVIOUS
<1> QED BY <1>1, <1>2, <1>3

\* The part of a jump that drops zeros: the matrix.
LEMMA ZerosLinear ==
  ASSUME attr \in Moduli, f \in Int, g \in Int, NEW r, NEW k \in Nat, NEW p \in Nat, NEW z \in Nat, p <= z,
         NEW F \in Int, NEW H \in Int, NEW H2 \in Int, H = 2^(z - p) * H2, Linear(r, k, p, F, H)
  PROVE  Linear([t00 |-> r.t00 * 2^z, t01 |-> r.t01 * 2^z, t10 |-> r.t10, t11 |-> r.t11], k + z, 0, F, H2)
<1> DEFINE r2 == [t00 |-> r.t00 * 2^z, t01 |-> r.t01 * 2^z, t10 |-> r.t10, t11 |-> r.t11]
<1>1. PICK a \in Int, b \in Int, c \in Int, h \in Int :
        a = r.t00 /\ b = r.t01 /\ c = r.t10 /\ h = r.t11
  BY DEF Linear
<1>2. PICK x \in Int, y \in Int : x = f /\ y = g
  OBVIOUS
<1>3. /\ a * x + b * y = 2^k * F /\ c * x + h * y = 2^(k + p) * H
      /\ a * h - b * c = 2^k
      /\ RowFits(a, b, 2^k) /\ RowFits(c, h, 2^(k + p))
  BY <1>1, <1>2 DEF Linear
<1>5. PICK K \in Nat, P \in Nat, D \in Nat, Z \in Nat, u \in Nat :
        K = 2^k /\ P = 2^p /\ D = 2^(z - p) /\ Z = 2^z /\ u = 2^(k + z)
  BY TwoPowerStep
<1>6. Z = P * D /\ u = K * Z /\ 2^(k + p) = K * P
  <2>1. z - p \in Nat /\ z = p + (z - p)
    OBVIOUS
  <2>2. 2^z = 2^p * 2^(z - p)
    BY <2>1, TwoPowerSum
  <2> QED BY <1>5, <2>2, TwoPowerSum
<1>4. (a * Z) * x + (b * Z) * y = u * F /\ RowFits(a * Z, b * Z, u)
  <2>1. PICK v \in Int : v = K * F /\ a * x + b * y = v
    BY <1>3, <1>5
  <2>2. (a * Z) * x + (b * Z) * y = v * Z
    BY ONLY <2>1, a \in Int, b \in Int, x \in Int, y \in Int, v \in Int, Z \in Nat, RowTimes
  <2>3. (K * F) * Z = (K * Z) * F
    OBVIOUS
  <2>4. RowFits(a, b, K)
    BY <1>3, <1>5
  <2>5. RowFits(a * Z, b * Z, K * Z)
    BY ONLY <2>4, a \in Int, b \in Int, K \in Nat, Z \in Nat, RowScaled
  <2> QED BY <1>6, <2>1, <2>2, <2>3, <2>5
<1>7. c * x + h * y = u * H2
  <2>1. (K * P) * (D * H2) = (K * (P * D)) * H2
    OBVIOUS
  <2> QED BY <1>3, <1>5, <1>6, <2>1
<1>8. (a * Z) * h - (b * Z) * c = u
  <2>1. PICK i \in Int, j \in Int : i = a * h /\ j = b * c
    OBVIOUS
  <2>2. (a * Z) * h = i * Z /\ (b * Z) * c = j * Z /\ i * Z - j * Z = (i - j) * Z
    BY <2>1
  <2>3. i - j = K
    BY <1>3, <1>5, <2>1
  <2> QED BY <1>6, <2>2, <2>3
<1>9. RowFits(c, h, u)
  <2>1. k + p \in Nat /\ k + z \in Nat /\ k + p <= k + z
    OBVIOUS
  <2>2. PICK v \in Nat : v = 2^(k + p) /\ v <= u
    BY <1>5, <2>1, TwoPowerMono
  <2>3. RowFits(c, h, v)
    BY <1>3, <2>2
  <2> QED BY ONLY <2>2, <2>3, c \in Int, h \in Int, u \in Nat, RowWider
<1>10. k + z + 0 = k + z
  OBVIOUS
<1>11. a * Z \in Int /\ b * Z \in Int
  OBVIOUS
<1>12. r2.t00 = a * Z /\ r2.t01 = b * Z /\ r2.t10 = c /\ r2.t11 = h
  BY <1>1, <1>5
<1> HIDE DEF r2
<1>13. Linear(r2, k + z, 0, F, H2)
  BY <1>2, <1>4, <1>5, <1>7, <1>8, <1>9, <1>10, <1>11, <1>12 DEF Linear
<1> QED BY <1>13 DEF r2

-----------------------------------------------------------------------------
\* The actions of a jump.

Matrix == [t00 : Int, t01 : Int, t10 : Int, t11 : Int]
Cofactors(r) == {r.t00, r.t01, r.t10, r.t11}

\* What the outer loop knows of f and g.
Operands ==
  /\ attr \in Moduli /\ f \in Int /\ g \in Int
  /\ -attr.m <= f /\ f <= attr.m /\ -attr.m <= g /\ g <= attr.m

\* The low bits keep the parity.
LEMMA SameParity ==
  ASSUME NEW x \in Int, NEW y \in Int, NEW s \in Nat, s > 0, NEW i \in Int, x = y + 2^s * i
  PROVE  x % 2 = y % 2
<1>1. PICK c \in Nat : 2^s = 2 * c
  <2>1. 1 \in Nat /\ 1 <= s
    OBVIOUS
  <2>2. \E c \in Nat : 2^s = 2^1 * c
    BY ONLY <2>1, s \in Nat, LimbMultiple
  <2> QED BY <2>2, TwoPowerZero
<1>2. PICK k \in Int : k = c * i
  OBVIOUS
<1>3. (2 * c) * i = 2 * k
  BY <1>2
<1>4. x = y + 2 * k
  BY <1>1, <1>3
<1> QED BY <1>4

\* Eta fits a limb at all times.
LEMMA EtaWord ==
  ASSUME attr \in Moduli, NEW h, NEW y \in Int, NEW c \in 0 .. attr.n, EtaFits(h, y, c)
  PROVE  h \in Int /\ Limb(h) = h
<1>1. h \in Int /\ -attr.width <= h /\ (h <= attr.width \/ (y = 0 /\ h <= attr.n))
  BY EtaLimits
<1>2. attr.width \in Nat
  BY Attribute
<1>3. -(attr.width + 1) <= h /\ (h <= attr.width + 1 \/ h <= attr.n)
  BY <1>1, <1>2
<1> QED BY <1>1, <1>3, EtaLimb

\* Every bit that is dropped is a division step.
LEMMA ZerosDrop ==
  ASSUME Operands, t \in Matrix, jumpG = Limb(jumpG), NEW p \in Nat, NEW F \in Int, NEW H \in Int,
         InJump(jumpEta, jumpF, jumpG, steps, t, p, F, H), DropZeros
  PROVE  /\ \E H2 \in Int : InJump(jumpEta', jumpF', jumpG', steps', t', 0, F, H2)
         /\ steps' # 0 => jumpG' % 2 = 1
         /\ t' \in Matrix
         /\ Limb(jumpEta') = jumpEta' /\ Limb(jumpG') = jumpG'
<1>1. PICK n \in Nat, s \in Nat, z \in Nat, k \in Nat :
        n = attr.n /\ s = steps /\ s <= n /\ z = Zeros /\ z <= s /\ k = n - s
  <2>1. steps \in 0 .. attr.n /\ attr.n \in Nat
    BY Attribute DEF InJump, Operands
  <2>2. Zeros \in 0 .. steps
    BY ZerosFacts DEF InJump, Operands
  <2> QED BY <2>1, <2>2
<1>2. /\ attr \in Moduli /\ jumpEta \in Int /\ F \in Int /\ H \in Int /\ p \in Nat /\ p <= s
      /\ jumpG \in Int /\ jumpF \in Int /\ f \in Int /\ g \in Int
  BY <1>1 DEF InJump, Operands
<1>3. PICK q \in Int : jumpG = 2^z * q /\ (z < s => q % 2 = 1)
  <2>1. steps \in 0 .. attr.n
    BY DEF InJump
  <2> QED BY <1>1, <1>2, <2>1, ZerosFacts
<1>4. F % 2 = 1 /\ (\E i \in Int : jumpF = F + 2^s * i) /\ \E j \in Int : jumpG = 2^p * H + 2^s * j
  BY <1>1 DEF InJump, LowBits
<1>5. PICK i \in Int : jumpF = F + 2^s * i
  BY <1>4
<1>6. PICK j \in Int : jumpG = 2^p * H + 2^s * j
  BY <1>4
<1>7. PICK H2 \in Int : p <= z /\ H = 2^(z - p) * H2 /\ q = H2 + 2^(s - z) * j
  <2>1. ZerosFound(s, z, p, q, H, j)
    BY <1>1, <1>2, <1>3, <1>6 DEF ZerosFound
  <2>2. ZerosAgree(s, z, p, q, H, j)
    BY <2>1, KnownZeros
  <2>3. p <= z /\ H = 2^(z - p) * (q - 2^(s - z) * j)
    BY <2>2 DEF ZerosAgree
  <2>4. PICK S \in Nat : S = 2^(s - z)
    BY <1>1, TwoPowerStep
  <2>5. PICK u \in Int : u = q - S * j
    OBVIOUS
  <2>6. q = u + S * j
    <3>1. S * j \in Int
      OBVIOUS
    <3> QED BY <2>5, <3>1
  <2> QED BY <2>3, <2>4, <2>5, <2>6
<1>8. /\ steps' = s - z /\ jumpEta' = Limb(jumpEta + z) /\ jumpF' = jumpF
      /\ jumpG' = Limb(((2^z * q) % 2^attr.limb) \div 2^z)
      /\ t' = [t00 |-> Limb(t.t00 * 2^z), t01 |-> Limb(t.t01 * 2^z), t10 |-> t.t10, t11 |-> t.t11]
  BY <1>1, <1>3 DEF DropZeros, Matrix
<1>9. PICK c \in Int, u \in Int, v \in Int : jumpG' = c /\ c = q + 2^(s - z) * u /\ c = q + 2 * v
  <2>1. attr \in Moduli /\ s <= attr.n /\ z <= s
    BY <1>1, <1>2
  <2>3. /\ ShiftedDown(q, z) \in Int
        /\ \E u \in Int : ShiftedDown(q, z) = q + 2^(s - z) * u
        /\ \E v \in Int : ShiftedDown(q, z) = q + 2 * v
    BY ONLY <2>1, s \in Nat, z \in Nat, q \in Int, ShiftedRight
  <2>2. PICK c \in Int : c = ShiftedDown(q, z)
    BY <2>3
  <2>4. jumpG' = c
    BY <1>8, <2>2 DEF ShiftedDown
  <2> QED BY <2>2, <2>3, <2>4
<1>10. Linear([t00 |-> t.t00 * 2^z, t01 |-> t.t01 * 2^z, t10 |-> t.t10, t11 |-> t.t11], k + z, 0, F, H2)
  <2>1. Linear(t, k, p, F, H)
    BY <1>1 DEF InJump
  <2>2. p <= z /\ H = 2^(z - p) * H2
    BY <1>7
  <2> QED BY <1>2, <2>1, <2>2, ZerosLinear
<1>11. t' = [t00 |-> t.t00 * 2^z, t01 |-> t.t01 * 2^z, t10 |-> t.t10, t11 |-> t.t11]
  <2>1. PICK a \in Int, b \in Int : a = t.t00 * 2^z /\ b = t.t01 * 2^z /\ RowFits(a, b, 2^(k + z))
    BY <1>10 DEF Linear
  <2>2. k + z \in Nat /\ k + z <= attr.n
    BY <1>1
  <2>3. Limb(a) = a /\ Limb(b) = b
    BY <1>2, <2>1, <2>2, RowLimbs
  <2> QED BY <1>8, <2>1, <2>3
<1>12. EtaFits(jumpEta + z, H2, k + z) /\ DivSteps(State(eta, f, g), k + z) = State(jumpEta + z, F, H2)
  <2>1. EtaFits(jumpEta + p, H, k + p) /\ DivSteps(State(eta, f, g), k + p) = State(jumpEta + p, F, H)
    BY <1>1 DEF InJump, StepsDone
  <2>2. PICK w \in Nat, h \in Int : w = z - p /\ h = jumpEta + p /\ h + w = jumpEta + z /\ (k + p) + w = k + z
    BY <1>2, <1>7
  <2>3. -attr.m <= H /\ H <= attr.m
    <3>1. RowFits(t.t10, t.t11, 2^(k + p)) /\ t.t10 * f + t.t11 * g = 2^(k + p) * H /\ t.t10 \in Int /\ t.t11 \in Int
      BY <1>1 DEF InJump, Linear
    <3>2. k + p \in Nat
      BY <1>2
    <3> QED BY <1>2, <3>1, <3>2, RowBound DEF Operands
  <2>4. H = 2^w * H2
    BY <1>7, <2>2
  <2>5. EtaFits(h + w, H2, (k + p) + w)
    <3>1. EtaFits(h, 2^w * H2, k + p) /\ -attr.m <= 2^w * H2 /\ 2^w * H2 <= attr.m /\ k + p \in Nat
      BY <1>2, <2>1, <2>2, <2>3, <2>4
    <3> QED BY ONLY <1>2, <3>1, w \in Nat, h \in Int, H2 \in Int, EtaDrops
  <2>6. DivSteps(State(eta, f, g), (k + p) + w) = State(h + w, F, H2)
    <3>1. k + p \in Nat
      BY <1>2
    <3>2. DivSteps(State(eta, f, g), (k + p) + w) = DivSteps(State(h, F, 2^w * H2), w)
      BY <2>1, <2>2, <2>4, <3>1, DivStepsSum
    <3> QED BY <1>2, <3>2, ZeroSteps
  <2> QED BY <2>2, <2>5, <2>6
<1>13. jumpEta' = jumpEta + z /\ jumpEta + z \in Int
  <2>1. k + z \in 0 .. attr.n
    BY <1>1
  <2> QED BY <1>2, <1>8, <1>12, <2>1, EtaWord
<1>14. LowBits(jumpF, c, s - z, 0, F, H2)
  <2>1. PICK S \in Nat, Z \in Nat : S = 2^(s - z) /\ Z = 2^z /\ 2^s = S * Z
    <3>1. s - z \in Nat /\ s = (s - z) + z
      BY <1>1
    <3> QED BY <3>1, TwoPowerStep, TwoPowerSum
  <2>2. jumpF = F + S * (Z * i) /\ Z * i \in Int
    BY <1>5, <2>1
  <2>3. c = H2 + S * (j + u)
    <3>1. S * (j + u) = S * j + S * u /\ S * j \in Int /\ S * u \in Int
      OBVIOUS
    <3> QED BY <1>7, <1>9, <2>1, <3>1
  <2>4. 2^0 * H2 = H2 /\ j + u \in Int
    BY TwoPowerZero
  <2> QED BY <1>4, <2>1, <2>2, <2>3, <2>4 DEF LowBits
<1>15. steps' # 0 => jumpG' % 2 = 1
  <2>1. ASSUME z < s PROVE c % 2 = 1
    <3>1. q % 2 = 1 /\ c = q + 2 * v
      BY <1>3, <1>9, <2>1
    <3> QED BY <3>1
  <2> QED BY <1>1, <1>8, <1>9, <2>1
<1>16. PICK s2 \in Nat : s2 = s - z /\ steps' = s2 /\ attr.n - s2 = k + z /\ s2 \in 0 .. attr.n
  BY <1>1, <1>8
<1>17. StepsDone(jumpEta', s2, 0, F, H2)
  <2>1. (k + z) + 0 = k + z /\ (jumpEta + z) + 0 = jumpEta + z
    BY <1>2
  <2> QED BY <1>12, <1>13, <1>16, <2>1 DEF StepsDone
<1>18. InJump(jumpEta', jumpF', jumpG', steps', t', 0, F, H2)
  <2>1. Linear(t', attr.n - s2, 0, F, H2)
    BY <1>10, <1>11, <1>16
  <2>2. LowBits(jumpF', jumpG', s2, 0, F, H2)
    BY <1>8, <1>9, <1>14, <1>16
  <2>3. 0 \in 0 .. s2 /\ jumpEta' \in Int /\ jumpF' \in Int /\ jumpG' \in Int
    BY <1>2, <1>8, <1>9, <1>13
  <2> QED BY <1>2, <1>16, <1>17, <2>1, <2>2, <2>3 DEF InJump
<1>19. t' \in Matrix
  <2>1. t.t00 * 2^z \in Int /\ t.t01 * 2^z \in Int /\ t.t10 \in Int /\ t.t11 \in Int
    BY <1>10 DEF Linear
  <2> QED BY <1>11, <2>1 DEF Matrix
<1>20. Limb(jumpEta') = jumpEta' /\ Limb(jumpG') = jumpG'
  <2>1. jumpEta + z \in Int
    BY <1>13
  <2>2. jumpG' = Limb((jumpG % 2^attr.limb) \div 2^z) /\ (jumpG % 2^attr.limb) \div 2^z \in Int
    <3>1. PICK L \in Nat, Z \in Nat : L = 2^attr.limb /\ L > 0 /\ Z = 2^z /\ Z > 0
      BY <1>2, Attribute, TwoPowerStep
    <3>2. PICK r \in Int : r = jumpG % L
      BY <1>2, <3>1, ResidueWitness
    <3>3. r \div Z \in Int
      BY <3>1, DivModBasics
    <3> QED BY <1>3, <1>8, <3>1, <3>2, <3>3
  <2> QED BY <1>2, <1>8, <2>1, <2>2, LimbTwice
<1> QED BY <1>15, <1>18, <1>19, <1>20

\* Before bits are cancelled, and after the swap: h is not positive, and the
\* next steps from F and H are the ones that were to come.
Ready(h, x, y, r, F, H) ==
  /\ h \in Int /\ h <= 0 /\ -attr.width <= h
  /\ x \in Int /\ x % 2 = 1 /\ y \in Int /\ F \in Int /\ H \in Int /\ r \in Matrix
  /\ Linear(r, attr.n - steps, 0, F, H)
  /\ LowBits(x, y, steps, 0, F, H)
  /\ \A j \in Nat : j > 0 => DivSteps(State(eta, f, g), attr.n - steps + j) = DivSteps(State(h, F, H), j)

\* The swap of a jump, as far as it takes place.
EtaSwapped == IF jumpEta > 0 THEN Limb(-jumpEta) ELSE jumpEta
FSwapped   == IF jumpEta > 0 THEN jumpG ELSE jumpF
GSwapped   == IF jumpEta > 0 THEN Limb(-jumpF) ELSE jumpG
TSwapped   == IF jumpEta > 0
              THEN [t00 |-> t.t10, t01 |-> t.t11, t10 |-> Limb(-t.t00), t11 |-> Limb(-t.t01)]
              ELSE t

\* The rows after a swap.
LEMMA SwapLinear ==
  ASSUME f \in Int, g \in Int, NEW r, NEW k \in Nat, NEW F \in Int, NEW H \in Int, Linear(r, k, 0, F, H)
  PROVE  Linear([t00 |-> r.t10, t01 |-> r.t11, t10 |-> -r.t00, t11 |-> -r.t01], k, 0, H, -F)
<1>1. PICK a \in Int, b \in Int, c \in Int, h \in Int :
        a = r.t00 /\ b = r.t01 /\ c = r.t10 /\ h = r.t11
  BY DEF Linear
<1>2. PICK x \in Int, y \in Int : x = f /\ y = g
  OBVIOUS
<1>3. PICK K \in Nat : K = 2^k /\ K = 2^(k + 0)
  <2>1. k + 0 = k
    OBVIOUS
  <2> QED BY <2>1, TwoPowerStep
<1>4. /\ a * x + b * y = K * F /\ c * x + h * y = K * H
      /\ a * h - b * c = K
      /\ RowFits(a, b, K) /\ RowFits(c, h, K)
  BY <1>1, <1>2, <1>3 DEF Linear
<1>5. (-a) * x + (-b) * y = K * (-F)
  <2>1. (-a) * x = -(a * x) /\ (-b) * y = -(b * y) /\ K * (-F) = -(K * F)
    OBVIOUS
  <2>2. PICK i \in Int, j \in Int : i = a * x /\ j = b * y
    OBVIOUS
  <2> QED BY <1>4, <2>1, <2>2
<1>6. c * (-b) - h * (-a) = K
  <2>1. c * (-b) = -(b * c) /\ h * (-a) = -(a * h)
    OBVIOUS
  <2>2. PICK i \in Int, j \in Int : i = b * c /\ j = a * h
    OBVIOUS
  <2> QED BY <1>4, <2>1, <2>2
<1>7. RowFits(-a, -b, K) /\ -a \in Int /\ -b \in Int
  BY <1>4 DEF RowFits
<1> DEFINE r2 == [t00 |-> r.t10, t01 |-> r.t11, t10 |-> -r.t00, t11 |-> -r.t01]
<1>8. r2.t00 = c /\ r2.t01 = h /\ r2.t10 = -a /\ r2.t11 = -b
  BY <1>1
<1> HIDE DEF r2
<1>9. Linear(r2, k, 0, H, -F)
  BY <1>2, <1>3, <1>4, <1>5, <1>6, <1>7, <1>8 DEF Linear
<1> QED BY <1>9 DEF r2

\* A jump goes on from the swapped words as it would have from the others.
LEMMA SwapReady ==
  ASSUME Operands, t \in Matrix, steps # 0, jumpG % 2 = 1, jumpEta = Limb(jumpEta),
         NEW F \in Int, NEW H \in Int, InJump(jumpEta, jumpF, jumpG, steps, t, 0, F, H)
  PROVE  \E F1 \in Int, H1 \in Int : Ready(EtaSwapped, FSwapped, GSwapped, TSwapped, F1, H1)
<1>1. PICK n \in Nat, s \in Nat, k \in Nat : n = attr.n /\ s = steps /\ s <= n /\ s > 0 /\ k = n - s /\ k + 0 = k
  <2>1. steps \in 0 .. attr.n /\ attr.n \in Nat
    BY Attribute DEF InJump, Operands
  <2> QED BY <2>1
<1>2. PICK h \in Int, x \in Int, y \in Int : h = jumpEta /\ x = jumpF /\ y = jumpG /\ h + 0 = h
  BY DEF InJump
<1>3. /\ attr \in Moduli /\ f \in Int /\ g \in Int /\ s <= attr.limb /\ attr.limb >= 1 /\ attr.limb \in Nat
      /\ attr.width \in Nat
  BY <1>1, Attribute DEF Operands
<1>4. Linear(t, k, 0, F, H) /\ LowBits(x, y, s, 0, F, H)
  BY <1>1, <1>2 DEF InJump
<1>5. EtaFits(h, H, k) /\ DivSteps(State(eta, f, g), k) = State(h, F, H)
  <2>1. StepsDone(h, s, 0, F, H)
    BY <1>1, <1>2 DEF InJump
  <2> QED BY <1>1, <1>2, <2>1 DEF StepsDone
<1>6. PICK i \in Int, j \in Int : x = F + 2^s * i /\ y = H + 2^s * j /\ F % 2 = 1
  <2>1. 2^0 * H = H
    BY TwoPowerZero
  <2> QED BY <1>4, <2>1 DEF LowBits
<1>7. x % 2 = 1 /\ H % 2 = 1 /\ y % 2 = 1
  <2>1. s > 0 /\ x = F + 2^s * i
    BY <1>1, <1>6
  <2>2. x % 2 = F % 2
    BY ONLY <2>1, s \in Nat, x \in Int, F \in Int, i \in Int, SameParity
  <2>3. s > 0 /\ y = H + 2^s * j
    BY <1>1, <1>6
  <2>4. y % 2 = H % 2
    BY ONLY <2>3, s \in Nat, y \in Int, H \in Int, j \in Int, SameParity
  <2> QED BY <1>2, <1>6, <2>2, <2>4
<1>8. \A l \in Nat : l > 0 => DivSteps(State(eta, f, g), k + l) = DivSteps(State(h, F, H), l)
  BY <1>5, DivStepsSum
<1>9. -attr.width <= h /\ Limb(h) = h
  BY <1>2, <1>5 DEF EtaFits
<1>10. CASE h <= 0
  <2>1. EtaSwapped = h /\ FSwapped = x /\ GSwapped = y /\ TSwapped = t
    BY <1>2, <1>10 DEF EtaSwapped, FSwapped, GSwapped, TSwapped
  <2>2. Ready(h, x, y, t, F, H)
    BY <1>1, <1>4, <1>7, <1>8, <1>9, <1>10 DEF Ready
  <2> QED BY <2>1, <2>2
<1>11. CASE h > 0
  <2>1. h <= attr.width
    <3>1. k \in 0 .. attr.n /\ H # 0
      BY <1>1, <1>7
    <3> QED BY <1>3, <1>5, <3>1, EtaLimits
  <2>2. Limb(-h) = -h
    <3>1. -h \in Int /\ -(attr.width + 1) <= -h /\ -h <= attr.width + 1
      BY <1>3, <1>11, <2>1
    <3> QED BY <1>3, <3>1, EtaLimb
  <2>3. PICK c \in Int, v \in Int : c = Limb(-x) /\ c = -x + 2^s * v
    <3>1. PICK a \in Int : a = -x
      OBVIOUS
    <3>2. Wrap(a, attr.limb) \in Int /\ \E v \in Int : Wrap(a, attr.limb) = a + 2^s * v
      BY ONLY <1>3, a \in Int, s \in Nat, WrapLow
    <3> QED BY <3>1, <3>2 DEF Limb
  <2>4. EtaSwapped = -h /\ FSwapped = y /\ GSwapped = c
    BY <1>2, <1>11, <2>2, <2>3 DEF EtaSwapped, FSwapped, GSwapped
  <2>5. TSwapped = [t00 |-> t.t10, t01 |-> t.t11, t10 |-> -t.t00, t11 |-> -t.t01]
    <3>1. PICK a \in Int, b \in Int : a = -t.t00 /\ b = -t.t01
      BY DEF Matrix
    <3>2. RowFits(a, b, 2^k)
      <4>1. RowFits(t.t00, t.t01, 2^k) /\ t.t00 \in Int /\ t.t01 \in Int
        BY <1>4 DEF Linear
      <4>2. 2^k \in Nat
        BY TwoPowerStep
      <4> QED BY <3>1, <4>1, <4>2 DEF RowFits
    <3>3. Limb(a) = a /\ Limb(b) = b
      <4>1. k <= attr.n
        BY <1>1
      <4> QED BY <1>3, <3>2, <4>1, RowLimbs
    <3> QED BY <1>2, <1>11, <3>1, <3>3 DEF TSwapped
  <2>6. Linear(TSwapped, k, 0, H, -F)
    BY <1>3, <1>4, <2>5, SwapLinear
  <2>7. TSwapped \in Matrix
    BY <2>5 DEF Matrix
  <2>8. LowBits(y, c, s, 0, H, -F)
    <3>1. PICK S \in Nat : S = 2^s
      BY TwoPowerStep
    <3>2. c = -F + S * (v - i) /\ v - i \in Int
      <4>1. S * (v - i) = S * v - S * i /\ S * v \in Int /\ S * i \in Int
        OBVIOUS
      <4> QED BY <1>6, <2>3, <3>1, <4>1
    <3>3. 2^0 * (-F) = -F
      BY TwoPowerZero
    <3> QED BY <1>6, <1>7, <3>1, <3>2, <3>3 DEF LowBits
  <2>9. \A l \in Nat : l > 0 => DivSteps(State(eta, f, g), k + l) = DivSteps(State(-h, H, -F), l)
    <3>1. DivStep(State(h, F, H)) = DivStep(State(-h, H, -F))
      BY <1>6, <1>7, <1>11, SwapStep
    <3> QED BY <1>8, <3>1, SameSteps
  <2>10. -h \in Int /\ -h <= 0 /\ -attr.width <= -h /\ -F \in Int
    BY <1>3, <1>11, <2>1
  <2>11. Ready(-h, y, c, TSwapped, H, -F)
    BY <1>1, <1>7, <2>6, <2>7, <2>8, <2>9, <2>10 DEF Ready
  <2> QED BY <2>4, <2>10, <2>11
<1> QED BY <1>10, <1>11

\* Cancelling bits of g are the steps that add f.
LEMMA BitsCancel ==
  ASSUME Operands, steps \in 1 .. attr.n,
         NEW h \in Int, NEW x \in Int, NEW y \in Int, NEW r \in Matrix, NEW F \in Int, NEW H \in Int,
         Ready(h, x, y, r, F, H),
         NEW w, w = Multiple(x, y, Shift(h))
  PROVE  \E p \in Nat, H2 \in Int :
           InJump(h, x, Limb(y + w * x), steps,
                  [t00 |-> r.t00, t01 |-> r.t01,
                   t10 |-> Limb(r.t00 * w + r.t10), t11 |-> Limb(r.t01 * w + r.t11)], p, F, H2)
<1>1. PICK n \in Nat, s \in Nat, k \in Nat : n = attr.n /\ s = steps /\ s <= n /\ s > 0 /\ k = n - s /\ k + 0 = k
  BY Attribute DEF Operands
<1>2. /\ attr \in Moduli /\ f \in Int /\ g \in Int
      /\ attr.limb \in Nat /\ attr.limb >= 5 /\ s <= attr.limb /\ attr.width \in Nat
  BY <1>1, Attribute DEF Operands
<1>3. /\ h <= 0 /\ -attr.width <= h /\ x % 2 = 1
      /\ Linear(r, k, 0, F, H) /\ LowBits(x, y, s, 0, F, H)
      /\ \A j \in Nat : j > 0 => DivSteps(State(eta, f, g), k + j) = DivSteps(State(h, F, H), j)
  BY <1>1 DEF Ready
<1>4. PICK p \in Nat : p = Shift(h) /\ p >= 1 /\ p <= 5 /\ p <= s /\ p <= 1 - h
  <2>1. 1 - h \in Int /\ -(attr.width + 1) <= 1 - h /\ 1 - h <= attr.width + 1 /\ 1 - h >= 1
    BY <1>2, <1>3
  <2>2. Limb(1 - h) = 1 - h
    BY <1>2, <2>1, EtaLimb
  <2> QED BY <1>1, <2>1, <2>2 DEF Shift, Smaller
<1>5. PICK P \in Nat : P = 2^p /\ P > 0
  BY TwoPowerStep
<1>6. PICK l \in Nat : l = attr.limb /\ l >= 5
  BY <1>2
<1>7. PICK v \in 0 .. P - 1 : v = w
  <2>1. p \in 0 .. 5
    BY <1>4
  <2>2. Multiple(x, y, p) \in 0 .. 2^p - 1
    BY ONLY <1>6, <1>3, <2>1, l \in Nat, x \in Int, y \in Int, MultipleCancels
  <2> QED BY <1>4, <1>5, <2>2
<1>8. PICK c \in Int : y + v * x = P * c
  <2>1. p \in 0 .. 5
    BY <1>4
  <2>2. \E c \in Int : y + Multiple(x, y, p) * x = 2^p * c
    BY ONLY <1>6, <1>3, <2>1, l \in Nat, x \in Int, y \in Int, MultipleCancels
  <2> QED BY <1>4, <1>5, <1>7, <2>2
<1>9. PICK i \in Int, j \in Int : x = F + 2^s * i /\ y = H + 2^s * j /\ F % 2 = 1
  <2>1. 2^0 * H = H
    BY TwoPowerZero
  <2> QED BY <1>3, <2>1 DEF LowBits
<1>10. PICK S \in Nat, R \in Nat : S = 2^s /\ S > 0 /\ S = P * R
  <2>1. s - p \in Nat /\ s = p + (s - p)
    BY <1>4
  <2>2. PICK S \in Nat, R \in Nat : S = 2^s /\ S > 0 /\ R = 2^(s - p)
    BY <2>1, TwoPowerStep
  <2>3. 2^s = 2^p * 2^(s - p)
    BY <2>1, TwoPowerSum
  <2> QED BY <1>5, <2>2, <2>3
<1>11. PICK u \in Int : u = j + v * i
  OBVIOUS
<1>12. PICK H2 \in Int : H2 = c - R * u
  OBVIOUS
<1>13. H + v * F = P * H2 /\ y + v * x = P * H2 + S * u
  <2>1. v * x = v * F + S * (v * i)
    BY <1>9, <1>10
  <2>2. S * u = S * j + S * (v * i)
    <3>1. PICK b \in Int : b = v * i
      OBVIOUS
    <3> QED BY <1>11, <3>1
  <2>3. P * H2 = P * c - S * u
    <3>1. P * (R * u) = (P * R) * u
      OBVIOUS
    <3>2. PICK b \in Int : b = R * u
      OBVIOUS
    <3> QED BY <1>10, <1>12, <3>1, <3>2
  <2>4. PICK a1 \in Int, a2 \in Int, a3 \in Int, a4 \in Int, a5 \in Int, a6 \in Int, a7 \in Int :
          a1 = v * x /\ a2 = v * F /\ a3 = S * (v * i) /\ a4 = S * u /\ a5 = S * j /\ a6 = P * H2 /\ a7 = P * c
    OBVIOUS
  <2>5. y = H + a5 /\ a1 = a2 + a3 /\ a4 = a5 + a3 /\ a6 = a7 - a4 /\ y + a1 = a7
    BY <1>8, <1>9, <1>10, <2>1, <2>2, <2>3, <2>4
  <2>6. H + a2 = a6 /\ y + a1 = a6 + a4
    BY ONLY <2>5, a1 \in Int, a2 \in Int, a3 \in Int, a4 \in Int, a5 \in Int, a6 \in Int, a7 \in Int,
            y \in Int, H \in Int
  <2> QED BY <2>4, <2>6
<1>14. PICK y2 \in Int, b2 \in Int : y2 = Limb(y + v * x) /\ y2 = P * H2 + S * b2
  <2>1. PICK a \in Int : a = y + v * x
    OBVIOUS
  <2>2. Wrap(a, l) \in Int /\ \E b \in Int : Wrap(a, l) = a + 2^s * b
    <3>1. l >= 1 /\ s <= l
      BY <1>2, <1>6
    <3> QED BY ONLY <3>1, a \in Int, s \in Nat, l \in Nat, WrapLow
  <2>3. PICK b \in Int : Limb(a) = a + S * b
    BY <1>6, <1>10, <2>2 DEF Limb
  <2>4. S * (u + b) = S * u + S * b
    OBVIOUS
  <2>5. PICK a4 \in Int, a6 \in Int, a8 \in Int : a4 = S * u /\ a6 = P * H2 /\ a8 = S * b
    OBVIOUS
  <2>6. a = a6 + a4 /\ Limb(a) = a + a8 /\ S * (u + b) = a4 + a8
    BY <1>13, <2>1, <2>3, <2>4, <2>5
  <2>7. Limb(a) = P * H2 + S * (u + b)
    BY <2>5, <2>6
  <2> QED BY <2>1, <2>2, <2>7 DEF Limb
<1> DEFINE r2 == [t00 |-> r.t00, t01 |-> r.t01,
                  t10 |-> Limb(r.t00 * w + r.t10), t11 |-> Limb(r.t01 * w + r.t11)]
<1>15. PICK t0 \in Int, t1 \in Int, t2 \in Int, t3 \in Int :
         t0 = r.t00 /\ t1 = r.t01 /\ t2 = r.t10 /\ t3 = r.t11
  BY DEF Matrix
<1>16. PICK K \in Nat : K = 2^k /\ K > 0 /\ 2^(k + p) = K * P
  BY <1>5, TwoPowerStep, TwoPowerSum
<1>17. PICK f0 \in Int, g0 \in Int : f0 = f /\ g0 = g
  BY <1>2
<1>18. /\ t0 * f0 + t1 * g0 = K * F /\ t2 * f0 + t3 * g0 = K * H
       /\ t0 * t3 - t1 * t2 = K
       /\ RowFits(t0, t1, K) /\ RowFits(t2, t3, K)
  BY <1>1, <1>3, <1>15, <1>16, <1>17 DEF Linear
<1>19. RowFits(t0 * v + t2, t1 * v + t3, K * P)
  BY ONLY <1>18, K \in Nat, P \in Nat, v \in 0 .. P - 1,
          t0 \in Int, t1 \in Int, t2 \in Int, t3 \in Int, RowCancelled
<1>20. PICK t4 \in Int, t5 \in Int : t4 = t0 * v + t2 /\ t5 = t1 * v + t3 /\ RowFits(t4, t5, 2^(k + p))
  BY <1>16, <1>19
<1>21. Limb(t4) = t4 /\ Limb(t5) = t5
  <2>1. k + p \in Nat /\ k + p <= attr.n
    BY <1>1, <1>4
  <2> QED BY <1>2, <1>20, <2>1, RowLimbs
<1>22. r2.t00 = t0 /\ r2.t01 = t1 /\ r2.t10 = t4 /\ r2.t11 = t5
  BY <1>7, <1>15, <1>20, <1>21
<1> HIDE DEF r2
<1>23. t4 * f0 + t5 * g0 = (K * P) * H2
  <2>1. PICK a \in Int, b \in Int, a1 \in Int, b1 \in Int : a = t0 * f0 /\ b = t1 * g0 /\ a1 = t2 * f0 /\ b1 = t3 * g0
    OBVIOUS
  <2>2. t4 * f0 = a * v + a1 /\ t5 * g0 = b * v + b1
    <3>1. (t0 * v + t2) * f0 = (t0 * f0) * v + t2 * f0 /\ (t1 * v + t3) * g0 = (t1 * g0) * v + t3 * g0
      OBVIOUS
    <3> QED BY <1>20, <2>1, <3>1
  <2>3. a * v + b * v = (a + b) * v
    OBVIOUS
  <2>4. a + b = K * F /\ a1 + b1 = K * H
    BY <1>18, <2>1
  <2>5. (K * F) * v + K * H = K * (H + v * F)
    <3>1. (K * F) * v = K * (v * F)
      OBVIOUS
    <3>2. PICK a2 \in Int : a2 = v * F
      OBVIOUS
    <3> QED BY <3>1, <3>2
  <2>6. K * (P * H2) = (K * P) * H2
    OBVIOUS
  <2>7. PICK c1 \in Int, c2 \in Int, c3 \in Int : c1 = a * v /\ c2 = b * v /\ c3 = (K * F) * v
    OBVIOUS
  <2>8. c1 + c2 = c3
    BY <2>3, <2>4, <2>7
  <2>9. t4 * f0 + t5 * g0 = c3 + K * H
    BY <2>2, <2>4, <2>7, <2>8
  <2> QED BY <1>13, <2>5, <2>6, <2>7, <2>9
<1>24. t0 * t5 - t1 * t4 = K
  <2>1. t0 * t5 = t0 * (t1 * v) + t0 * t3 /\ t1 * t4 = t0 * (t1 * v) + t1 * t2
    <3>1. t0 * (t1 * v + t3) = t0 * (t1 * v) + t0 * t3 /\ t1 * (t0 * v + t2) = t0 * (t1 * v) + t1 * t2
      OBVIOUS
    <3> QED BY <1>20, <3>1
  <2>2. PICK a \in Int, b \in Int, c2 \in Int : a = t0 * (t1 * v) /\ b = t0 * t3 /\ c2 = t1 * t2
    OBVIOUS
  <2> QED BY <1>18, <2>1, <2>2
<1>25. Linear(r2, k, p, F, H2)
  BY <1>16, <1>17, <1>18, <1>20, <1>22, <1>23, <1>24 DEF Linear
<1>26. LowBits(x, y2, s, p, F, H2)
  BY <1>5, <1>9, <1>10, <1>14 DEF LowBits
<1>27. DivSteps(State(eta, f, g), k + p) = State(h + p, F, H2)
  <2>1. DivSteps(State(eta, f, g), k + p) = DivSteps(State(h, F, H), p)
    BY <1>3, <1>4
  <2>2. BitsGone(h, F, H, p, v, H2)
    BY <1>4, <1>5, <1>9, <1>13 DEF BitsGone
  <2>3. DivSteps(State(h, F, H), p) = State(h + p, F, H2)
    BY <2>2, CancelSteps
  <2> QED BY <2>1, <2>3
<1>28. EtaFits(h + p, H2, k + p)
  <2>1. -attr.m <= H2 /\ H2 <= attr.m
    <3>1. RowFits(t4, t5, 2^(k + p)) /\ t4 * f + t5 * g = 2^(k + p) * H2 /\ k + p \in Nat
      BY <1>16, <1>17, <1>20, <1>23
    <3> QED BY <3>1, RowBound DEF Operands
  <2>2. k + p \in Nat /\ k + p >= 1
    BY <1>4
  <2> QED BY <1>2, <1>3, <1>4, <2>1, <2>2, EtaCancels
<1>29. StepsDone(h, s, p, F, H2)
  BY <1>1, <1>27, <1>28 DEF StepsDone
<1>30. InJump(h, x, y2, s, r2, p, F, H2)
  <2>1. s \in 0 .. attr.n /\ p \in 0 .. s
    BY <1>1, <1>4
  <2> QED BY <1>1, <1>25, <1>26, <1>29, <2>1 DEF InJump
<1>31. y2 = Limb(y + w * x) /\ s = steps
  BY <1>1, <1>7, <1>14
<1> QED BY <1>30, <1>31 DEF r2

\* The matrix of a jump consists of limbs.
LEMMA MatrixLimbs ==
  ASSUME attr \in Moduli, NEW r, NEW k \in Nat, NEW p \in Nat, k + p <= attr.n, NEW F, NEW H, Linear(r, k, p, F, H)
  PROVE  \A x \in Cofactors(r) : Limb(x) = x
<1>1. /\ r.t00 \in Int /\ r.t01 \in Int /\ r.t10 \in Int /\ r.t11 \in Int
      /\ RowFits(r.t00, r.t01, 2^k) /\ RowFits(r.t10, r.t11, 2^(k + p))
  BY DEF Linear
<1>2. k <= attr.n /\ k + p \in Nat
  BY Attribute
<1>3. Limb(r.t00) = r.t00 /\ Limb(r.t01) = r.t01
  BY <1>1, <1>2, RowLimbs
<1>4. Limb(r.t10) = r.t10 /\ Limb(r.t11) = r.t11
  BY <1>1, <1>2, RowLimbs
<1> QED BY <1>3, <1>4 DEF Cofactors

\* At any point of a jump the matrix and its negations fit their limbs.
LEMMA JumpLimbs ==
  ASSUME attr \in Moduli, NEW h, NEW x, NEW y, NEW s, NEW r, NEW p, NEW F, NEW H,
         InJump(h, x, y, s, r, p, F, H)
  PROVE  \A c \in Cofactors(r) : Limb(c) = c
<1>1. s \in 0 .. attr.n /\ p \in 0 .. s /\ attr.n \in Nat /\ Linear(r, attr.n - s, p, F, H)
  BY Attribute DEF InJump
<1>2. attr.n - s \in Nat /\ p \in Nat /\ (attr.n - s) + p <= attr.n
  BY <1>1
<1> QED BY <1>1, <1>2, MatrixLimbs

\* The body of a jump's loop.
LEMMA JumpCancels ==
  ASSUME Operands, t \in Matrix, steps # 0, jumpG % 2 = 1,
         jumpEta = Limb(jumpEta), jumpF = Limb(jumpF), jumpG = Limb(jumpG),
         NEW F \in Int, NEW H \in Int, InJump(jumpEta, jumpF, jumpG, steps, t, 0, F, H), CancelBits
  PROVE  /\ \E p \in Nat, F1 \in Int, H1 \in Int :
              InJump(jumpEta', jumpF', jumpG', steps', t', p, F1, H1)
         /\ t' \in Matrix
         /\ Limb(jumpEta') = jumpEta' /\ Limb(jumpF') = jumpF' /\ Limb(jumpG') = jumpG'
<1>1. PICK F1 \in Int, H1 \in Int : Ready(EtaSwapped, FSwapped, GSwapped, TSwapped, F1, H1)
  BY SwapReady
<1>2. PICK h \in Int, x \in Int, y \in Int, r \in Matrix :
        h = EtaSwapped /\ x = FSwapped /\ y = GSwapped /\ r = TSwapped /\ Ready(h, x, y, r, F1, H1)
  BY <1>1 DEF Ready
<1>3. PICK w : w = Multiple(x, y, Shift(h))
  OBVIOUS
<1>4. /\ jumpEta' = h /\ jumpF' = x /\ jumpG' = Limb(y + w * x) /\ steps' = steps
      /\ t' = [r EXCEPT !.t10 = Limb(r.t00 * w + @), !.t11 = Limb(r.t01 * w + @)]
  BY <1>2, <1>3 DEF CancelBits, EtaSwapped, FSwapped, GSwapped, TSwapped
<1>5. t' = [t00 |-> r.t00, t01 |-> r.t01, t10 |-> Limb(r.t00 * w + r.t10), t11 |-> Limb(r.t01 * w + r.t11)]
  BY <1>4 DEF Matrix
<1>6. steps \in 1 .. attr.n
  BY Attribute DEF Operands, InJump
<1>7. PICK p \in Nat, H2 \in Int : InJump(h, x, Limb(y + w * x), steps, t', p, F1, H2)
  BY <1>2, <1>3, <1>5, <1>6, BitsCancel
<1>8. t' \in Matrix
  <2>1. t'.t00 \in Int /\ t'.t01 \in Int /\ t'.t10 \in Int /\ t'.t11 \in Int
    BY <1>7 DEF InJump, Linear
  <2> QED BY <1>5, <2>1 DEF Matrix
<1>9. Limb(h) = h /\ Limb(x) = x
  <2>1. -jumpEta \in Int /\ attr \in Moduli
    BY DEF InJump, Operands
  <2>2. Limb(Limb(-jumpEta)) = Limb(-jumpEta)
    BY <2>1, LimbTwice
  <2> QED BY <1>2, <2>2 DEF EtaSwapped, FSwapped
<1>10. Limb(Limb(y + w * x)) = Limb(y + w * x)
  <2>1. w \in Int
    <3>2. attr \in Moduli /\ 3 * x \in Int
      BY DEF Operands
    <3>3. PICK a \in Int : a = Limb(3 * x)
      BY <3>2, LimbTwice
    <3>4. a % 32 \in Int /\ a % 4 \in Int
      OBVIOUS
    <3>5. Flipped(a) \in Int
      BY <3>4 DEF Flipped
    <3>6. PICK b \in Int : b = Limb(y * Flipped(a))
      <4>1. y * Flipped(a) \in Int
        BY <3>5
      <4> QED BY <3>2, <4>1, LimbTwice
    <3>7. PICK j \in Nat : j = Shift(h)
      <4>1. Limb(1 - h) = 1 - h
        <5>1. 1 - h \in Int /\ h <= 0 /\ -attr.width <= h /\ attr.width \in Nat
          BY <1>2, <3>2, Attribute DEF Ready
        <5>2. -(attr.width + 1) <= 1 - h /\ 1 - h <= attr.width + 1
          BY <5>1
        <5> QED BY <3>2, <5>1, <5>2, EtaLimb
      <4>2. h <= 0
        BY <1>2 DEF Ready
      <4> QED BY <1>6, <4>1, <4>2 DEF Shift, Smaller
    <3>8. 2^j \in Nat /\ 2^j > 0
      BY TwoPowerStep
    <3>9. b % 2^j \in Int
      BY <3>8, ResidueWitness
    <3> QED BY <1>3, <3>3, <3>6, <3>7, <3>9 DEF Multiple
  <2>2. y + w * x \in Int
    BY <2>1
  <2> QED BY <2>2, LimbTwice DEF Operands
<1> QED BY <1>4, <1>7, <1>8, <1>9, <1>10

-----------------------------------------------------------------------------
\* The end of a jump.

\* x is a combination of f and g.
Combination(x) == \E i \in Int, j \in Int : x = i * f + j * g

\* The matrix has an inverse, up to the power of two.
LEMMA Adjugate ==
  ASSUME f \in Int, g \in Int, NEW r, NEW k \in Nat, NEW F \in Int, NEW H \in Int, Linear(r, k, 0, F, H)
  PROVE  f = r.t11 * F - r.t01 * H /\ g = r.t00 * H - r.t10 * F
<1>1. PICK a \in Int, b \in Int, c \in Int, h \in Int :
        a = r.t00 /\ b = r.t01 /\ c = r.t10 /\ h = r.t11
  BY DEF Linear
<1>2. PICK x \in Int, y \in Int : x = f /\ y = g
  OBVIOUS
<1>3. PICK K \in Nat : K = 2^k /\ K = 2^(k + 0) /\ K > 0
  <2>1. k + 0 = k
    OBVIOUS
  <2> QED BY <2>1, TwoPowerStep
<1>4. a * x + b * y = K * F /\ c * x + h * y = K * H /\ a * h - b * c = K
  BY <1>1, <1>2, <1>3 DEF Linear
<1>5. PICK p \in Int, q \in Int : p = a * h /\ q = b * c /\ p - q = K
  BY <1>4
<1>6. K * x = K * (h * F - b * H)
  <2>1. h * (K * F) = p * x + h * (b * y)
    <3>1. h * (a * x + b * y) = (a * h) * x + h * (b * y)
      OBVIOUS
    <3> QED BY <1>4, <1>5, <3>1
  <2>2. b * (K * H) = q * x + h * (b * y)
    <3>1. b * (c * x + h * y) = (b * c) * x + h * (b * y)
      OBVIOUS
    <3> QED BY <1>4, <1>5, <3>1
  <2>3. (p - q) * x = p * x - q * x
    OBVIOUS
  <2>4. K * (h * F - b * H) = h * (K * F) - b * (K * H)
    <3>1. PICK u \in Int, v \in Int : u = h * F /\ v = b * H
      OBVIOUS
    <3>2. K * (u - v) = K * u - K * v
      OBVIOUS
    <3>3. h * (K * F) = K * (h * F) /\ b * (K * H) = K * (b * H)
      OBVIOUS
    <3> QED BY <3>1, <3>2, <3>3
  <2>5. PICK u \in Int, v \in Int, w \in Int : u = p * x /\ v = q * x /\ w = h * (b * y)
    OBVIOUS
  <2>6. K * x = u - v
    BY <1>5, <2>3, <2>5
  <2> QED BY <2>1, <2>2, <2>4, <2>5, <2>6
<1>7. K * y = K * (a * H - c * F)
  <2>1. a * (K * H) = a * (c * x) + p * y
    <3>1. a * (c * x + h * y) = a * (c * x) + (a * h) * y
      OBVIOUS
    <3> QED BY <1>4, <1>5, <3>1
  <2>2. c * (K * F) = a * (c * x) + q * y
    <3>1. c * (a * x + b * y) = a * (c * x) + (b * c) * y
      OBVIOUS
    <3> QED BY <1>4, <1>5, <3>1
  <2>3. (p - q) * y = p * y - q * y
    OBVIOUS
  <2>4. K * (a * H - c * F) = a * (K * H) - c * (K * F)
    <3>1. PICK u \in Int, v \in Int : u = a * H /\ v = c * F
      OBVIOUS
    <3>2. K * (u - v) = K * u - K * v
      OBVIOUS
    <3>3. a * (K * H) = K * (a * H) /\ c * (K * F) = K * (c * F)
      OBVIOUS
    <3> QED BY <3>1, <3>2, <3>3
  <2>5. PICK u \in Int, v \in Int, w \in Int : u = p * y /\ v = q * y /\ w = a * (c * x)
    OBVIOUS
  <2>6. K * y = u - v
    BY <1>5, <2>3, <2>5
  <2> QED BY <2>1, <2>2, <2>4, <2>5, <2>6
<1>8. x = h * F - b * H
  <2>1. h * F - b * H \in Int
    OBVIOUS
  <2> QED BY <1>3, <1>6, <2>1, PositiveCancels
<1>9. y = a * H - c * F
  <2>1. a * H - c * F \in Int
    OBVIOUS
  <2> QED BY <1>3, <1>7, <2>1, PositiveCancels
<1> QED BY <1>1, <1>2, <1>8, <1>9

\* GenerateFG: what is shifted out is zero, and a jump is n division steps.
LEMMA JumpEnds ==
  ASSUME Operands, steps = 0, NEW F \in Int, NEW H \in Int,
         InJump(jumpEta, jumpF, jumpG, steps, t, 0, F, H)
  PROVE  /\ Shifted(f * t.t00 + g * t.t01) = F /\ Shifted(f * t.t10 + g * t.t11) = H
         /\ Linear(t, attr.n, 0, F, H)
         /\ F % 2 = 1 /\ -attr.m <= F /\ F <= attr.m /\ -attr.m <= H /\ H <= attr.m
         /\ EtaFits(jumpEta, H, attr.n) /\ jumpEta \in Int
         /\ DivSteps(State(eta, f, g), attr.n) = State(jumpEta, F, H)
<1>1. PICK n \in Nat, m \in Nat : n = attr.n /\ m = attr.m /\ n - 0 = n /\ n + 0 = n /\ n <= attr.n
  BY Attribute DEF Operands
<1>2. jumpEta \in Int /\ jumpEta + 0 = jumpEta
  BY DEF InJump
<1>3. Linear(t, n, 0, F, H) /\ F % 2 = 1
  BY <1>1 DEF InJump, LowBits
<1>4. EtaFits(jumpEta, H, n) /\ DivSteps(State(eta, f, g), n) = State(jumpEta, F, H)
  BY <1>1, <1>2 DEF InJump, StepsDone
<1>5. /\ t.t00 \in Int /\ t.t01 \in Int /\ t.t10 \in Int /\ t.t11 \in Int
      /\ t.t00 * f + t.t01 * g = 2^n * F /\ t.t10 * f + t.t11 * g = 2^n * H
      /\ RowFits(t.t00, t.t01, 2^n) /\ RowFits(t.t10, t.t11, 2^n)
  BY <1>1, <1>3 DEF Linear
<1>6. -m <= F /\ F <= m /\ -m <= H /\ H <= m
  BY <1>1, <1>5, RowBound DEF Operands
<1>7. -(2 * m) <= F /\ F <= 2 * m /\ -(2 * m) <= H /\ H <= 2 * m
  BY <1>6
<1>8. Shifted(2^n * F) = F /\ Shifted(2^n * H) = H
  BY <1>1, <1>7, ShiftExact DEF Operands
<1>9. f * t.t00 + g * t.t01 = 2^n * F /\ f * t.t10 + g * t.t11 = 2^n * H
  BY <1>5 DEF Operands
<1> QED BY <1>1, <1>2, <1>3, <1>4, <1>6, <1>8, <1>9

\* Bezout's relation of x and y to the input.
Bezout(x, y) == (x * input - y * Factor) % attr.m = 0

\* A row takes f and g to y and, with the multiple c of the modulus, d and e
\* to x.
Applied(a, b, c, x, y) ==
  a * f + b * g = 2^attr.n * y /\ d * a + e * b + attr.m * c = 2^attr.n * x

\* A row keeps the relation.
LEMMA BezoutApplied ==
  ASSUME attr \in Moduli, input \in Int, Factor \in Int,
         f \in Int, g \in Int, d \in Int, e \in Int, Bezout(d, f), Bezout(e, g),
         NEW a \in Int, NEW b \in Int, NEW c \in Int, NEW x \in Int, NEW y \in Int,
         Applied(a, b, c, x, y)
  PROVE  Bezout(x, y)
<1>1. PICK m \in Nat, n \in Nat, N \in Nat : m = attr.m /\ m >= 3 /\ m % 2 = 1 /\ m > 0 /\ n = attr.n /\ N = 2^n
  BY Attribute, TwoPowerStep
<1>2. PICK w \in Int, k \in Int, f0 \in Int, g0 \in Int, d0 \in Int, e0 \in Int :
        w = input /\ k = Factor /\ f0 = f /\ g0 = g /\ d0 = d /\ e0 = e
  OBVIOUS
<1>3. a * f0 + b * g0 = N * y /\ d0 * a + e0 * b + m * c = N * x
  BY <1>1, <1>2 DEF Applied
<1>4. ASSUME NEW u \in Int, NEW v \in Int, Bezout(u, v)
      PROVE  \E i \in Int : u * w - v * k = m * i
  <2>1. PICK z \in Int : z = u * w - v * k
    OBVIOUS
  <2>2. z % m = 0
    BY <1>1, <1>2, <1>4, <2>1 DEF Bezout
  <2>3. PICK i \in Int : z = (z % m) + m * i
    BY <1>1, ResidueWitness
  <2>4. m * i \in Int
    OBVIOUS
  <2>5. z = m * i
    BY <2>2, <2>3, <2>4
  <2> QED BY <2>1, <2>5
<1>5. PICK i \in Int : d0 * w - f0 * k = m * i
  BY <1>2, <1>4
<1>6. PICK j \in Int : e0 * w - g0 * k = m * j
  BY <1>2, <1>4
<1> DEFINE z == x * w - y * k
<1>7. N * z = m * (a * i + b * j + c * w)
  <2>1. N * z = (N * x) * w - (N * y) * k
    <3>1. PICK u \in Int, v \in Int : u = x * w /\ v = y * k
      OBVIOUS
    <3>2. N * (u - v) = N * u - N * v
      OBVIOUS
    <3>3. N * (x * w) = (N * x) * w /\ N * (y * k) = (N * y) * k
      OBVIOUS
    <3> QED BY <3>1, <3>2, <3>3
  <2>2. (N * x) * w = a * (d0 * w) + b * (e0 * w) + m * (c * w)
    <3>1. (d0 * a + e0 * b + m * c) * w = a * (d0 * w) + b * (e0 * w) + m * (c * w)
      OBVIOUS
    <3> QED BY <1>3, <3>1
  <2>3. (N * y) * k = a * (f0 * k) + b * (g0 * k)
    <3>1. (a * f0 + b * g0) * k = a * (f0 * k) + b * (g0 * k)
      OBVIOUS
    <3> QED BY <1>3, <3>1
  <2>4. a * (d0 * w) - a * (f0 * k) = m * (a * i)
    <3>1. a * (d0 * w - f0 * k) = a * (d0 * w) - a * (f0 * k)
      OBVIOUS
    <3>2. a * (m * i) = m * (a * i)
      OBVIOUS
    <3> QED BY <1>5, <3>1, <3>2
  <2>5. b * (e0 * w) - b * (g0 * k) = m * (b * j)
    <3>1. b * (e0 * w - g0 * k) = b * (e0 * w) - b * (g0 * k)
      OBVIOUS
    <3>2. b * (m * j) = m * (b * j)
      OBVIOUS
    <3> QED BY <1>6, <3>1, <3>2
  <2>6. PICK u1 \in Int, u2 \in Int, u3 \in Int, u4 \in Int, u5 \in Int :
          u1 = a * (d0 * w) /\ u2 = b * (e0 * w) /\ u3 = m * (c * w) /\ u4 = a * (f0 * k) /\ u5 = b * (g0 * k)
    OBVIOUS
  <2>7. PICK v1 \in Int, v2 \in Int, v3 \in Int : v1 = a * i /\ v2 = b * j /\ v3 = c * w
    OBVIOUS
  <2>8. u1 - u4 = m * v1 /\ u2 - u5 = m * v2 /\ u3 = m * v3 /\ N * z = (u1 + u2 + u3) - (u4 + u5)
    BY <2>1, <2>2, <2>3, <2>4, <2>5, <2>6, <2>7
  <2>9. m * (v1 + v2 + v3) = m * v1 + m * v2 + m * v3 /\ m * v1 \in Int /\ m * v2 \in Int /\ m * v3 \in Int
    OBVIOUS
  <2>10. N * z = m * (v1 + v2 + v3)
    BY <2>8, <2>9
  <2> QED BY <2>7, <2>10
<1>8. z \in Int
  OBVIOUS
<1> HIDE DEF z
<1>9. PICK q \in Int : q = a * i + b * j + c * w
  OBVIOUS
<1>10. 2^n * z = m * q
  BY <1>1, <1>7, <1>9
<1>11. z % m = 0
  BY ONLY <1>1, <1>8, <1>10, m \in Nat, n \in Nat, q \in Int, PowerCancels
<1> QED BY <1>1, <1>2, <1>11 DEF z, Bezout

\* What generates an ideal still generates it after a jump.
LEMMA CombinationKept ==
  ASSUME f \in Int, g \in Int, NEW r, NEW k \in Nat, NEW F \in Int, NEW H \in Int, Linear(r, k, 0, F, H),
         NEW x \in Int, Combination(x)
  PROVE  \E i \in Int, j \in Int : x = i * F + j * H
<1>1. PICK a \in Int, b \in Int, c \in Int, h \in Int :
        a = r.t00 /\ b = r.t01 /\ c = r.t10 /\ h = r.t11
  BY DEF Linear
<1>2. PICK f0 \in Int, g0 \in Int : f0 = f /\ g0 = g
  OBVIOUS
<1>3. f0 = h * F - b * H /\ g0 = a * H - c * F
  BY <1>1, <1>2, Adjugate
<1>4. PICK i \in Int, j \in Int : x = i * f0 + j * g0
  BY <1>2 DEF Combination
<1>5. x = (i * h - j * c) * F + (j * a - i * b) * H
  <2>1. i * (h * F - b * H) + j * (a * H - c * F) = (i * h - j * c) * F + (j * a - i * b) * H
    OBVIOUS
  <2> QED BY <1>3, <1>4, <2>1
<1>6. i * h - j * c \in Int /\ j * a - i * b \in Int
  OBVIOUS
<1> QED BY <1>5, <1>6

-----------------------------------------------------------------------------
\* The normalisation of the result.

\* Additions and negations that stay within the words.
LEMMA NormRight ==
  ASSUME attr \in Moduli, NEW x \in Int, -2 * attr.m < x, x < attr.m, NEW anti \in BOOLEAN
  PROVE  /\ Norm(x, anti) \in 0 .. attr.m - 1
         /\ \E k \in Int : Norm(x, anti) = (IF anti THEN -x ELSE x) + attr.m * k
<1>1. PICK m \in Nat, N \in Nat : m = attr.m /\ N = 2^attr.n /\ N >= 1 /\ m >= 3
  BY Attribute, TwoPowerStep
<1>2. ASSUME NEW y \in Int, -(2 * m) <= y, y <= 2 * m PROVE Ext(y) = y
  <2>1. m * N >= m
    <3>1. m * 1 <= m * N
      BY <1>1, MulMono
    <3> QED BY <3>1
  <2>2. m * N \in Int
    OBVIOUS
  <2>3. -(2 * (m * N)) <= y /\ y <= 2 * (m * N)
    BY <1>2, <2>1, <2>2
  <2> QED BY <1>1, <2>3, ExtRoom
<1>3. ASSUME NEW y \in Int, -(2 * m) < y, y < m
      PROVE  Lifted(y) \in Int /\ -m < Lifted(y) /\ Lifted(y) < m
             /\ (y > -m => Lifted(y) >= 0)
             /\ \E k \in Int : Lifted(y) = y + m * k
  <2>1. CASE y < 0
    <3>1. Lifted(y) = y + m
      <4>1. -(2 * m) <= y + m /\ y + m <= 2 * m
        BY <1>3, <2>1
      <4> QED BY <1>1, <1>2, <2>1, <4>1 DEF Lifted
    <3>2. y + m = y + m * 1
      OBVIOUS
    <3>3. \E k \in Int : y + m = y + m * k
      BY <3>2
    <3> QED BY <1>3, <2>1, <3>1, <3>3
  <2>2. CASE ~ (y < 0)
    <3>1. Lifted(y) = y
      BY <2>2 DEF Lifted
    <3>2. y = y + m * 0
      OBVIOUS
    <3>3. \E k \in Int : y = y + m * k
      BY <3>2
    <3> QED BY <1>1, <1>3, <2>2, <3>1, <3>3
  <2> QED BY <2>1, <2>2
<1>4. PICK y \in Int, k \in Int : y = Lifted(x) /\ -m < y /\ y < m /\ y = x + m * k
  <2>1. -(2 * m) < x /\ x < m
    BY <1>1
  <2> QED BY <1>3, <2>1
<1>5. CASE anti
  <2>1. Ext(-y) = -y
    <3>1. -(2 * m) <= -y /\ -y <= 2 * m /\ -y \in Int
      BY <1>4
    <3> QED BY <1>2, <3>1
  <2>2. Norm(x, anti) = Lifted(-y)
    BY <1>4, <1>5, <2>1 DEF Norm
  <2>3. PICK v \in Int : v = -y /\ -(2 * m) < v /\ v < m /\ v > -m
    BY <1>4
  <2>4. PICK j \in Int : Lifted(v) = v + m * j /\ Lifted(v) >= 0 /\ Lifted(v) < m /\ Lifted(v) \in Int
    BY <1>3, <2>3
  <2>5. v + m * j = -x + m * (j - k) /\ j - k \in Int
    BY <1>4, <2>3
  <2>6. Norm(x, anti) = -x + m * (j - k) /\ Norm(x, anti) \in 0 .. m - 1
    BY <2>2, <2>3, <2>4, <2>5
  <2> QED BY <1>1, <1>5, <2>5, <2>6
<1>6. CASE ~ anti
  <2>1. Norm(x, anti) = Lifted(y)
    BY <1>4, <1>6 DEF Norm
  <2>2. -(2 * m) < y /\ y < m /\ y > -m
    BY <1>4
  <2>3. PICK j \in Int : Lifted(y) = y + m * j /\ Lifted(y) >= 0 /\ Lifted(y) < m /\ Lifted(y) \in Int
    BY <1>3, <2>2
  <2>4. y + m * j = x + m * (j + k) /\ j + k \in Int
    BY <1>4
  <2>5. Norm(x, anti) = x + m * (j + k) /\ Norm(x, anti) \in 0 .. m - 1
    BY <2>1, <2>3, <2>4
  <2> QED BY <1>1, <1>6, <2>4, <2>5
<1> QED BY <1>5, <1>6

\* The factor is a unit.
LEMMA FactorInverse ==
  ASSUME attr \in Moduli, isMont \in BOOLEAN
  PROVE  /\ Factor \in Nat /\ Factor < attr.m
         /\ \E z \in Int, k \in Int : z * Factor = 1 + attr.m * k
<1>1. PICK m \in Nat, w \in Nat, W \in Nat : m = attr.m /\ m >= 3 /\ m % 2 = 1 /\ m > 0 /\ w = attr.width /\ W = 2^w
  BY Attribute, TwoPowerStep
<1>2. CASE isMont
  <2>1. Factor = (W * W) % m
    BY <1>1, <1>2 DEF Factor, RSquared
  <2>2. PICK v \in Int : v = W * W
    OBVIOUS
  <2>3. PICK r \in 0 .. m - 1, j \in Int : r = (W * W) % m /\ W * W = r + m * j
    <3>1. v % m \in 0 .. m - 1 /\ \E j \in Int : v = (v % m) + m * j
      BY ONLY m \in Nat, <1>1, v \in Int, ResidueWitness
    <3> QED BY <2>2, <3>1
  <2>4. PICK z \in 1 .. m - 1 : SameMod(z * W, 1, m)
    BY <1>1, TwoPowerHasInverse
  <2>5. PICK i \in Int : z * W = 1 + m * i
    <3>0. m > 0
      BY <1>1
    <3>1. PICK v2 \in Int : v2 = z * W /\ SameMod(v2, 1, m)
      BY <2>4
    <3>2. \E i \in Int : v2 = 1 + m * i
      BY ONLY m \in Nat, <3>0, <3>1, v2 \in Int, 1 \in Int, SameModOnlyIf, Zenon
    <3> QED BY <3>1, <3>2
  <2>6. (z * z) * r = 1 + m * (2 * i + m * (i * i) - (z * z) * j)
    <3>1. (z * z) * (W * W) = (z * W) * (z * W)
      OBVIOUS
    <3>2. (1 + m * i) * (1 + m * i) = 1 + m * (2 * i + m * (i * i))
      OBVIOUS
    <3>3. (z * z) * (r + m * j) = (z * z) * r + m * ((z * z) * j)
      OBVIOUS
    <3>4. PICK a \in Int, b \in Int, c \in Int : a = 2 * i + m * (i * i) /\ b = (z * z) * j /\ c = (z * z) * r
      OBVIOUS
    <3>5. m * (a - b) = m * a - m * b /\ m * a \in Int /\ m * b \in Int
      OBVIOUS
    <3>6. 1 + m * a = c + m * b
      BY <2>3, <2>5, <3>1, <3>2, <3>3, <3>4
    <3> QED BY <3>4, <3>5, <3>6
  <2>7. z * z \in Int /\ 2 * i + m * (i * i) - (z * z) * j \in Int
    OBVIOUS
  <2>8. PICK a \in Int, b \in Int : a = z * z /\ b = 2 * i + m * (i * i) - (z * z) * j
    BY <2>7
  <2>9. a * Factor = 1 + attr.m * b
    BY <1>1, <2>1, <2>3, <2>6, <2>8
  <2> QED BY <1>1, <2>1, <2>3, <2>9
<1>3. CASE ~ isMont
  <2>1. Factor = 1 /\ 1 * 1 = 1 + m * 0
    BY <1>3 DEF Factor
  <2> QED BY <1>1, <2>1
<1> QED BY <1>2, <1>3

-----------------------------------------------------------------------------
\* The end.

\* Numbers that are k times m apart.
Apart(a, b, m, k) == a = b + m * k

\* Such numbers have one residue.
LEMMA ApartResidues ==
  ASSUME NEW a \in Int, NEW b \in Int, NEW m \in Nat, m > 0, NEW k \in Int, Apart(a, b, m, k)
  PROVE  a % m = b % m
<1>1. a = b + m * k
  BY DEF Apart
<1> QED BY <1>1, SameResidueIf

\* The units are one and minus one.
LEMMA UnitDivides ==
  ASSUME NEW x \in Int, NEW y \in Int, x * y = 1
  PROVE  x = 1 \/ x = -1
<1>1. x # 0
  <2>1. ASSUME x = 0 PROVE FALSE
    <3>1. x * y = 0
      BY <2>1
    <3> QED BY <3>1
  <2> QED BY <2>1
<1>2. PICK a \in Nat, c \in Int : a > 0 /\ a * c = 1 /\ (x = a \/ x = -a)
  <2>1. CASE x > 0
    <3>1. x \in Nat
      BY <2>1
    <3> QED BY <2>1, <3>1
  <2>2. CASE x < 0
    <3>1. PICK a \in Nat : a = -x
      BY <2>2
    <3>2. a * (-y) = 1 /\ -y \in Int /\ x = -a /\ a > 0
      BY <2>2, <3>1
    <3> QED BY <3>2
  <2> QED BY <1>1, <2>1, <2>2
<1>3. a * 1 <= 1
  <2>1. c >= 1
    <3>1. ASSUME c <= 0 PROVE FALSE
      <4>1. a * c <= a * 0
        BY <3>1, MulMono
      <4> QED BY <1>2, <4>1
    <3> QED BY <3>1
  <2>2. a * 1 <= a * c
    BY <2>1, MulMono
  <2> QED BY <1>2, <2>2
<1> QED BY <1>2, <1>3

\* The outer loop between two jumps.
Outer ==
  /\ Operands /\ isMont \in BOOLEAN /\ input \in 0 .. attr.m - 1
  /\ d \in Int /\ e \in Int
  /\ f % 2 = 1
  /\ Bezout(d, f) /\ Bezout(e, g)
  /\ -2 * attr.m < d /\ d < attr.m /\ -2 * attr.m < e /\ e < attr.m
  /\ Combination(attr.m) /\ Combination(input)
  /\ EtaFits(eta, g, attr.n)

\* The result, when f is the gcd of the modulus and the input or its negative.
Outcome(y) == IF HasInverse THEN y \in Inverses ELSE y = 0

\* A gcd of one or minus one has led to an inverse.
LEMMA FinishUnit ==
  ASSUME Outer, g = 0, f \in {1, -1}
  PROVE  Norm(d, f = -1) \in 0 .. attr.m - 1 /\ Outcome(Norm(d, f = -1))
<1>1. PICK m \in Nat, w \in Nat, r \in Nat, x \in Int, f0 \in Int :
        /\ m = attr.m /\ m >= 3 /\ w = input /\ r = Factor /\ r < m /\ x = d /\ f0 = f /\ (f0 = 1 \/ f0 = -1)
        /\ attr \in Moduli
  <2>1. attr \in Moduli /\ isMont \in BOOLEAN /\ d \in Int /\ input \in 0 .. attr.m - 1
    BY DEF Outer, Operands
  <2>2. attr.m \in Nat /\ attr.m >= 3
    BY <2>1, Attribute
  <2>3. Factor \in Nat /\ Factor < attr.m
    BY <2>1, FactorInverse
  <2> QED BY <2>1, <2>2, <2>3
<1>0. m > 0
  BY <1>1
<1>2. PICK y \in 0 .. m - 1, k \in Int : y = Norm(d, f = -1) /\ y = (IF f = -1 THEN -x ELSE x) + m * k
  <2>1. -2 * attr.m < d /\ d < attr.m /\ d \in Int /\ attr \in Moduli
    BY <1>1 DEF Outer
  <2>2. PICK anti \in BOOLEAN : anti <=> f = -1
    BY <1>1
  <2>3. (f = -1) = anti
    BY <2>2
  <2>4. Norm(d, anti) \in 0 .. attr.m - 1 /\ \E k \in Int : Norm(d, anti) = (IF anti THEN -d ELSE d) + attr.m * k
    BY <2>1, NormRight
  <2>5. (IF anti THEN -d ELSE d) = (IF f = -1 THEN -x ELSE x)
    BY <1>1, <2>2
  <2> QED BY <1>1, <2>3, <2>4, <2>5
<1>3. PICK j \in Int : x * w - f0 * r = m * j
  <2>1. (x * w - f0 * r) % m = 0
    BY <1>1 DEF Outer, Bezout
  <2>2. PICK z \in Int : z = x * w - f0 * r
    OBVIOUS
  <2>3. \E j \in Int : z = (z % m) + m * j
    BY ONLY <1>1, z \in Int, m \in Nat, <1>0, ResidueWitness
  <2>4. PICK j \in Int : z = (z % m) + m * j
    BY <2>3
  <2>5. m * j \in Int
    OBVIOUS
  <2>6. z % m = 0
    BY <2>1, <2>2
  <2>7. z = m * j
    BY <2>4, <2>5, <2>6
  <2> QED BY <2>2, <2>7
<1>4. PICK i \in Int : y * w = r + m * i
  <2>1. CASE f0 = 1
    <3>0. x * w - 1 * r = m * j
      BY <1>3, <2>1
    <3>1. y = x + m * k /\ x * w = r + m * j
      <4>1. x * w \in Int /\ m * j \in Int /\ 1 * r = r
        OBVIOUS
      <4>2. y = x + m * k
        BY <1>1, <1>2, <2>1
      <4>3. x * w = r + m * j
        BY ONLY <3>0, <4>1, r \in Int
      <4> QED BY <4>2, <4>3
    <3>2. (x + m * k) * w = x * w + m * (k * w)
      OBVIOUS
    <3>3. PICK v \in Int : v = k * w
      OBVIOUS
    <3>4. m * (j + v) = m * j + m * v /\ m * j \in Int /\ m * v \in Int
      OBVIOUS
    <3>5. PICK i \in Int : i = j + v
      OBVIOUS
    <3>6. PICK a1 \in Int, a2 \in Int, a3 \in Int : a1 = m * j /\ a2 = m * v /\ a3 = m * i
      OBVIOUS
    <3>7. y * w = r + a3
      BY <3>1, <3>2, <3>3, <3>4, <3>5, <3>6
    <3> QED BY <3>6, <3>7
  <2>2. CASE f0 = -1
    <3>0. x * w - (-1) * r = m * j
      BY <1>3, <2>2
    <3>1. y = -x + m * k /\ x * w = -r + m * j
      <4>1. x * w \in Int /\ m * j \in Int /\ (-1) * r = -r
        OBVIOUS
      <4>2. y = -x + m * k
        BY <1>1, <1>2, <2>2
      <4>3. x * w = -r + m * j
        BY ONLY <3>0, <4>1, r \in Int
      <4> QED BY <4>2, <4>3
    <3>2. (-x + m * k) * w = -(x * w) + m * (k * w)
      OBVIOUS
    <3>3. PICK v \in Int : v = k * w
      OBVIOUS
    <3>4. m * (v - j) = m * v - m * j /\ m * j \in Int /\ m * v \in Int
      OBVIOUS
    <3>5. PICK i \in Int : i = v - j
      OBVIOUS
    <3>6. PICK a1 \in Int, a2 \in Int, a3 \in Int : a1 = m * j /\ a2 = m * v /\ a3 = m * i
      OBVIOUS
    <3>7. y * w = r + a3
      BY <3>1, <3>2, <3>3, <3>4, <3>5, <3>6
    <3> QED BY <3>6, <3>7
  <2> QED BY <1>1, <2>1, <2>2
<1>5. (y * w) % m = r % m
  <2>1. PICK z \in Int : z = y * w /\ z = r + m * i
    BY <1>4
  <2>2. z % m = r % m
    <3>1. Apart(z, r, m, i) /\ r \in Int
      BY <2>1 DEF Apart
    <3> QED BY <1>0, <3>1, ApartResidues
  <2> QED BY <2>1, <2>2
<1>6. y \in Inverses
  BY <1>1, <1>5 DEF Inverses
<1>7. HasInverse
  <2>1. PICK z \in Int, l \in Int : z * r = 1 + m * l
    BY <1>1, FactorInverse DEF Outer, Operands
  <2>2. PICK v \in Int : v = z * y
    OBVIOUS
  <2>3. PICK u \in 0 .. m - 1, o \in Int : v = u + m * o
    <3>1. v % m \in 0 .. m - 1 /\ \E o \in Int : v = (v % m) + m * o
      BY ONLY <1>1, v \in Int, m \in Nat, <1>0, ResidueWitness
    <3> QED BY <3>1
  <2>4. u * w = 1 + m * (l + z * i - o * w)
    <3>1. v * w = z * (y * w)
      BY <2>2
    <3>2. z * (r + m * i) = z * r + m * (z * i)
      OBVIOUS
    <3>3. (u + m * o) * w = u * w + m * (o * w)
      OBVIOUS
    <3>4. PICK a \in Int, b \in Int, c \in Int : a = z * i /\ b = o * w /\ c = u * w
      OBVIOUS
    <3>5. c + m * b = 1 + m * l + m * a
      BY <1>4, <2>1, <2>3, <3>1, <3>2, <3>3, <3>4
    <3>6. m * (l + a - b) = m * l + m * a - m * b /\ m * l \in Int /\ m * a \in Int /\ m * b \in Int
      OBVIOUS
    <3> QED BY <3>4, <3>5, <3>6
  <2>5. PICK a \in Int, b \in Int : a = u * w /\ b = l + z * i - o * w /\ a = 1 + m * b
    BY <2>4
  <2>6. a % m = 1 % m
    <3>1. Apart(a, 1, m, b)
      BY <2>5 DEF Apart
    <3> QED BY <1>0, <3>1, ApartResidues
  <2>7. 1 % m = 1
    <3>1. 1 \in Nat /\ 1 < m
      BY <1>1
    <3> QED BY <3>1, DivSmall
  <2>8. (u * w) % m = 1
    BY <2>5, <2>6, <2>7
  <2> QED BY <1>1, <2>8 DEF HasInverse
<1> QED BY <1>1, <1>2, <1>6, <1>7 DEF Outcome

\* Without one there is no inverse: f divides the modulus and the input.
LEMMA FinishOther ==
  ASSUME Outer, g = 0, f \notin {1, -1}
  PROVE  ~ HasInverse
<1>1. SUFFICES ASSUME HasInverse PROVE FALSE
  OBVIOUS
<1>2. PICK m \in Nat, w \in Nat, f0 \in Int : m = attr.m /\ m >= 3 /\ w = input /\ f0 = f
  BY Attribute DEF Outer, Operands
<1>0. m > 0
  BY <1>2
<1>3. PICK x \in 0 .. m - 1 : (x * w) % m = 1
  BY <1>1, <1>2 DEF HasInverse
<1>4. PICK k \in Int : x * w = 1 + m * k
  <2>1. PICK v \in Int : v = x * w
    OBVIOUS
  <2>2. \E k \in Int : v = (v % m) + m * k
    BY ONLY <1>0, v \in Int, m \in Nat, ResidueWitness
  <2> QED BY <1>3, <2>1, <2>2
<1>5. PICK i \in Int, j \in Int : m = i * f0 /\ w = j * f0
  <2>1. PICK i \in Int, i2 \in Int : m = i * f0 + i2 * 0
    BY <1>2 DEF Outer, Combination
  <2>2. PICK j \in Int, j2 \in Int : w = j * f0 + j2 * 0
    BY <1>2 DEF Outer, Combination
  <2>3. i * f0 \in Int /\ j * f0 \in Int
    OBVIOUS
  <2> QED BY <2>1, <2>2, <2>3
<1>6. f0 * (x * j - i * k) = 1
  <2>1. x * (j * f0) = 1 + (i * f0) * k
    BY <1>4, <1>5
  <2>2. x * (j * f0) = f0 * (x * j) /\ (i * f0) * k = f0 * (i * k)
    OBVIOUS
  <2>3. PICK a \in Int, b \in Int : a = x * j /\ b = i * k
    OBVIOUS
  <2>4. f0 * (a - b) = f0 * a - f0 * b /\ f0 * a \in Int /\ f0 * b \in Int
    OBVIOUS
  <2> QED BY <2>1, <2>2, <2>3, <2>4
<1>7. x * j - i * k \in Int
  OBVIOUS
<1> QED BY <1>2, <1>6, <1>7, UnitDivides

-----------------------------------------------------------------------------
\* The inductive invariant: the outer loop keeps Outer, a jump is on its way to
\* n division steps, words are words, and the result is right.

\* The words of a jump are limbs, and its matrix can be negated.
JumpWords ==
  /\ jumpEta \in Int /\ jumpF \in Int /\ jumpG \in Int /\ t \in Matrix
  /\ steps \in 0 .. attr.n
  /\ Limb(jumpEta) = jumpEta /\ Limb(jumpF) = jumpF /\ Limb(jumpG) = jumpG
  /\ \A c \in Cofactors(t) : Limb(c) = c

\* Where in a jump the loop is; before and after cancelling p is zero.
Underway(p, F, H) ==
  /\ InJump(jumpEta, jumpF, jumpG, steps, t, p, F, H)
  /\ pc \in {"cancel", "apply"} => p = 0
  /\ pc = "cancel" => steps # 0 /\ jumpG % 2 = 1
  /\ pc = "apply" => steps = 0

\* There are numbers that the words of a jump stand for.
InnerLoop ==
  pc \in {"zeros", "cancel", "apply"} => \E p \in Nat, F \in Int, H \in Int : Underway(p, F, H)

\* The result is canonical, and right when the loop has ended.
Answer ==
  /\ result \in 0 .. attr.m - 1
  /\ pc = "done" => Outcome(result)

\* The inductive invariant.
IInv ==
  /\ Outer
  /\ JumpWords
  /\ InnerLoop
  /\ Answer

\* What the jump does not touch.
LEMMA OuterSame ==
  ASSUME Outer, UNCHANGED <<operands, outer>>
  PROVE  Outer'
BY DEF Outer, Operands, Bezout, Combination, EtaFits, Factor, RSquared, operands, outer

\* What holds within a jump depends on the words of the jump alone, while the
\* outer loop waits.
LEMMA InJumpSame ==
  ASSUME UNCHANGED <<operands, outer>>, NEW p, NEW F, NEW H,
         InJump(jumpEta', jumpF', jumpG', steps', t', p, F, H)
  PROVE  InJump(jumpEta, jumpF, jumpG, steps, t, p, F, H)'
BY DEF InJump, Linear, LowBits, StepsDone, EtaFits, operands, outer

\* What the outer loop leaves alone of the words of the jump.
LEMMA WordsSame ==
  ASSUME JumpWords, attr' = attr, UNCHANGED jump
  PROVE  JumpWords'
BY DEF JumpWords, Limb, Wrap, Cofactors, jump

\* Nothing is claimed of the result until it is there.
LEMMA AnswerSame ==
  ASSUME Answer, UNCHANGED operands, result' = result, pc' # "done"
  PROVE  Answer'
BY DEF Answer, operands

\* The jump's words after an action of the jump.
LEMMA WordsLater ==
  ASSUME attr \in Moduli, UNCHANGED <<operands, outer>>, t' \in Matrix,
         Limb(jumpEta') = jumpEta', Limb(jumpF') = jumpF', Limb(jumpG') = jumpG',
         NEW p, NEW F, NEW H, InJump(jumpEta', jumpF', jumpG', steps', t', p, F, H)
  PROVE  JumpWords'
<1>1. \A c \in Cofactors(t') : Limb(c) = c
  BY JumpLimbs
<1>2. jumpEta' \in Int /\ jumpF' \in Int /\ jumpG' \in Int /\ steps' \in 0 .. attr.n
  BY DEF InJump
<1>3. attr' = attr
  BY DEF operands
<1> QED BY <1>1, <1>2, <1>3 DEF JumpWords, Limb, Wrap, Cofactors

\* The words that Generate starts with: f is the modulus and g the input.
LEMMA InitInv ==
  ASSUME Init
  PROVE  IInv
<1>1. PICK m \in Nat, w \in Nat, n \in Nat : attr \in Moduli /\ m = attr.m /\ m >= 3 /\ m % 2 = 1 /\ w = input /\ w < m
                   /\ n = attr.n /\ n >= 1 /\ isMont \in BOOLEAN
  <2>1. attr \in Moduli /\ isMont \in BOOLEAN /\ input \in 0 .. attr.m - 1
    BY DEF Init
  <2>2. /\ attr.m \in Nat /\ attr.m >= 3 /\ attr.m % 2 = 1 /\ attr.n \in Nat /\ attr.n >= 1
    BY <2>1, Attribute
  <2> QED BY <2>1, <2>2
<1>2. PICK r \in Nat : r = Factor /\ r < m
  BY <1>1, FactorInverse
<1>3. f = m /\ g = w /\ d = 0 /\ e = r /\ eta = 1 /\ pc = "loop" /\ result = 0 /\ t = Identity
      /\ jumpEta = 0 /\ jumpF = 0 /\ jumpG = 0 /\ steps = 0
  BY <1>1, <1>2 DEF Init, Factor
<1>4. Outer
  <2>1. Operands
    BY <1>1, <1>3 DEF Operands
  <2>2. Bezout(d, f)
    <3>1. 0 * w - m * r = m * (-r) /\ -r \in Int
      OBVIOUS
    <3>2. (m * (-r)) % m = 0
      <4>1. PICK k \in Int : k = -r
        OBVIOUS
      <4>2. m > 0
        BY <1>1
      <4>3. (m * k) % m = 0
        BY ONLY <4>2, m \in Nat, k \in Int, MultipleMod
      <4> QED BY <4>1, <4>3
    <3> QED BY <1>1, <1>2, <1>3, <3>1, <3>2 DEF Bezout
  <2>3. Bezout(e, g)
    <3>1. r * w - w * r = m * 0 /\ 0 \in Int
      OBVIOUS
    <3>2. (m * 0) % m = 0
      BY <1>1, <3>1, MultipleMod
    <3> QED BY <1>1, <1>2, <1>3, <3>1, <3>2 DEF Bezout
  <2>4. Combination(attr.m)
    <3>1. m = 1 * f + 0 * g
      BY <1>3
    <3> QED BY <1>1, <3>1 DEF Combination
  <2>5. Combination(input)
    <3>1. w = 0 * f + 1 * g
      BY <1>3
    <3> QED BY <1>1, <3>1 DEF Combination
  <2>6. EtaFits(eta, g, attr.n)
    <3>1. attr.width \in Nat
      BY <1>1, Attribute
    <3>2. 2^1 = 2
      BY TwoPowerZero
    <3> QED BY <1>1, <1>3, <3>1, <3>2 DEF EtaFits
  <2> QED BY <1>1, <1>2, <1>3, <2>1, <2>2, <2>3, <2>4, <2>5, <2>6 DEF Outer
<1>5. JumpWords
  <2>1. Limb(0) = 0 /\ Limb(1) = 1
    <3>1. 2^attr.n \in Nat /\ 2^attr.n > 0
      BY <1>1, TwoPowerStep
    <3>2. /\ 0 \in Int /\ -(2 * 2^attr.n) <= 0 /\ 0 < 2 * 2^attr.n
          /\ 1 \in Int /\ -(2 * 2^attr.n) <= 1 /\ 1 < 2 * 2^attr.n
      BY <3>1
    <3> QED BY <1>1, <3>2, LimbFits
  <2>2. t \in Matrix /\ \A c \in Cofactors(t) : c = 0 \/ c = 1
    BY <1>3 DEF Matrix, Cofactors, Identity
  <2>3. \A c \in Cofactors(t) : Limb(c) = c
    BY <2>1, <2>2
  <2> QED BY <1>1, <1>3, <2>1, <2>2, <2>3 DEF JumpWords
<1>6. InnerLoop
  BY <1>3 DEF InnerLoop
<1>7. Answer
  BY <1>1, <1>3 DEF Answer
<1> QED BY <1>4, <1>5, <1>6, <1>7 DEF IInv

\* A jump starts with the low bits of f and g and no division step made.
LEMMA StartJumpKeeps ==
  ASSUME IInv, StartJump
  PROVE  IInv'
<1>1. /\ pc' = "zeros" /\ g # 0 /\ steps' = attr.n /\ t' = Identity
      /\ jumpF' = LowN(f) /\ jumpG' = LowN(g) /\ jumpEta' = eta /\ result' = result
      /\ UNCHANGED <<operands, outer>>
  BY DEF StartJump
<1>2. Outer /\ attr \in Moduli /\ f \in Int /\ g \in Int
  BY DEF IInv, Outer, Operands
<1>3. InJump(jumpEta', jumpF', jumpG', steps', t', 0, f, g)
  BY <1>1, <1>2, JumpStarts DEF Outer, Operands
<1>4. Outer'
  BY <1>1, <1>2, OuterSame
<1>5. Limb(jumpEta') = jumpEta'
  <2>1. EtaFits(eta, g, attr.n) /\ attr.n \in 0 .. attr.n
    BY <1>2, Attribute DEF Outer
  <2> QED BY <1>1, <1>2, <2>1, EtaWord
<1>6. Limb(jumpF') = jumpF' /\ Limb(jumpG') = jumpG'
  <2>1. PICK N \in Nat : N = 2^attr.n /\ N > 0
    BY <1>2, Attribute, TwoPowerStep
  <2>2. LowN(f) \in 0 .. N - 1 /\ LowN(g) \in 0 .. N - 1
    BY <1>2, <2>1, LowFacts
  <2>3. PICK a \in Int, b \in Int : a = LowN(f) /\ b = LowN(g) /\ -(2 * N) <= a /\ a < 2 * N /\ -(2 * N) <= b /\ b < 2 * N
    BY <2>2
  <2>4. Limb(a) = a /\ Limb(b) = b
    BY <1>2, <2>1, <2>3, LimbFits
  <2> QED BY <1>1, <2>3, <2>4
<1>7. JumpWords'
  <2>1. t' \in Matrix
    BY <1>1 DEF Matrix, Identity
  <2> QED BY <1>1, <1>2, <1>3, <1>5, <1>6, <2>1, WordsLater
<1>8. InnerLoop'
  <2>1. InJump(jumpEta, jumpF, jumpG, steps, t, 0, f, g)'
    <3>1. PICK F \in Int, H \in Int : F = f /\ H = g
      BY <1>2
    <3>2. InJump(jumpEta, jumpF, jumpG, steps, t, 0, F, H)'
      BY <1>1, <1>3, <3>1, InJumpSame
    <3>3. f' = f /\ g' = g
      BY <1>1 DEF outer
    <3> QED BY <3>1, <3>2, <3>3
  <2>2. f' \in Int /\ g' \in Int
    BY <1>1, <1>2 DEF outer
  <2> QED BY <1>1, <2>1, <2>2 DEF InnerLoop, Underway
<1>9. Answer'
  BY <1>1, AnswerSame DEF IInv
<1> QED BY <1>4, <1>7, <1>8, <1>9 DEF IInv

\* Dropping the zeros of g, as many as are left of the jump at most.
LEMMA DropZerosKeeps ==
  ASSUME IInv, DropZeros
  PROVE  IInv'
<1>1. /\ pc = "zeros" /\ pc' = (IF steps' # 0 THEN "cancel" ELSE "apply")
      /\ jumpF' = jumpF /\ result' = result /\ UNCHANGED <<operands, outer>>
  BY DEF DropZeros
<1>2. Outer /\ Operands /\ JumpWords /\ attr \in Moduli
  BY DEF IInv, Outer, Operands
<1>3. PICK p \in Nat, F \in Int, H \in Int : InJump(jumpEta, jumpF, jumpG, steps, t, p, F, H)
  BY <1>1 DEF IInv, InnerLoop, Underway
<1>4. /\ \E H2 \in Int : InJump(jumpEta', jumpF', jumpG', steps', t', 0, F, H2)
      /\ steps' # 0 => jumpG' % 2 = 1
      /\ t' \in Matrix
      /\ Limb(jumpEta') = jumpEta' /\ Limb(jumpG') = jumpG'
  BY <1>2, <1>3, ZerosDrop DEF JumpWords
<1>5. PICK H2 \in Int : InJump(jumpEta', jumpF', jumpG', steps', t', 0, F, H2)
  BY <1>4
<1>6. Outer'
  BY <1>1, <1>2, OuterSame
<1>7. JumpWords'
  <2>1. Limb(jumpF') = jumpF'
    BY <1>1, <1>2 DEF JumpWords
  <2> QED BY <1>1, <1>2, <1>4, <1>5, <2>1, WordsLater
<1>8. InnerLoop'
  <2>1. InJump(jumpEta, jumpF, jumpG, steps, t, 0, F, H2)'
    BY <1>1, <1>5, InJumpSame
  <2> QED BY <1>1, <1>4, <2>1 DEF InnerLoop, Underway
<1>9. Answer'
  BY <1>1, AnswerSame DEF IInv
<1> QED BY <1>6, <1>7, <1>8, <1>9 DEF IInv

\* Swapping, and cancelling the lowest bits of g.
LEMMA CancelBitsKeeps ==
  ASSUME IInv, CancelBits
  PROVE  IInv'
<1>1. pc = "cancel" /\ pc' = "zeros" /\ result' = result /\ UNCHANGED <<operands, outer>>
  BY DEF CancelBits
<1>2. Outer /\ Operands /\ JumpWords /\ attr \in Moduli
  BY DEF IInv, Outer, Operands
<1>3. PICK F \in Int, H \in Int : InJump(jumpEta, jumpF, jumpG, steps, t, 0, F, H) /\ steps # 0 /\ jumpG % 2 = 1
  BY <1>1 DEF IInv, InnerLoop, Underway
<1>4. /\ \E p \in Nat, F1 \in Int, H1 \in Int :
           InJump(jumpEta', jumpF', jumpG', steps', t', p, F1, H1)
      /\ t' \in Matrix
      /\ Limb(jumpEta') = jumpEta' /\ Limb(jumpF') = jumpF' /\ Limb(jumpG') = jumpG'
  BY <1>2, <1>3, JumpCancels DEF JumpWords
<1>5. PICK p \in Nat, F1 \in Int, H1 \in Int : InJump(jumpEta', jumpF', jumpG', steps', t', p, F1, H1)
  BY <1>4
<1>6. Outer'
  BY <1>1, <1>2, OuterSame
<1>7. JumpWords'
  BY <1>1, <1>2, <1>4, <1>5, WordsLater
<1>8. InnerLoop'
  <2>1. InJump(jumpEta, jumpF, jumpG, steps, t, p, F1, H1)'
    BY <1>1, <1>5, InJumpSame
  <2> QED BY <1>1, <2>1 DEF InnerLoop, Underway
<1>9. Answer'
  BY <1>1, AnswerSame DEF IInv
<1> QED BY <1>6, <1>7, <1>8, <1>9 DEF IInv

\* What a jump ends with, applied to the words of the outer loop.
LEMMA Applies ==
  ASSUME Outer, steps = 0, NEW F \in Int, NEW H \in Int,
         InJump(jumpEta, jumpF, jumpG, steps, t, 0, F, H), ApplyMatrix
  PROVE  /\ f' = F /\ g' = H /\ eta' = jumpEta
         /\ d' \in Int /\ -2 * attr.m < d' /\ d' < attr.m /\ Bezout(d', F)
         /\ e' \in Int /\ -2 * attr.m < e' /\ e' < attr.m /\ Bezout(e', H)
<1>1. /\ Operands /\ attr \in Moduli /\ f \in Int /\ g \in Int /\ d \in Int /\ e \in Int /\ input \in Int
      /\ Factor \in Int
      /\ -2 * attr.m < d /\ d < attr.m /\ -2 * attr.m < e /\ e < attr.m
      /\ Bezout(d, f) /\ Bezout(e, g)
  BY FactorInverse, Attribute DEF Outer, Operands
<1>2. PICK m \in Nat, n \in Nat, N \in Nat : m = attr.m /\ m >= 3 /\ n = attr.n /\ N = 2^n
  BY <1>1, Attribute, TwoPowerStep
<1>3. /\ Shifted(f * t.t00 + g * t.t01) = F /\ Shifted(f * t.t10 + g * t.t11) = H
      /\ Linear(t, n, 0, F, H)
  BY <1>1, <1>2, JumpEnds
<1>4. /\ f' = F /\ g' = H /\ eta' = jumpEta
      /\ d' = Shifted(d * t.t00 + e * t.t01 + attr.m * Correction(t.t00, t.t01))
      /\ e' = Shifted(d * t.t10 + e * t.t11 + attr.m * Correction(t.t10, t.t11))
  BY <1>3 DEF ApplyMatrix
<1>5. PICK a \in Int, b \in Int, a1 \in Int, b1 \in Int :
        /\ a = t.t00 /\ b = t.t01 /\ a1 = t.t10 /\ b1 = t.t11
        /\ a * f + b * g = 2^n * F /\ a1 * f + b1 * g = 2^n * H
        /\ RowFits(a, b, 2^n) /\ RowFits(a1, b1, 2^n)
  <2>1. n + 0 = n
    OBVIOUS
  <2> QED BY <1>3, <2>1 DEF Linear
<1>6. ASSUME NEW i \in Int, NEW j \in Int, NEW y \in Int, RowFits(i, j, 2^n), i * f + j * g = 2^n * y
      PROVE  \E x \in Int : /\ Shifted(d * i + e * j + attr.m * Correction(i, j)) = x
                            /\ -2 * m < x /\ x < m /\ Bezout(x, y)
  <2>1. PICK c \in Int, x \in Int :
          /\ Correction(i, j) = c /\ d * i + e * j + attr.m * c = 2^attr.n * x
          /\ -2 * attr.m < x /\ x < attr.m
    BY <1>1, <1>2, <1>6, Corrected
  <2>2. Shifted(2^attr.n * x) = x
    <3>1. -(2 * attr.m) <= x /\ x <= 2 * attr.m
      BY <1>2, <2>1
    <3> QED BY <1>1, <3>1, ShiftExact
  <2>3. Applied(i, j, c, x, y)
    BY <1>2, <1>6, <2>1 DEF Applied
  <2>4. Bezout(x, y)
    BY <1>1, <2>3, BezoutApplied
  <2> QED BY <1>2, <2>1, <2>2, <2>4
<1>7. PICK x \in Int : d' = x /\ -2 * m < x /\ x < m /\ Bezout(x, F)
  BY <1>4, <1>5, <1>6
<1>8. PICK y \in Int : e' = y /\ -2 * m < y /\ y < m /\ Bezout(y, H)
  BY <1>4, <1>5, <1>6
<1> QED BY <1>2, <1>4, <1>7, <1>8

\* The end of a jump: what the matrix makes of the extended words is what n
\* division steps make of the numbers.
LEMMA ApplyMatrixKeeps ==
  ASSUME IInv, ApplyMatrix
  PROVE  IInv' /\ [eta |-> eta', f |-> f', g |-> g'] = DivSteps([eta |-> eta, f |-> f, g |-> g], attr.n)
<1>1. pc = "apply" /\ pc' = "loop" /\ result' = result /\ UNCHANGED <<operands, jump>>
  BY DEF ApplyMatrix
<1>2. Outer /\ Operands /\ JumpWords /\ attr \in Moduli /\ f \in Int /\ g \in Int /\ input \in Int /\ attr.m \in Int
  BY Attribute DEF IInv, Outer, Operands
<1>3. PICK F \in Int, H \in Int : InJump(jumpEta, jumpF, jumpG, steps, t, 0, F, H) /\ steps = 0
  BY <1>1 DEF IInv, InnerLoop, Underway
<1>4. /\ Linear(t, attr.n, 0, F, H)
      /\ F % 2 = 1 /\ -attr.m <= F /\ F <= attr.m /\ -attr.m <= H /\ H <= attr.m
      /\ EtaFits(jumpEta, H, attr.n) /\ jumpEta \in Int
      /\ DivSteps(State(eta, f, g), attr.n) = State(jumpEta, F, H)
  BY <1>2, <1>3, JumpEnds
<1>5. /\ f' = F /\ g' = H /\ eta' = jumpEta
      /\ d' \in Int /\ -2 * attr.m < d' /\ d' < attr.m /\ Bezout(d', F)
      /\ e' \in Int /\ -2 * attr.m < e' /\ e' < attr.m /\ Bezout(e', H)
  BY <1>2, <1>3, Applies
<1>6. attr' = attr /\ isMont' = isMont /\ input' = input /\ Factor' = Factor
  BY <1>1 DEF operands, Factor, RSquared
<1>7. Operands'
  BY <1>2, <1>3, <1>4, <1>5, <1>6 DEF Operands
<1>8. Bezout(d, f)' /\ Bezout(e, g)'
  BY <1>5, <1>6 DEF Bezout
<1>9. Combination(attr.m)' /\ Combination(input)'
  <2>1. PICK n \in Nat : Linear(t, n, 0, F, H)
    BY <1>2, <1>4, Attribute
  <2>2. ASSUME NEW x \in Int, Combination(x) PROVE \E i \in Int, j \in Int : x = i * F + j * H
    <3>1. PICK r : r = t /\ Linear(r, n, 0, F, H)
      BY <2>1
    <3>2. f \in Int /\ g \in Int
      BY <1>2
    <3> QED BY ONLY <2>2, <3>1, <3>2, n \in Nat, F \in Int, H \in Int, x \in Int, CombinationKept
  <2>3. PICK x \in Int, y \in Int : x = attr.m /\ y = input
    BY <1>2
  <2>4. Combination(x) /\ Combination(y)
    BY <1>2, <2>3 DEF Outer
  <2>5. (\E i \in Int, j \in Int : x = i * F + j * H) /\ \E i \in Int, j \in Int : y = i * F + j * H
    BY <2>2, <2>4
  <2> QED BY <1>5, <1>6, <2>3, <2>5 DEF Combination
<1>10. EtaFits(eta, g, attr.n)'
  BY <1>4, <1>5, <1>6 DEF EtaFits
<1>11. Outer'
  BY <1>2, <1>4, <1>5, <1>6, <1>7, <1>8, <1>9, <1>10 DEF Outer
<1>12. JumpWords'
  BY <1>1, <1>2, <1>6, WordsSame
<1>13. InnerLoop'
  BY <1>1 DEF InnerLoop
<1>14. Answer'
  BY <1>1, AnswerSame DEF IInv
<1>15. [eta |-> eta', f |-> f', g |-> g'] = DivSteps([eta |-> eta, f |-> f, g |-> g], attr.n)
  BY <1>4, <1>5 DEF State
<1> QED BY <1>11, <1>12, <1>13, <1>14, <1>15 DEF IInv

\* The end: g is zero, so f is the gcd up to its sign, and d the inverse.
LEMMA FinishKeeps ==
  ASSUME IInv, Finish
  PROVE  IInv'
<1>1. /\ pc = "loop" /\ g = 0 /\ pc' = "done" /\ UNCHANGED <<operands, outer, jump>>
      /\ result' = (IF f \in {1, -1} THEN Norm(d, f = -1) ELSE 0) % 2^attr.width
  BY DEF Finish
<1>2. Outer /\ JumpWords /\ attr \in Moduli
  BY DEF IInv, Outer, Operands
<1>3. PICK m \in Nat, W \in Nat : m = attr.m /\ m >= 3 /\ W = 2^attr.width /\ m < W
  <2>1. attr.m \in Nat /\ attr.m >= 3 /\ attr.width \in Nat /\ attr.m < 2^attr.width
    BY <1>2, Attribute
  <2> QED BY <2>1, TwoPowerStep
<1>4. PICK y \in 0 .. m - 1 : y = (IF f \in {1, -1} THEN Norm(d, f = -1) ELSE 0) /\ Outcome(y)
  <2>1. CASE f \in {1, -1}
    <3>1. Norm(d, f = -1) \in 0 .. attr.m - 1 /\ Outcome(Norm(d, f = -1))
      BY <1>1, <1>2, <2>1, FinishUnit
    <3> QED BY <1>3, <2>1, <3>1
  <2>2. CASE f \notin {1, -1}
    <3>1. ~ HasInverse
      BY <1>1, <1>2, <2>2, FinishOther
    <3> QED BY <1>3, <2>2, <3>1 DEF Outcome
  <2> QED BY <2>1, <2>2
<1>5. result' = y
  <2>1. y \in Nat /\ y < W
    BY <1>3
  <2>2. y % W = y
    BY <2>1, DivSmall
  <2> QED BY <1>1, <1>3, <1>4, <2>2
<1>6. Outer'
  BY <1>1, <1>2, OuterSame
<1>7. JumpWords'
  BY <1>1, <1>2, WordsSame DEF operands
<1>8. InnerLoop'
  BY <1>1 DEF InnerLoop
<1>9. Answer'
  <2>1. attr' = attr /\ input' = input /\ isMont' = isMont
    BY <1>1 DEF operands
  <2>2. Outcome(y)'
    BY <1>4, <2>1 DEF Outcome, HasInverse, Inverses, Factor, RSquared
  <2> QED BY <1>3, <1>5, <2>1, <2>2 DEF Answer
<1> QED BY <1>6, <1>7, <1>8, <1>9 DEF IInv

\* What changes no variable.
LEMMA NothingKeeps ==
  ASSUME IInv, UNCHANGED vars
  PROVE  IInv'
<1>1. UNCHANGED <<operands, outer, jump, pc, result>>
  BY DEF vars
<1>2. Outer'
  BY <1>1, OuterSame DEF IInv
<1>3. JumpWords'
  BY <1>1, WordsSame DEF IInv, operands
<1>4. InnerLoop'
  <2>1. /\ jumpEta' = jumpEta /\ jumpF' = jumpF /\ jumpG' = jumpG /\ steps' = steps /\ t' = t /\ pc' = pc
    BY <1>1 DEF jump
  <2>2. SUFFICES ASSUME pc \in {"zeros", "cancel", "apply"}
                 PROVE  (\E p \in Nat, F \in Int, H \in Int : Underway(p, F, H))'
    BY <2>1 DEF InnerLoop
  <2>3. PICK p \in Nat, F \in Int, H \in Int : Underway(p, F, H)
    BY <2>2 DEF IInv, InnerLoop
  <2>4. InJump(jumpEta', jumpF', jumpG', steps', t', p, F, H)
    BY <2>1, <2>3 DEF Underway
  <2>5. InJump(jumpEta, jumpF, jumpG, steps, t, p, F, H)'
    BY <1>1, <2>4, InJumpSame
  <2>6. Underway(p, F, H)'
    BY <2>1, <2>3, <2>5 DEF Underway
  <2> QED BY <2>6
<1>5. Answer'
  BY <1>1 DEF IInv, Answer, Outcome, HasInverse, Inverses, Factor, RSquared, operands
<1> QED BY <1>2, <1>3, <1>4, <1>5 DEF IInv

\* Every step keeps the invariant.
LEMMA StepKeeps ==
  ASSUME IInv, [Next]_vars
  PROVE  IInv'
<1>1. CASE StartJump
  BY <1>1, StartJumpKeeps
<1>2. CASE DropZeros
  BY <1>2, DropZerosKeeps
<1>3. CASE CancelBits
  BY <1>3, CancelBitsKeeps
<1>4. CASE ApplyMatrix
  BY <1>4, ApplyMatrixKeeps
<1>5. CASE Finish
  BY <1>5, FinishKeeps
<1>6. CASE Terminated
  BY <1>6, NothingKeeps DEF Terminated
<1>7. CASE UNCHANGED vars
  BY <1>7, NothingKeeps
<1> QED BY <1>1, <1>2, <1>3, <1>4, <1>5, <1>6, <1>7 DEF Next

\* The invariant holds in every reachable state.
THEOREM InvInvariant == Spec => []IInv
<1>1. Init => IInv
  BY InitInv
<1>2. IInv /\ [Next]_vars => IInv'
  BY StepKeeps
<1> QED BY <1>1, <1>2, PTL DEF Spec

\* Every word fits its width with room to spare, d and e stay between -2m and
\* m, and both pairs keep Bezout's relation to the input (GenerateFG,
\* GenerateDE).
THEOREM KeepsPairs == Spec => []PairsKept
<1>1. IInv => PairsKept
  <2> SUFFICES ASSUME IInv PROVE PairsKept
    OBVIOUS
  <2>1. Outer /\ JumpWords /\ Answer /\ attr \in Moduli
    BY DEF IInv, Outer, Operands
  <2>2. PICK m \in Nat, N \in Nat : m = attr.m /\ N = 2^attr.n /\ N >= 1
    BY <2>1, Attribute, TwoPowerStep
  <2>3. ASSUME NEW x \in Int, -(2 * m) <= x, x <= 2 * m PROVE x = Ext(x)
    <3>1. m * N >= m
      <4>1. m * 1 <= m * N
        BY <2>2, MulMono
      <4> QED BY <4>1
    <3>2. m * N \in Int
      OBVIOUS
    <3>3. -(2 * (m * N)) <= x /\ x <= 2 * (m * N)
      BY <2>3, <3>1, <3>2
    <3> QED BY <2>1, <2>2, <3>3, ExtRoom
  <2>4. /\ f \in Int /\ -m <= f /\ f <= m /\ g \in Int /\ -m <= g /\ g <= m
        /\ d \in Int /\ -2 * m < d /\ d < m /\ e \in Int /\ -2 * m < e /\ e < m
    BY <2>1, <2>2 DEF Outer, Operands
  <2>5. f = Ext(f) /\ g = Ext(g)
    <3>1. -(2 * m) <= f /\ f <= 2 * m /\ -(2 * m) <= g /\ g <= 2 * m
      BY <2>4
    <3> QED BY <2>3, <2>4, <3>1
  <2>6. d = Ext(d) /\ e = Ext(e)
    <3>1. -(2 * m) <= d /\ d <= 2 * m /\ -(2 * m) <= e /\ e <= 2 * m
      BY <2>4
    <3> QED BY <2>3, <2>4, <3>1
  <2>7. eta = Limb(eta)
    <3>1. EtaFits(eta, g, attr.n) /\ attr.n \in 0 .. attr.n
      BY <2>1, Attribute DEF Outer
    <3> QED BY <2>1, <2>4, <3>1, EtaWord
  <2>8. TypeOK
    BY <2>1, <2>5, <2>6, <2>7 DEF TypeOK, JumpWords, Cofactors, Answer
  <2>9. BezoutKept
    BY <2>1, <2>2, <2>4 DEF BezoutKept, Outer, Bezout
  <2> QED BY <2>8, <2>9 DEF PairsKept
<1> QED BY <1>1, InvInvariant, PTL

\* The result is the input's inverse, in Montgomery form if the input is, or
\* zero when there is none (Generate).
THEOREM AlwaysInverts == Spec => []Inverted
<1>1. IInv => Inverted
  BY DEF IInv, Answer, Outcome, Inverted
<1> QED BY <1>1, InvInvariant, PTL

\* A jump is n division steps of Bernstein and Yang on unbounded integers
\* (GenerateJump, GenerateFG).
THEOREM JumpsAreDivSteps == Spec => JumpIsDivSteps
<1>1. IInv /\ [Next]_vars =>
        [pc = "apply" => [eta |-> eta', f |-> f', g |-> g'] = DivSteps([eta |-> eta, f |-> f, g |-> g], attr.n)]_vars
  <2> SUFFICES ASSUME IInv, Next, pc = "apply"
               PROVE  [eta |-> eta', f |-> f', g |-> g'] = DivSteps([eta |-> eta, f |-> f, g |-> g], attr.n)
                      \/ UNCHANGED vars
    OBVIOUS
  <2>1. ApplyMatrix \/ UNCHANGED vars
    BY DEF Next, StartJump, DropZeros, CancelBits, Finish, Terminated
  <2> QED BY <2>1, ApplyMatrixKeeps
<1> QED BY <1>1, InvInvariant, PTL DEF Spec, JumpIsDivSteps
=============================================================================
