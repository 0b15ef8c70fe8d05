---------------------------- MODULE MontRedcProofs ----------------------------
(***************************************************************************)
(* The multi-limb Montgomery reduction is correct for every limb base,     *)
(* number of limbs and modulus: the registers hold the partially reduced   *)
(* value exactly, no flagged operation wraps, and the result is the        *)
(* Montgomery residue of the input in the range the caller asked for.      *)
(***************************************************************************)
EXTENDS MontRedc, ArithLemmas

WB == Pow[NL - 1]

(* A word is a limb times a word shorter by one limb, and there are two     *)
(* limbs at least.                                                          *)
LEMMA WordIsLimbs ==
  /\ W \in Nat /\ WB \in Nat /\ B \in Nat /\ N \in Nat
  /\ W = B * WB /\ B >= 4 /\ WB >= B /\ W >= 2 * (WB + B) /\ N < W /\ N >= 2
<1>1. /\ NL \in 0 .. NL /\ NL - 1 \in 0 .. NL - 1 /\ NL - 2 \in 0 .. NL - 1
      /\ (NL - 1) + 1 = NL /\ (NL - 2) + 1 = NL - 1
      /\ NL - 1 \in 0 .. NL /\ NL - 2 \in 0 .. NL
  BY LimbAssumption
<1>2. W = B * WB /\ WB = B * Pow[NL - 2]
  BY <1>1, PowAssumption DEF W, WB
<1>3. /\ W \in Nat \ {0} /\ WB \in Nat \ {0} /\ Pow[NL - 2] \in Nat \ {0}
      /\ B \in Nat /\ B >= 4
  BY <1>1, PowAssumption, BaseAssumption DEF W, WB
<1> DEFINE x == Pow[NL - 2]
<1> HIDE DEF x, W, WB
<1>4. WB >= B
  <2>1. x \in Nat /\ 1 <= x /\ WB = B * x
    BY <1>2, <1>3 DEF x
  <2>2. B * 1 <= B * x
    BY <2>1, <1>3, MulMono
  <2> QED BY <2>1, <2>2, <1>3
<1>5. W >= 2 * (WB + B)
  <2>1. WB * 4 <= WB * B
    BY <1>3, MulMono
  <2>2. WB * B = B * WB /\ WB * 4 = WB + WB + WB + WB
    BY <1>3
  <2> QED BY <2>1, <2>2, <1>2, <1>3, <1>4
<1>6. N < W /\ N \in Nat /\ N >= 2
  BY ModulusAssumption DEF W
<1> QED BY <1>2, <1>3, <1>4, <1>5, <1>6

(* Adding m * n clears the lowest limb, because m is -t0 / n modulo b. *)
LimbPre(b, n, np, t) ==
  /\ b \in Nat /\ b > 0 /\ n \in Nat /\ np \in Nat /\ t \in Nat
  /\ (n * np + 1) % b = 0

Factor(b, np, t) == ((t % b) * np) % b

LEMMA LimbCleared ==
  ASSUME NEW b, NEW n, NEW np, NEW t, LimbPre(b, n, np, t)
  PROVE  (t + n * Factor(b, np, t)) % b = 0
<1> USE DEF LimbPre
<1> DEFINE t0 == t % b
           tq == t \div b
           m  == (t0 * np) % b
           mq == (t0 * np) \div b
           c  == (n * np + 1) \div b
<1>1. tq \in Int /\ t0 \in Int /\ t = b * tq + t0
  BY DivModBasics
<1> HIDE DEF t0, tq
<1>2. t0 * np \in Int /\ n * np + 1 \in Int
  BY <1>1
<1>3. mq \in Int /\ m \in Int /\ t0 * np = b * mq + m
  BY <1>2, DivModBasics
<1>4. c \in Int /\ n * np + 1 = b * c
  BY <1>2, DivModBasics
<1> HIDE DEF m, mq, c
<1>5. t + n * m = b * (tq + t0 * c - n * mq)
  <2>1. n * m = n * (t0 * np) - n * (b * mq)
    BY <1>1, <1>3
  <2>2. n * (t0 * np) = t0 * (n * np)
    BY <1>1
  <2>3. t0 * (n * np) = t0 * (b * c) - t0
    BY <1>1, <1>4
  <2>4. t0 * (b * c) = b * (t0 * c) /\ n * (b * mq) = b * (n * mq)
    BY <1>1, <1>3, <1>4
  <2>5. b * (tq + t0 * c - n * mq) = b * tq + b * (t0 * c) - b * (n * mq)
    BY <1>1, <1>3, <1>4
  <2> QED BY <2>1, <2>2, <2>3, <2>4, <2>5, <1>1, <1>3, <1>4
<1>6. tq + t0 * c - n * mq \in Int
  BY <1>1, <1>3, <1>4
<1>7. (b * (tq + t0 * c - n * mq)) % b = 0
  BY <1>6, MultipleMod
<1> QED BY <1>5, <1>7 DEF m, t0, Factor

(* The right shift of a double word (and its carry bit co) by one limb is   *)
(* exact when the lowest limb is zero.                                      *)
ShiftPre(b, wb, w, low, high, co) ==
  /\ b \in Nat /\ b >= 2 /\ wb \in Nat /\ wb >= 1 /\ w \in Nat /\ w = b * wb
  /\ low \in 0 .. w - 1 /\ low % b = 0
  /\ high \in 0 .. w - 1 /\ co \in {0, 1}

ShiftedLow(wb, w, b, low, high) == low \div b + ((high * wb) % w)

ShiftedHigh(wb, b, high, co) == high \div b + co * wb

LEMMA ShiftExact ==
  ASSUME NEW b, NEW wb, NEW w, NEW low, NEW high, NEW co,
         ShiftPre(b, wb, w, low, high, co)
  PROVE  /\ ShiftedLow(wb, w, b, low, high) \in 0 .. w - 1
         /\ ShiftedHigh(wb, b, high, co) \in 0 .. w - 1
         /\ b * (ShiftedLow(wb, w, b, low, high)
                 + w * ShiftedHigh(wb, b, high, co))
              = low + w * high + w * (w * co)
<1> USE DEF ShiftPre
<1> DEFINE ld == low \div b
           hq == high \div b
           hr == high % b
           x  == wb * hr
           y  == co * wb
<1>0. low \in Int /\ high \in Int /\ b > 0 /\ low \in Nat /\ high \in Nat
  OBVIOUS
<1>1. ld \in Int /\ low = b * ld
  <2>1. ld \in Int /\ low = b * ld + (low % b)
    BY <1>0, DivModBasics
  <2> QED BY <2>1
<1>2. ld \in 0 .. wb - 1 /\ hq \in 0 .. wb - 1
  BY <1>0, DivBound
<1>3. hr \in 0 .. b - 1 /\ high = b * hq + hr
  BY <1>0, DivModBasics
<1> HIDE DEF ld, hq, hr
<1>4. x \in 0 .. w - wb
  <2>1. wb * hr <= wb * (b - 1)
    BY MulMono, <1>3
  <2>2. wb * (b - 1) = w - wb
    OBVIOUS
  <2>3. wb * 0 <= wb * hr
    BY MulMono, <1>3
  <2>4. wb * hr \in Int
    BY <1>3
  <2> QED BY <2>1, <2>2, <2>3, <2>4
<1>5. (high * wb) % w = x
  <2>1. high * wb = w * hq + x
    BY <1>3, <1>2
  <2>2. w > 0 /\ x \in 0 .. w - 1 /\ high * wb \in Int /\ hq \in Int
    BY <1>4, <1>0, <1>2
  <2> DEFINE z == high * wb
  <2>3. z \in Int /\ z = w * hq + x
    BY <2>1, <2>2
  <2> HIDE DEF x, z
  <2>4. z % w = x
    BY <2>2, <2>3, DivModUnique
  <2> QED BY <2>4 DEF z
<1>6. y = 0 \/ y = wb
  OBVIOUS
<1>7. wb + wb <= w
  <2>1. wb * 2 <= wb * b
    BY MulMono
  <2> QED BY <2>1
<1>8. ld + x \in 0 .. w - 1 /\ hq + y \in 0 .. w - 1
  <2> HIDE DEF x, y
  <2> QED BY <1>2, <1>4, <1>6, <1>7
<1>9. b * (ld + x + w * (hq + y)) = low + w * high + w * (w * co)
  <2>1. b * x = w * hr
    BY <1>3
  <2>2. b * y = w * co
    OBVIOUS
  <2> HIDE DEF x, y
  <2>3. x \in Int /\ y \in Int /\ ld \in Int /\ hq \in Int /\ hr \in Int
    BY <1>2, <1>3, <1>4, <1>6
  <2>4. b * (ld + x + w * (hq + y))
          = b * ld + b * x + w * (b * hq) + w * (b * y)
    BY <2>3
  <2>5. w * high = w * (b * hq) + w * hr
    BY <2>3, <1>3
  <2> QED BY <2>1, <2>2, <2>3, <2>4, <2>5, <1>1
<1> QED BY <1>5, <1>8, <1>9 DEF ld, hq, x, y, ShiftedLow, ShiftedHigh

(* T += p on two words: the carry of the low word folded into the high half *)
(* of p makes the sum exact.                                                *)
LEMMA SumExact ==
  ASSUME NEW w \in Nat, w > 0, NEW tl \in 0 .. w - 1, NEW th \in Nat,
         NEW p \in Nat,
         NEW low, low = tl + (p % w),
         NEW mh, mh = p \div w + low \div w
  PROVE  /\ low % w \in 0 .. w - 1
         /\ mh \in Nat
         /\ (low % w) + w * (th + mh) = tl + w * th + p
         /\ (low % w) + w * mh = tl + p
<1> DEFINE pq == p \div w
           pr == p % w
           lq == low \div w
           lr == low % w
<1>1. pq \in Int /\ pr \in 0 .. w - 1 /\ p = w * pq + pr
  BY DivModBasics
<1>2. low \in Nat
  BY <1>1
<1>3. lq \in Int /\ lr \in 0 .. w - 1 /\ low = w * lq + lr
  BY <1>2, DivModBasics
<1>4. pq >= 0 /\ lq >= 0
  <2>1. p < w * (p + 1) /\ low < w * (low + 1)
    <3>1. 1 * (p + 1) <= w * (p + 1)
      <4>1. (p + 1) * 1 <= (p + 1) * w
        BY MulMono
      <4> QED BY <4>1
    <3>2. 1 * (low + 1) <= w * (low + 1)
      <4>1. (low + 1) * 1 <= (low + 1) * w
        BY MulMono, <1>2
      <4> QED BY <4>1, <1>2
    <3> QED BY <3>1, <3>2, <1>2
  <2>2. pq \in 0 .. (p + 1) - 1
    BY <2>1, DivBound
  <2>3. lq \in 0 .. (low + 1) - 1
    BY <2>1, <1>2, DivBound
  <2> QED BY <2>2, <2>3, <1>2
<1> HIDE DEF pq, pr, lq, lr
<1>5. mh = pq + lq /\ low = tl + pr
  BY DEF pq, pr, lq
<1>6. w * mh = w * pq + w * lq /\ w * (th + mh) = w * th + w * mh
  BY <1>1, <1>3, <1>5
<1>7. lr + w * mh = tl + p
  BY <1>1, <1>3, <1>5, <1>6
<1>8. mh \in Nat
  BY <1>1, <1>3, <1>4, <1>5
<1>9. lr + w * (th + mh) = tl + w * th + p
  <2> DEFINE x == w * mh
             y == w * th
  <2>1. x \in Int /\ y \in Int
    BY <1>8
  <2>2. w * (th + mh) = y + x /\ lr + x = tl + p
    BY <1>6, <1>7
  <2> HIDE DEF x, y
  <2>3. lr + (y + x) = tl + y + p
    BY <2>1, <2>2, <1>3
  <2> QED BY <2>2, <2>3 DEF y
<1> QED BY <1>3, <1>7, <1>8, <1>9 DEF lr

(* One block on numbers: what it leaves is (T + n * m) / b, on two words.    *)
BlockPre(b, wb, w, n, m, tl, th, low, mh, hs) ==
  /\ b \in Nat /\ b >= 2 /\ wb \in Nat /\ wb >= b /\ w \in Nat /\ w = b * wb
  /\ n \in Nat /\ n < w /\ m \in 0 .. b - 1
  /\ tl \in 0 .. w - 1 /\ th \in 0 .. w - 1
  /\ (tl + n * m) % b = 0
  /\ low = tl + ((n * m) % w)
  /\ mh = (n * m) \div w + low \div w
  /\ hs = th + mh

BlockPost(b, wb, w, n, m, tl, th, low, mh, hs) ==
  /\ mh \in 0 .. b - 1
  /\ hs \in Nat
  /\ hs \div w \in {0, 1}
  /\ (low % w) + w * hs = tl + w * th + n * m
  /\ ShiftedLow(wb, w, b, low % w, hs % w) \in 0 .. w - 1
  /\ ShiftedHigh(wb, b, hs % w, hs \div w) \in 0 .. w - 1
  /\ b * (ShiftedLow(wb, w, b, low % w, hs % w)
           + w * ShiftedHigh(wb, b, hs % w, hs \div w))
        = tl + w * th + n * m

LEMMA BlockExact ==
  ASSUME NEW b, NEW wb, NEW w, NEW n, NEW m, NEW tl, NEW th,
         NEW low, NEW mh, NEW hs,
         BlockPre(b, wb, w, n, m, tl, th, low, mh, hs)
  PROVE  BlockPost(b, wb, w, n, m, tl, th, low, mh, hs)
<1> USE DEF BlockPre
<1> DEFINE p  == n * m
           lr == low % w
           hr == hs % w
           co == hs \div w
<1>0. w > 0 /\ w >= b /\ wb >= 1 /\ th \in Nat
  <2>1. b * 1 <= b * wb
    BY MulMono
  <2> QED BY <2>1
<1>1. p \in Nat
  OBVIOUS
<1>2. low = tl + (p % w) /\ mh = p \div w + low \div w
  OBVIOUS
<1>3. p <= (w - 1) * (b - 1)
  <2>1. n * m <= n * (b - 1)
    BY MulMono
  <2>2. (b - 1) * n <= (b - 1) * (w - 1)
    BY MulMono
  <2>3. (b - 1) * n = n * (b - 1) /\ (b - 1) * (w - 1) = (w - 1) * (b - 1)
    OBVIOUS
  <2>4. n * m \in Int /\ n * (b - 1) \in Int /\ (w - 1) * (b - 1) \in Int
    OBVIOUS
  <2> QED BY <2>1, <2>2, <2>3, <2>4
<1> HIDE DEF p
<1>4. /\ lr \in 0 .. w - 1
      /\ mh \in Nat
      /\ lr + w * (th + mh) = tl + w * th + p
      /\ lr + w * mh = tl + p
  BY <1>0, <1>1, <1>2, SumExact
<1> HIDE DEF lr
<1>5. mh \in 0 .. b - 1
  <2> SUFFICES ASSUME b <= mh PROVE FALSE
    BY <1>4
  <2>1. w * b <= w * mh
    BY MulMono, <1>4
  <2>2. (w - 1) * (b - 1) = w * b - w - b + 1
    OBVIOUS
  <2>3. w * b \in Int /\ w * mh \in Int
    BY <1>4
  <2> QED BY <2>1, <2>2, <2>3, <1>1, <1>3, <1>4
<1>6. hs \in Nat /\ hs < w * 2
  BY <1>5, <1>0, <1>4
<1>7. co \in 0 .. 2 - 1
  BY <1>6, <1>0, DivBound
<1>8. hr \in 0 .. w - 1 /\ hs = w * co + hr
  BY <1>6, <1>0, DivModBasics
<1> HIDE DEF hr, co
<1>9. co \in {0, 1}
  BY <1>7
<1>10. lr % b = 0
  <2> DEFINE s == tl + p
             c == s \div b
  <2>1. s \in Int /\ b > 0
    BY <1>1
  <2>2. s % b = 0
    BY DEF p
  <2>3. c \in Int /\ s = b * c
    <3>1. c \in Int /\ s = b * c + (s % b)
      BY <2>1, DivModBasics
    <3> QED BY <3>1, <2>1, <2>2
  <2> HIDE DEF s, c
  <2>4. lr = b * (c - wb * mh)
    <3>1. lr + w * mh = s
      BY <1>4 DEF s
    <3>2. w * mh = b * (wb * mh)
      BY <1>4
    <3>3. b * (c - wb * mh) = b * c - b * (wb * mh)
      BY <1>4, <2>3
    <3>4. lr \in Int /\ s \in Int /\ w * mh \in Int
      BY <1>4, <2>1
    <3> QED BY <3>1, <3>2, <3>3, <3>4, <2>3
  <2>5. c - wb * mh \in Int
    BY <2>3, <1>4
  <2>6. (b * (c - wb * mh)) % b = 0
    BY <2>5, <2>1, MultipleMod
  <2> QED BY <2>4, <2>6
<1>11. /\ ShiftedLow(wb, w, b, lr, hr) \in 0 .. w - 1
       /\ ShiftedHigh(wb, b, hr, co) \in 0 .. w - 1
       /\ b * (ShiftedLow(wb, w, b, lr, hr) + w * ShiftedHigh(wb, b, hr, co))
            = lr + w * hr + w * (w * co)
  <2>1. ShiftPre(b, wb, w, lr, hr, co)
    BY <1>0, <1>4, <1>8, <1>9, <1>10 DEF ShiftPre
  <2> QED BY <2>1, ShiftExact
<1>12. lr + w * hr + w * (w * co) = tl + w * th + p
  <2>1. w * hs = w * (w * co) + w * hr
    <3>1. w * (w * co + hr) = w * (w * co) + w * hr
      BY <1>8, <1>9
    <3> QED BY <3>1, <1>8
  <2>2. lr + w * hs = tl + w * th + p
    BY <1>4
  <2>3. w * hs \in Int /\ w * (w * co) \in Int /\ w * hr \in Int /\ lr \in Int
    BY <1>4, <1>6, <1>8, <1>9
  <2> DEFINE x == w * hs
             y == w * (w * co)
             z == w * hr
             u == w * th
  <2>4. x = y + z /\ lr + x = tl + u + p
    BY <2>1, <2>2
  <2>5. x \in Int /\ y \in Int /\ z \in Int /\ lr \in Int /\ u \in Int
    BY <2>3
  <2> HIDE DEF x, y, z, u
  <2>6. lr + z + y = tl + u + p
    BY <2>4, <2>5
  <2> QED BY <2>6 DEF y, z, u
<1>13. lr + w * hs = tl + w * th + p
  BY <1>4
<1> QED BY <1>5, <1>6, <1>9, <1>11, <1>12, <1>13 DEF p, lr, hr, co, BlockPost

(* From the second block on T < n * w / b + n: adding m * n stays below w^2, *)
(* so the high word cannot carry, nor reach its sign bit.                    *)
LEMMA HighNoWrap ==
  ASSUME NEW b \in Nat, b >= 4, NEW wb \in Nat, wb >= b,
         NEW w \in Nat, w = b * wb, NEW n \in Nat, n < w, NEW m \in 0 .. b - 1,
         NEW pw \in Nat, b <= pw, NEW v \in Nat,
         NEW inp \in Nat, inp < n * w, NEW add \in Nat, add < pw,
         pw * v = inp + n * add
  PROVE  2 * (v + n * m) < w * w
<1>1. n * m <= n * (b - 1)
  BY MulMono
<1>2. w >= 2 * (wb + b)
  <2>1. wb * 4 <= wb * b
    BY MulMono
  <2> QED BY <2>1
<1>3. 2 * (n * (wb + b)) < w * w
  <2>1. n * (2 * (wb + b)) <= n * w
    BY <1>2, MulMono
  <2>2. w * (n + 1) <= w * w
    BY MulMono
  <2>3. w * (n + 1) = n * w + w /\ w > 0
    BY <1>2
  <2>4. /\ n * (2 * (wb + b)) = 2 * (n * (wb + b))
        /\ n * (wb + b) \in Int /\ n * w \in Int /\ w * w \in Int
    OBVIOUS
  <2> QED BY <2>1, <2>2, <2>3, <2>4
<1>4. v < n + n * wb
  <2> SUFFICES ASSUME n + n * wb <= v PROVE FALSE
    OBVIOUS
  <2>1. pw * (n + n * wb) <= pw * v
    BY MulMono
  <2>2. n * add <= n * (pw - 1)
    BY MulMono
  <2>3. (n * wb) * b <= (n * wb) * pw
    <3>1. n * wb \in Nat
      OBVIOUS
    <3> QED BY <3>1, MulMono
  <2>4. /\ pw * (n + n * wb) = n * pw + (n * wb) * pw
        /\ (n * wb) * b = n * w
        /\ n * (pw - 1) = n * pw - n
    OBVIOUS
  <2> DEFINE x == n * pw
             y == (n * wb) * pw
             z == n * w
             u == n * add
             t == pw * v
  <2>5. /\ x + y <= t /\ u <= x - n /\ z <= y /\ t = inp + u /\ inp < z
        /\ x \in Int /\ y \in Int /\ z \in Int /\ u \in Int /\ t \in Int
    BY <2>1, <2>2, <2>3, <2>4
  <2> HIDE DEF x, y, z, u, t
  <2> QED BY <2>5
<1>5. n * (wb + b) = n * wb + n * b /\ n * (b - 1) = n * b - n
  OBVIOUS
<1> DEFINE x == n * wb
           y == n * b
           z == n * m
           s == w * w
<1>6. /\ v < n + x /\ z <= y - n /\ 2 * (x + y) < s
      /\ x \in Int /\ y \in Int /\ z \in Int /\ s \in Int
  BY <1>1, <1>3, <1>4, <1>5
<1> HIDE DEF x, y, z, s
<1>7. 2 * (v + z) < s
  BY <1>6
<1> QED BY <1>7 DEF z, s

-----------------------------------------------------------------------------

(* The inductive invariant. *)
Inv == TypeOK /\ Exact /\ NoPoison /\ ReducesInput

(* The initial registers hold the input itself. *)
LEMMA InitInv == Init => Inv
<1> SUFFICES ASSUME Init PROVE Inv
  OBVIOUS
<1> USE DEF Init
<1>1. /\ W \in Nat /\ N \in Nat /\ N < W /\ N >= 2 /\ NL \in Nat /\ NL >= 2
  BY WordIsLimbs, LimbAssumption
<1>2. tLow \in 0 .. W - 1 /\ tHigh \in 0 .. N - 1 /\ i = 0
      /\ input = tLow + W * tHigh /\ added = 0
  BY DEF Word
<1>3. input \in Nat
  BY <1>1, <1>2
<1>4. input < N * W
  <2>1. W * tHigh <= W * (N - 1)
    BY <1>1, <1>2, MulMono
  <2>2. W * (N - 1) = N * W - W
    BY <1>1
  <2>3. W * tHigh \in Int /\ N * W \in Int
    BY <1>1, <1>2
  <2> DEFINE x == W * tHigh
             y == N * W
  <2>4. x <= y - W /\ input = tLow + x /\ x \in Int /\ y \in Int
    BY <2>1, <2>2, <2>3, <1>2
  <2> HIDE DEF x, y
  <2>5. input < y
    BY <2>4, <1>1, <1>2
  <2> QED BY <2>5 DEF y
<1>5. TypeOK
  <2>1. i \in 0 .. NL + 1 /\ tHigh \in 0 .. W - 1 /\ 0 \in 0 .. W - 1
    BY <1>1, <1>2
  <2>2. lazy \in BOOLEAN /\ poison \in BOOLEAN /\ out = 0
    OBVIOUS
  <2> QED BY <2>1, <2>2, <1>2, <1>3 DEF TypeOK, Word
<1>6. Exact
  <2>1. Weight = 1
    BY <1>1, <1>2, PowAssumption DEF Weight
  <2>2. N * added = 0
    BY <1>1, <1>2
  <2> QED BY <2>1, <2>2, <1>1, <1>2, <1>3, <1>4 DEF Exact
<1>7. NoPoison /\ ReducesInput
  BY <1>1, <1>2 DEF NoPoison, ReducesInput
<1> QED BY <1>5, <1>6, <1>7 DEF Inv

(* The arithmetic both kinds of block share. *)
LEMMA BlockFacts ==
  ASSUME Inv, i \in 0 .. NL - 1
  PROVE  /\ LimbFactor \in 0 .. B - 1
         /\ MNHigh \in 0 .. W - 1
         /\ LowSum % W \in 0 .. W - 1
         /\ BlockPost(B, WB, W, N, LimbFactor, tLow, tHigh,
                      LowSum, MNHigh, HighSum)
<1>1. /\ W \in Nat /\ WB \in Nat /\ B \in Nat /\ N \in Nat
      /\ W = B * WB /\ B >= 4 /\ WB >= B /\ W >= 2 * (WB + B) /\ N < W /\ N >= 2
  BY WordIsLimbs
<1>2. tLow \in 0 .. W - 1 /\ tHigh \in 0 .. W - 1
  BY DEF Inv, TypeOK, Word
<1>3. LimbFactor \in 0 .. B - 1
  <2>1. tLow % B \in Int
    BY <1>1, <1>2, DivModBasics
  <2>2. (tLow % B) * NPrime \in Int
    BY <2>1, NPrimeAssumption
  <2>3. ((tLow % B) * NPrime) % B \in 0 .. B - 1
    BY <2>2, <1>1, DivModBasics
  <2> QED BY <2>3 DEF LimbFactor
<1>4. (tLow + N * LimbFactor) % B = 0
  <2>1. LimbPre(B, N, NPrime, tLow)
    BY NPrimeAssumption, <1>1, <1>2 DEF LimbPre
  <2> QED BY <2>1, LimbCleared DEF LimbFactor, Factor
<1>5. LowSum % W \in 0 .. W - 1
  <2>1. N * LimbFactor \in Int
    BY <1>1, <1>3
  <2>2. LowSum \in Int
    BY <2>1, <1>1, <1>2, DivModBasics DEF LowSum
  <2> QED BY <2>2, <1>1, DivModBasics
<1>6. /\ LowSum = tLow + ((N * LimbFactor) % W)
      /\ MNHigh = (N * LimbFactor) \div W + LowSum \div W
      /\ HighSum = tHigh + MNHigh
  BY DEF LowSum, MNHigh, HighSum
<1> HIDE DEF W, WB, LimbFactor, LowSum, MNHigh, HighSum
<1>7. BlockPost(B, WB, W, N, LimbFactor, tLow, tHigh, LowSum, MNHigh, HighSum)
  <2>1. BlockPre(B, WB, W, N, LimbFactor, tLow, tHigh, LowSum, MNHigh, HighSum)
    BY <1>1, <1>2, <1>3, <1>4, <1>6 DEF BlockPre
  <2> QED BY <2>1, BlockExact
<1>8. MNHigh \in 0 .. W - 1
  BY <1>1, <1>7 DEF BlockPost
<1> QED BY <1>3, <1>5, <1>7, <1>8

(* Every block preserves the invariant: FirstLimb because its carry bit is  *)
(* folded back, NextLimb because HighNoWrap leaves no carry to fold.        *)
LEMMA BlockInv ==
  ASSUME Inv, FirstLimb \/ NextLimb
  PROVE  Inv'
<1>1. /\ W \in Nat /\ WB \in Nat /\ B \in Nat /\ N \in Nat
      /\ W = B * WB /\ B >= 4 /\ WB >= B /\ W >= 2 * (WB + B) /\ N < W /\ N >= 2
      /\ NL \in Nat /\ NL >= 2
  BY WordIsLimbs, LimbAssumption
<1>2. /\ tLow \in 0 .. W - 1 /\ tHigh \in 0 .. W - 1 /\ i \in 0 .. NL + 1
      /\ lazy \in BOOLEAN /\ out \in 0 .. W - 1
      /\ input \in Nat /\ added \in Nat /\ poison = FALSE
  BY DEF Inv, TypeOK, Word, NoPoison
<1>3. i \in 0 .. NL - 1 /\ i' = i + 1 /\ added' = added + Pow[i] * LimbFactor
      /\ lazy' = lazy /\ out' = out /\ input' = input
  BY <1>1 DEF FirstLimb, NextLimb
<1>4. /\ i \in 0 .. NL /\ i + 1 \in 0 .. NL
      /\ Pow[i] \in Nat \ {0} /\ Pow[i + 1] \in Nat \ {0}
      /\ Pow[i + 1] = B * Pow[i]
  BY <1>1, <1>3, PowAssumption
<1>5. Weight = Pow[i] /\ Weight' = Pow[i + 1]
  BY <1>1, <1>2, <1>3, <1>4 DEF Weight
<1> DEFINE pw == Pow[i]
           v == tLow + W * tHigh
<1>6. pw * v = input + N * added /\ added < pw /\ input < N * W
  BY <1>5 DEF Inv, Exact
<1>7. v \in Nat
  BY <1>1, <1>2
<1>8. /\ LimbFactor \in 0 .. B - 1
      /\ MNHigh \in 0 .. W - 1
      /\ LowSum % W \in 0 .. W - 1
      /\ BlockPost(B, WB, W, N, LimbFactor, tLow, tHigh, LowSum, MNHigh, HighSum)
  BY <1>3, BlockFacts
<1>9. NextLimb => 2 * HighSum < W
  <2> SUFFICES ASSUME NextLimb PROVE 2 * HighSum < W
    OBVIOUS
  <2>1. B <= pw
    <3>1. i - 1 \in 0 .. NL - 1 /\ (i - 1) + 1 = i /\ i - 1 \in 0 .. NL
      BY <1>1 DEF NextLimb
    <3>2. Pow[i - 1] \in Nat /\ 1 <= Pow[i - 1] /\ pw = B * Pow[i - 1]
      BY <3>1, PowAssumption
    <3>3. B * 1 <= B * Pow[i - 1]
      BY <3>2, <1>1, MulMono
    <3> QED BY <3>2, <3>3, <1>1
  <2>2. 2 * (v + N * LimbFactor) < W * W
    <3> HIDE DEF pw, v, W, WB
    <3>1. pw \in Nat
      BY <1>4 DEF pw
    <3> QED BY <3>1, <2>1, <1>1, <1>2, <1>6, <1>7, <1>8, HighNoWrap
  <2>3. (LowSum % W) + W * HighSum = v + N * LimbFactor
    BY <1>8 DEF BlockPost
  <2>4. HighSum \in Nat
    BY <1>8 DEF BlockPost
  <2> SUFFICES ASSUME W <= 2 * HighSum PROVE FALSE
    BY <2>4, <1>1
  <2>5. W * W <= W * (2 * HighSum)
    BY <2>4, <1>1, MulMono
  <2> DEFINE x == W * W
             y == W * HighSum
             z == LowSum % W
             u == v + N * LimbFactor
  <2>6. /\ 2 * u < x /\ z + y = u /\ x <= 2 * y
        /\ x \in Int /\ y \in Int /\ z \in Nat
    BY <2>2, <2>3, <2>4, <2>5, <1>1, <1>8
  <2> HIDE DEF x, y, z, u
  <2> QED BY <2>6
<1>10. /\ tLow' = ShiftedLow(WB, W, B, LowSum % W, HighSum % W)
       /\ tHigh' = ShiftedHigh(WB, B, HighSum % W, HighSum \div W)
  <2>1. CASE FirstLimb
    BY <2>1 DEF FirstLimb, ShiftLimb, ShiftedLow, ShiftedHigh, WB
  <2>2. CASE NextLimb
    <3>1. HighSum \in Nat /\ HighSum < W
      BY <2>2, <1>1, <1>9, <1>8 DEF BlockPost
    <3>2. HighSum = W * 0 + HighSum /\ HighSum \in 0 .. W - 1 /\ W > 0
      BY <3>1, <1>1
    <3>3. HighSum \div W = 0
      BY <3>1, <3>2, <1>1, DivModUnique
    <3> QED BY <2>2, <3>3 DEF NextLimb, ShiftLimb, ShiftedLow, ShiftedHigh, WB
  <2> QED BY <2>1, <2>2
<1>11. poison' = FALSE
  <2>1. ~FoldWraps
    <3>1. MNHigh \in 0 .. B - 1 /\ 2 * MNHigh < W
      BY <1>8, <1>1 DEF BlockPost
    <3> QED BY <3>1, <1>1 DEF FoldWraps, Wraps, MNHigh
  <2>2. CASE FirstLimb
    <3>1. HighSum \div W \in {0, 1} /\ 2 * WB < W
      BY <1>8, <1>1 DEF BlockPost
    <3>2. ~(2 * (HighSum \div W) * WB >= W)
      BY <3>1, <1>1
    <3> QED BY <3>2, <2>1, <2>2, <1>2 DEF FirstLimb, WB
  <2>3. CASE NextLimb
    <3>1. 2 * HighSum < W /\ HighSum = tHigh + MNHigh /\ HighSum \in Nat
      BY <2>3, <1>9, <1>8 DEF BlockPost, HighSum
    <3>2. ~Wraps(tHigh, MNHigh)
      BY <3>1, <1>1 DEF Wraps
    <3> QED BY <3>2, <2>1, <2>3, <1>2 DEF NextLimb
  <2> QED BY <2>2, <2>3
<1>12. /\ tLow' \in 0 .. W - 1 /\ tHigh' \in 0 .. W - 1
       /\ B * (tLow' + W * tHigh') = v + N * LimbFactor
  BY <1>8, <1>10 DEF BlockPost
<1>13. added' \in Nat /\ added' < Pow[i + 1]
  <2>1. pw * LimbFactor <= pw * (B - 1)
    BY <1>1, <1>4, <1>8, MulMono
  <2>2. pw * (B - 1) = Pow[i + 1] - pw
    <3>1. pw \in Int /\ Pow[i + 1] = B * pw
      BY <1>4
    <3> HIDE DEF pw
    <3>2. pw * (B - 1) = B * pw - pw
      BY <3>1, <1>1
    <3> QED BY <3>1, <3>2
  <2>3. pw * LimbFactor \in Nat
    BY <1>4, <1>8
  <2> DEFINE x == pw * LimbFactor
  <2>4. added' = added + x /\ x <= Pow[i + 1] - pw /\ x \in Nat
    BY <2>1, <2>2, <2>3, <1>3
  <2>5. added < pw /\ added \in Nat /\ pw \in Nat /\ Pow[i + 1] \in Nat
    BY <1>2, <1>4, <1>6
  <2> HIDE DEF x, pw
  <2> QED BY <2>4, <2>5
<1>14. Pow[i + 1] * (tLow' + W * tHigh') = input + N * added'
  <2> DEFINE m == LimbFactor
             nv == tLow' + W * tHigh'
  <2>1. nv \in Int /\ m \in Int /\ pw \in Int
    BY <1>1, <1>4, <1>8, <1>12
  <2>2. Pow[i + 1] * nv = pw * (B * nv)
    BY <2>1, <1>1, <1>4
  <2>3. pw * (B * nv) = pw * (v + N * m)
    BY <1>12
  <2>4. pw * (v + N * m) = pw * v + N * (pw * m)
    BY <2>1, <1>1, <1>7
  <2>5. N * added' = N * added + N * (pw * m)
    BY <2>1, <1>1, <1>2, <1>3
  <2> DEFINE x == N * added
             y == N * (pw * m)
             z == pw * v
  <2>6. x \in Int /\ y \in Int
    BY <2>1, <1>1, <1>2
  <2>7. Pow[i + 1] * nv = z + y /\ N * added' = x + y /\ z = input + x
    BY <2>2, <2>3, <2>4, <2>5, <1>6
  <2> HIDE DEF x, y, z, nv
  <2>8. Pow[i + 1] * nv = input + N * added'
    BY <2>6, <2>7, <1>2
  <2> QED BY <2>8 DEF nv
<1>15. TypeOK'
  <2>1. i' \in 0 .. NL + 1
    BY <1>1, <1>3
  <2>2. tLow' \in Word /\ tHigh' \in Word /\ out' \in Word
    BY <1>2, <1>3, <1>12 DEF Word
  <2>3. lazy' \in BOOLEAN /\ poison' \in BOOLEAN
    BY <1>2, <1>3, <1>11
  <2>4. input' \in Nat /\ added' \in Nat
    BY <1>2, <1>3, <1>13
  <2> QED BY <2>1, <2>2, <2>3, <2>4 DEF TypeOK, Word
<1>16. Exact'
  <2>1. W' = W /\ N' = N
    BY DEF W
  <2> QED BY <2>1, <1>3, <1>5, <1>6, <1>13, <1>14 DEF Exact
<1>17. NoPoison' /\ ReducesInput'
  BY <1>1, <1>3, <1>11 DEF NoPoison, ReducesInput
<1> QED BY <1>15, <1>16, <1>17 DEF Inv

(* After the last block V = tLow + 2^w * tHigh is below 2n. *)
LEMMA Reduced ==
  ASSUME Inv, i >= NL
  PROVE  /\ W * (tLow + W * tHigh) = input + N * added
         /\ tLow + W * tHigh < 2 * N
         /\ tHigh \in {0, 1}
         /\ ~SignBitSet => tHigh = 0
<1>1. W \in Nat /\ N \in Nat /\ N < W /\ N >= 2 /\ NL \in Nat
  BY WordIsLimbs, LimbAssumption
<1>2. tLow \in 0 .. W - 1 /\ tHigh \in 0 .. W - 1 /\ i \in 0 .. NL + 1
      /\ input \in Nat /\ added \in Nat
  BY DEF Inv, TypeOK, Word
<1>3. Weight = W
  BY <1>1, <1>2 DEF Weight, W
<1> DEFINE v == tLow + W * tHigh
<1>4. W * v = input + N * added /\ added < W /\ input < N * W
  BY <1>3 DEF Inv, Exact
<1>5. v \in Nat
  BY <1>1, <1>2
<1>6. v < 2 * N
  <2> HIDE DEF v
  <2> SUFFICES ASSUME 2 * N <= v PROVE FALSE
    BY <1>1, <1>5
  <2>1. W * (2 * N) <= W * v
    BY <1>1, <1>5, MulMono
  <2>2. N * added <= N * W
    BY <1>1, <1>2, <1>4, MulMono
  <2>3. W * (2 * N) = N * W + N * W
    BY <1>1
  <2> DEFINE x == N * W
             y == N * added
             z == W * v
  <2>4. /\ x + x <= z /\ y <= x /\ z = input + y /\ input < x
        /\ x \in Int /\ y \in Int /\ z \in Int
    BY <2>1, <2>2, <2>3, <1>1, <1>2, <1>4, <1>5
  <2> HIDE DEF x, y, z
  <2> QED BY <2>4, <1>2
<1>7. tHigh \in {0, 1}
  <2> SUFFICES ASSUME 2 <= tHigh PROVE FALSE
    BY <1>2
  <2>1. W * 2 <= W * tHigh
    BY <1>1, <1>2, MulMono
  <2> DEFINE x == W * tHigh
  <2>2. W * 2 <= x /\ x \in Int /\ tLow + x < 2 * N
    BY <2>1, <1>1, <1>2, <1>6
  <2> HIDE DEF x
  <2> QED BY <2>2, <1>1, <1>2
<1>8. ~SignBitSet => tHigh = 0
  <2> SUFFICES ASSUME ~SignBitSet, tHigh = 1 PROVE FALSE
    BY <1>7
  <2>1. W * tHigh = W
    BY <1>1
  <2>2. 2 * N < W
    BY <1>1 DEF SignBitSet
  <2> QED BY <2>1, <2>2, <1>1, <1>2, <1>6
<1> QED BY <1>4, <1>6, <1>7, <1>8

(* Subtracting words, and picking the smaller of x - n and x.               *)
LEMMA WrappedSub ==
  ASSUME NEW x \in Word
  PROVE  /\ x < N => SubWord(x, N) = x - N + W
         /\ N <= x => SubWord(x, N) = x - N
         /\ CanonicalFromExtended(x) = IF x < N THEN x ELSE x - N
<1>1. W \in Nat /\ N \in Nat /\ N < W /\ N >= 2 /\ x \in 0 .. W - 1
  BY WordIsLimbs DEF Word
<1> HIDE DEF W
<1>2. ASSUME x < N PROVE SubWord(x, N) = x - N + W
  <2>1. x - N = W * (-1) + (x - N + W) /\ x - N + W \in 0 .. W - 1
        /\ x - N \in Int /\ W > 0
    BY <1>1, <1>2
  <2>2. (x - N) % W = x - N + W
    BY <2>1, <1>1, DivModUnique
  <2> QED BY <2>2 DEF SubWord
<1>3. ASSUME N <= x PROVE SubWord(x, N) = x - N
  <2>1. x - N = W * 0 + (x - N) /\ x - N \in 0 .. W - 1
        /\ x - N \in Int /\ W > 0
    BY <1>1, <1>3
  <2>2. (x - N) % W = x - N
    BY <2>1, <1>1, DivModUnique
  <2> QED BY <2>2 DEF SubWord
<1>4. CanonicalFromExtended(x) = IF x < N THEN x ELSE x - N
  <2>1. CASE x < N
    <3>1. SubWord(x, N) > x
      BY <2>1, <1>1, <1>2
    <3> QED BY <3>1, <2>1, <1>1, <1>2 DEF CanonicalFromExtended, MinU
  <2>2. CASE N <= x
    <3>1. SubWord(x, N) <= x
      BY <2>2, <1>1, <1>3
    <3> QED BY <3>1, <2>2, <1>1, <1>3 DEF CanonicalFromExtended, MinU
  <2> QED BY <2>1, <2>2, <1>1
<1> QED BY <1>2, <1>3, <1>4

(* The tail returns the Montgomery residue in the range the caller asked     *)
(* for, whatever the overflow bit.                                           *)
LEMMA FinishInv ==
  ASSUME Inv, Finish
  PROVE  Inv'
<1>1. W \in Nat /\ N \in Nat /\ N < W /\ N >= 2 /\ NL \in Nat /\ NL >= 2
  BY WordIsLimbs, LimbAssumption
<1>2. /\ tLow \in Word /\ tHigh \in Word /\ lazy \in BOOLEAN /\ poison = FALSE
      /\ input \in Nat /\ added \in Nat
  BY DEF Inv, TypeOK, NoPoison
<1>3. /\ i = NL /\ i' = NL + 1 /\ tLow' = tLow /\ tHigh' = tHigh
      /\ lazy' = lazy /\ poison' = poison /\ input' = input /\ added' = added
  BY DEF Finish
<1> DEFINE v == tLow + W * tHigh
<1>4. /\ W * v = input + N * added /\ v < 2 * N
      /\ tHigh \in {0, 1} /\ (~SignBitSet => tHigh = 0)
  BY <1>1, <1>3, Reduced
<1>5. tHigh = 0 => v = tLow
  BY <1>1, <1>2 DEF Word
<1>6. tHigh = 1 => v = tLow + W
  BY <1>1, <1>2 DEF Word
<1>7. v \in Nat /\ tLow \in 0 .. W - 1
  BY <1>1, <1>2, <1>4, <1>5, <1>6 DEF Word
<1> HIDE DEF v
<1>8. /\ out' \in Word /\ out' < (IF lazy THEN 2 * N ELSE N)
      /\ out' = v \/ out' = v - N
  <2> DEFINE canon == CanonicalFromExtended(tLow)
  <2>1. tHigh = 0 => /\ canon \in Word /\ canon < N
                     /\ canon = v \/ canon = v - N
    BY <1>1, <1>2, <1>4, <1>5, <1>7, WrappedSub DEF Word
  <2>2. CASE SignBitSet /\ tHigh = 1
    <3>1. tHigh % 2 = 1
      BY <2>2
    <3>2. tLow < N /\ out' = SubWord(tLow, N)
      BY <2>2, <3>1, <1>1, <1>4, <1>6, <1>7
         DEF Finish, CanonicalFromOverflow
    <3>3. out' = v - N
      BY <3>2, <2>2, <1>1, <1>2, <1>6, <1>7, WrappedSub
    <3> QED BY <3>3, <3>2, <1>1, <1>2, <1>4, <1>6, <1>7, <2>2 DEF Word
  <2>3. CASE SignBitSet /\ tHigh = 0
    <3>1. tHigh % 2 = 0
      BY <2>3
    <3>2. out' = canon
      BY <2>3, <3>1 DEF Finish, CanonicalFromOverflow, CanonicalFromExtended
    <3>3. canon \in Word /\ canon < N /\ (canon = v \/ canon = v - N)
      BY <2>1, <2>3
    <3>4. canon < 2 * N
      BY <3>3, <1>1 DEF Word
    <3> QED BY <3>2, <3>3, <3>4, <1>2
  <2>4. CASE ~SignBitSet /\ lazy
    <3>1. out' = v /\ out' = tLow
      BY <2>4, <1>4, <1>5 DEF Finish
    <3> QED BY <3>1, <2>4, <1>2, <1>4
  <2>5. CASE ~SignBitSet /\ ~lazy
    <3>1. out' = canon
      BY <2>5 DEF Finish
    <3> QED BY <3>1, <2>1, <2>5, <1>4
  <2> QED BY <2>2, <2>3, <2>4, <2>5, <1>4
<1>9. (W * out' - input) % N = 0
  <2>1. CASE out' = v
    <3>1. W * out' - input = N * added
      <4> DEFINE x == W * v
                 y == N * added
      <4>1. x = input + y /\ x \in Int /\ y \in Int
        BY <1>1, <1>2, <1>4, <1>7
      <4> HIDE DEF x, y
      <4>2. x - input = y
        BY <4>1, <1>2
      <4> QED BY <4>2, <2>1 DEF x, y
    <3> QED BY <3>1, <1>1, <1>2, MultipleMod
  <2>2. CASE out' = v - N
    <3>1. W * (v - N) = W * v - N * W
      BY <1>1, <1>7
    <3>2. N * (added - W) = N * added - N * W
      BY <1>1, <1>2
    <3>3. W * out' - input = N * (added - W)
      <4> DEFINE x == W * v
                 y == N * added
                 z == N * W
      <4>1. x = input + y /\ x \in Int /\ y \in Int /\ z \in Int
        BY <1>1, <1>2, <1>4, <1>7
      <4>2. W * (v - N) = x - z /\ N * (added - W) = y - z
        BY <3>1, <3>2
      <4> HIDE DEF x, y, z
      <4>3. x - z - input = y - z
        BY <4>1, <1>2
      <4> QED BY <4>2, <4>3, <2>2
    <3>4. added - W \in Int
      BY <1>1, <1>2
    <3>5. (N * (added - W)) % N = 0
      <4> DEFINE k == added - W
      <4>1. k \in Int /\ N \in Nat /\ N > 0
        BY <3>4, <1>1
      <4> HIDE DEF k
      <4>2. (N * k) % N = 0
        BY <4>1, MultipleMod
      <4> QED BY <4>2 DEF k
    <3> QED BY <3>3, <3>5
  <2> QED BY <2>1, <2>2, <1>8
<1>10. TypeOK'
  <2>1. i' \in 0 .. NL + 1
    BY <1>1, <1>3
  <2>2. tLow' \in Word /\ tHigh' \in Word /\ out' \in Word
    BY <1>2, <1>3, <1>8
  <2> QED BY <2>1, <2>2, <1>2, <1>3 DEF TypeOK, Word
<1>11. Exact'
  <2>1. Weight = W /\ Weight' = W
    BY <1>1, <1>3 DEF Weight, W
  <2> QED BY <2>1, <1>3 DEF Inv, Exact
<1>12. NoPoison' /\ ReducesInput'
  BY <1>2, <1>3, <1>8, <1>9 DEF NoPoison, ReducesInput, W
<1> QED BY <1>10, <1>11, <1>12 DEF Inv

(* The inductive invariant holds in every reachable state. *)
THEOREM InvInvariant == Spec => []Inv
<1>1. Init => Inv
  BY InitInv
<1>2. Inv /\ [Next]_vars => Inv'
  <2> SUFFICES ASSUME Inv, [Next]_vars PROVE Inv'
    OBVIOUS
  <2>1. CASE FirstLimb
    BY <2>1, BlockInv
  <2>2. CASE NextLimb
    BY <2>2, BlockInv
  <2>3. CASE Finish
    BY <2>3, FinishInv
  <2>4. CASE Done \/ UNCHANGED vars
    <3>1. UNCHANGED vars
      BY <2>4 DEF Done
    <3> QED BY <3>1 DEF vars, Inv, TypeOK, Exact, NoPoison, ReducesInput, Weight
  <2> QED BY <2>1, <2>2, <2>3, <2>4 DEF Next
<1> QED BY <1>1, <1>2, PTL DEF Spec

(* Every register always holds a word, for every base, limb count and        *)
(* modulus.                                                                  *)
THEOREM TypeCorrect == Spec => []TypeOK
<1>1. Inv => TypeOK
  BY DEF Inv
<1> QED BY <1>1, InvInvariant, PTL

(* No operation the reducer flags nuw/nsw ever wraps.                        *)
THEOREM NeverPoison == Spec => []NoPoison
<1>1. Inv => NoPoison
  BY DEF Inv
<1> QED BY <1>1, InvInvariant, PTL

(* reduce() returns the Montgomery residue of its input, in [0, 2n) when     *)
(* lazy and in [0, n) otherwise.                                             *)
THEOREM ReducesCorrectly == Spec => []ReducesInput
<1>1. Inv => ReducesInput
  BY DEF Inv
<1> QED BY <1>1, InvInvariant, PTL

(* After the last limb the high word is the overflow bit of a full-width     *)
(* modulus and zero for a narrow one, so the tail loses nothing.             *)
THEOREM HighWordAlwaysFits == Spec => []HighWordFits
<1>1. Inv => HighWordFits
  BY Reduced DEF HighWordFits
<1> QED BY <1>1, InvInvariant, PTL

(* Between blocks the two registers hold the partially reduced value         *)
(* exactly: nothing is lost when a carry is folded or a limb is shifted out. *)
THEOREM StaysExact == Spec => []Exact
<1>1. Inv => Exact
  BY DEF Inv
<1> QED BY <1>1, InvInvariant, PTL
=============================================================================
