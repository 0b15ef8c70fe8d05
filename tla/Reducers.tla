------------------------------- MODULE Reducers -------------------------------
(***************************************************************************)
(* What the code emitted by MontReducer, BarrettReducer and SolinasReducer *)
(* computes, as functions on words.  A lowered value is its word together  *)
(* with the two facts about its defining operation that later patterns     *)
(* look at: whether it is an arith.addi, and the signed form that          *)
(* getSignedFormFromCanonical would recover from it (none: the empty set). *)
(***************************************************************************)
EXTENDS ArithWords

CONSTANTS
  P,            \* the modulus, odd and below WordSize
  SingleLimb    \* montAttr.getNumLimbs() = 1

Lowered == [word : Word, isAdd : BOOLEAN, signed : SUBSET Int]

Plain(x)  == [word |-> x, isAdd |-> FALSE, signed |-> {}]
AddOp(x)  == [word |-> x, isAdd |-> TRUE, signed |-> {}]
MinOp(x, s) == [word |-> x, isAdd |-> FALSE, signed |-> s]

\* modulus.isSignBitSet()
SignBitSet == 2 * P >= WordSize

\* modulus.getActiveBits() = storage width
FullWidth == SignBitSet

\* A bound is a number of 2w bits; its arithmetic wraps there.
Double == WordSize * WordSize

\* kpFromUmax: ceil((umax + 1) / p), at least 1
KpFromUmax(umax) ==
  LET next == (umax + 1) % Double
  IN  IF next <= P THEN 1 ELSE (next + P - 1) \div P

\* ceil(log2(bound)): the conditional subtractions of getCanonicalFromExtended
Steps(bound) == CHOOSE m \in 0 .. bound :
                  2^m >= bound /\ \A n \in 0 .. m - 1 : 2^n < bound

\* getCanonicalFromExtended(input, bound) on words: subtract 2^i * p, a
\* multiple cut to w bits, for i = m - 1 .. 0 whenever that gives less.
Subtractions(x, m) ==
  LET after[k \in 0 .. m] ==
        IF k = 0 THEN x
        ELSE MinUI(SubI(after[k - 1], (P * 2^(m - k)) % WordSize), after[k - 1])
  IN  after[m]

\* ... and on lowered values.  Only the last minui of a single step is
\* min(x - p, x) of an addi x, the shape a signed form is recovered from.
CanonicalFromExtended(v, bound) ==
  IF bound <= 1 THEN v
  ELSE LET m == Steps(bound)
       IN  MinOp(Subtractions(v.word, m),
                 IF m = 1 /\ v.isAdd THEN {Signed(SubI(v.word, P))} ELSE {})

\* getCanonicalFromExtended(input, overflow): a select, no signed form.
CanonicalFromOverflow(x, overflow) ==
  Plain(IF overflow = 1 THEN SubI(x, P) ELSE MinUI(SubI(x, P), x))

\* getCanonicalDiff: min(d, d + p), or a compare and select when p uses the
\* sign bit.
CanonicalDiff(x, y) ==
  LET d == SubI(x, y)
  IN  IF SignBitSet THEN Plain(IF x < y THEN AddI(d, P) ELSE d)
      ELSE MinOp(MinUI(d, AddI(d, P)), {Signed(d)})

\* montAttr.getNInv(): n^-1 mod 2^w
NInv == CHOOSE x \in Word : (P * x) % WordSize = 1

\* reduceSingleLimb: t - m * n with m = t * n^-1, high words only.  When t
\* comes from a product of signed forms, m * n is a signed product too.
ReduceSingleLimb(t, fromSigned, lazy) ==
  LET m    == MulI(Low(t), NInv)
      mN   == IF fromSigned THEN Signed(m) * P ELSE m * P
      high == High(t)
  IN  IF lazy THEN AddOp(AddI(SubI(high, High(mN)), P))
      ELSE CanonicalDiff(high, High(mN))

\* reduceMultiLimb, whose blocks module MontRedc follows one by one: the
\* value V = (t + q * n) / 2^w, then the tail.
ReduceMultiLimb(t, lazy) ==
  LET q == MulI(Low(t), WordSize - NInv)
      v == (t + q * P) \div WordSize
  IN  IF SignBitSet THEN CanonicalFromOverflow(Low(v), High(v) % 2)
      ELSE IF lazy THEN Plain(Low(v))
      ELSE CanonicalFromExtended(Plain(Low(v)), 2)

\* MontReducer::reduce
Reduce(t, fromSigned, lazy) ==
  IF SingleLimb THEN ReduceSingleLimb(t, fromSigned, lazy)
  ELSE ReduceMultiLimb(t, lazy)

\* BarrettReducer::reduce, in words of 2w bits.  mu is floor(2^2w / p).
BarrettReduce(x, y) ==
  LET prod == x * y
      mu   == (WordSize * WordSize) \div P
      q    == (prod * mu) \div (WordSize * WordSize)
      r    == prod - q * P
  IN  Plain(IF r >= P THEN r - P ELSE r)

\* SolinasReducer::reduce for p = 2^w - 2^h + 1, w = 2h: with eps = 2^h - 1,
\* hi * 2^w + lo = lo - hiHi + hiLo * eps (mod p); a borrow or a carry is
\* worth eps.
SolinasReduce(t, lazy) ==
  LET half == CHOOSE h \in Word : h * h = WordSize
      eps  == half - 1
      lo   == Low(t)
      hiHi == High(t) \div half
      hiLo == High(t) % half
      raw  == SubI(lo, hiHi)
      t0   == IF lo < hiHi THEN SubI(raw, eps) ELSE raw
      t1   == SubI((hiLo * half) % WordSize, hiLo)
      t2   == IF AddCarry(t0, t1) = 1 THEN AddI(AddSum(t0, t1), eps)
              ELSE AddSum(t0, t1)
  IN  IF lazy THEN Plain(t2) ELSE Plain(MinUI(SubI(t2, P), t2))

\* The Mersenne branch of ConvertMul: p = 2^k - 1.
MersenneReduce(t) ==
  LET sum == t \div (P + 1) + (t % (P + 1))
  IN  Plain(IF sum >= P THEN sum - P ELSE sum)
=============================================================================
