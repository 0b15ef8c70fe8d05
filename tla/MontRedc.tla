------------------------------- MODULE MontRedc -------------------------------
(***************************************************************************)
(* The multi-limb Montgomery reduction that MontReducer emits              *)
(* (MontReducer::reduceMultiLimb and ::reduce).                            *)
(*                                                                         *)
(* The code is emitted unrolled, one block per limb.  A state of this      *)
(* module is the register contents between two blocks: the 2w-bit value T  *)
(* lives in the w-bit registers tLow and tHigh.  Every arith operation is  *)
(* modelled by what it does on w-bit words; an addition that carries the   *)
(* flags nuw/nsw yields poison when it wraps, and poison records that.     *)
(*                                                                         *)
(* Numbers stand for words: B is 2^limbWidth, Pow[k] is B^k and W, which   *)
(* is Pow[NL], is 2^w.                                                     *)
(***************************************************************************)
EXTENDS Integers

CONSTANTS
  B,       \* 2^limbWidth, the base of a limb
  NL,      \* numLimbs
  Pow,     \* Pow[k] = B^k
  N,       \* the modulus n
  NPrime   \* montAttr.getNPrime(): -n^-1 mod B

W == Pow[NL]

ASSUME BaseAssumption  == B \in Nat /\ B >= 4
ASSUME LimbAssumption  == NL \in Nat /\ NL >= 2
ASSUME PowAssumption   == /\ Pow \in [0 .. NL -> Nat \ {0}]
                          /\ Pow[0] = 1
                          /\ \A k \in 0 .. NL - 1 : Pow[k + 1] = B * Pow[k]
ASSUME ModulusAssumption == N \in Nat /\ 2 <= N /\ N < Pow[NL]
ASSUME NPrimeAssumption  == /\ NPrime \in 0 .. B - 1
                            /\ (N * NPrime + 1) % B = 0

VARIABLES
  i,       \* the limb the next block clears; NL + 1 once the result is out
  tLow,    \* low word of T
  tHigh,   \* high word of T
  lazy,    \* the caller asked for a result in [0, 2n)
  poison,  \* an operation flagged nuw/nsw has wrapped
  out,     \* the reduced word
  input,   \* history: the double word given to reduce()
  added    \* history: the multiple of N added so far

vars == <<i, tLow, tHigh, lazy, poison, out, input, added>>

Word == 0 .. W - 1

\* mod.isSignBitSet(): the modulus uses the top bit of its storage word.
SignBitSet == 2 * N >= W

\* reduce() asserts !lazy for such a modulus, and its callers guarantee the
\* REDC precondition T < n * 2^w.
Init ==
  /\ i = 0
  /\ tLow \in Word
  /\ tHigh \in 0 .. N - 1
  /\ lazy \in BOOLEAN
  /\ SignBitSet => ~lazy
  /\ poison = FALSE
  /\ out = 0
  /\ input = tLow + W * tHigh
  /\ added = 0

\* m = (T mod b) * nPrime (mod b)
LimbFactor == ((tLow % B) * NPrime) % B

\* T += m * n, low word: the sum and its carry.
LowSum   == tLow + ((N * LimbFactor) % W)

\* Mutant of MNHigh: the carry of the low word is dropped.
MNHighNoCarry == (N * LimbFactor) \div W

\* mN.high with the carry of the low word folded in (flagged nuw, nsw).
MNHigh   == (N * LimbFactor) \div W + LowSum \div W

\* tHigh + mN.high before it is cut to a word.
HighSum  == tHigh + MNHigh

\* An addition flagged nuw and nsw yields poison when it wraps either way.
Wraps(x, y) == \/ x + y >= W
               \/ 2 * x < W /\ 2 * y < W /\ 2 * (x + y) >= W

\* The fold of the carry into mN.high.
FoldWraps == Wraps((N * LimbFactor) \div W, LowSum \div W)

\* Mutant of ShiftLimb: the limb moved down from tHigh is not cut to a word.
ShiftLimbUncut(high, carryOut) ==
  /\ tLow'  = (LowSum % W) \div B + high * Pow[NL - 1]
  /\ tHigh' = high \div B + carryOut * Pow[NL - 1]

\* T's lowest limb is zero: shift T right by one limb.  high is the word
\* that ended up in tHigh, carryOut bit 2w of T.
ShiftLimb(high, carryOut) ==
  /\ tLow'  = (LowSum % W) \div B + ((high * Pow[NL - 1]) % W)
  /\ tHigh' = high \div B + carryOut * Pow[NL - 1]

\* Mutant of FirstLimb: the first block is emitted like the later ones.
FirstLimbNoCarry ==
  /\ i = 0
  /\ ShiftLimb(HighSum % W, 0)
  /\ poison' = (poison \/ FoldWraps \/ Wraps(tHigh, MNHigh))
  /\ added' = added + Pow[i] * LimbFactor
  /\ i' = i + 1
  /\ UNCHANGED <<lazy, out, input>>

\* The first block: tHigh may carry out of the register, so the carry is
\* captured and folded back after the shift (a shift flagged nuw and nsw).
FirstLimb ==
  /\ i = 0
  /\ ShiftLimb(HighSum % W, HighSum \div W)
  /\ poison' = (poison \/ FoldWraps \/ 2 * (HighSum \div W) * Pow[NL - 1] >= W)
  /\ added' = added + Pow[i] * LimbFactor
  /\ i' = i + 1
  /\ UNCHANGED <<lazy, out, input>>

\* Every later block: the high addition is emitted with noOverflow.
NextLimb ==
  /\ i \in 1 .. NL - 1
  /\ ShiftLimb(HighSum % W, 0)
  /\ poison' = (poison \/ FoldWraps \/ Wraps(tHigh, MNHigh))
  /\ added' = added + Pow[i] * LimbFactor
  /\ i' = i + 1
  /\ UNCHANGED <<lazy, out, input>>

\* arith.subi on words, and arith.minui.
SubWord(x, y) == (x - y) % W
MinU(x, y) == IF x <= y THEN x ELSE y

\* getCanonicalFromExtended(input), bound 2: one conditional subtraction.
CanonicalFromExtended(x) == MinU(SubWord(x, N), x)

\* getCanonicalFromExtended(input, overflow)
CanonicalFromOverflow(x, overflow) ==
  IF overflow = 1 THEN SubWord(x, N) ELSE MinU(SubWord(x, N), x)

\* The tail of reduceMultiLimb: tHigh is truncated to one bit for a
\* full-width modulus and ignored for a narrow one.
Finish ==
  /\ i = NL
  /\ i' = NL + 1
  /\ out' = IF SignBitSet THEN CanonicalFromOverflow(tLow, tHigh % 2)
            ELSE IF lazy THEN tLow ELSE CanonicalFromExtended(tLow)
  /\ UNCHANGED <<tLow, tHigh, lazy, poison, input, added>>

\* The emitted code is straight-line; after the last block nothing runs.
Done == i = NL + 1 /\ UNCHANGED vars

Next == FirstLimb \/ NextLimb \/ Finish \/ Done

Spec == Init /\ [][Next]_vars

-----------------------------------------------------------------------------

\* The registers hold words, in every block.
TypeOK ==
  /\ i \in 0 .. NL + 1
  /\ tLow \in Word
  /\ tHigh \in Word
  /\ lazy \in BOOLEAN
  /\ poison \in BOOLEAN
  /\ out \in Word
  /\ input \in Nat
  /\ added \in Nat

\* No operation the reducer flags nuw/nsw ever wraps: neither the fold of
\* the carry into mN.high nor the high additions after the first block
\* (the two "cannot wrap" comments of reduceMultiLimb).
NoPoison == ~poison

\* After the last limb V = tLow + 2^w tHigh is below 2n: tHigh is one bit for
\* a full-width modulus and zero for a narrow one, so truncating it to i1 or
\* dropping it loses nothing.
HighWordFits ==
  i >= NL => /\ tHigh \in {0, 1}
             /\ ~SignBitSet => tHigh = 0

\* The result of reduce() is the Montgomery residue: 2^w * out is congruent
\* to the input modulo n, and out is in [0, 2n) when lazy, in [0, n) when not.
ReducesInput ==
  i = NL + 1 => /\ (W * out - input) % N = 0
                /\ out < (IF lazy THEN 2 * N ELSE N)

\* b^i for the limbs cleared so far.
Weight == IF i <= NL THEN Pow[i] ELSE W

\* The inductive invariant: the registers hold (input + n * added) / b^i
\* exactly, and what was added is below n * b^i.
Exact ==
  /\ Weight * (tLow + W * tHigh) = input + N * added
  /\ added < Weight
  /\ input < N * W
=============================================================================
