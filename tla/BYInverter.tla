------------------------------ MODULE BYInverter ------------------------------
(***************************************************************************)
(* The Bernstein-Yang inverse that mod_arith.inverse and mont_inverse      *)
(* lower to (BYInverter).  The outer loop jumps over n division steps at a *)
(* time until g is zero.  A jump works on the low n bits of f and g, in    *)
(* limb words, and yields a matrix that is then applied to f, g, d and e,  *)
(* in extended words of the modulus width plus a limb.                     *)
(*                                                                         *)
(* A word is its two's complement reading.                                 *)
(***************************************************************************)
EXTENDS Integers

CONSTANT Moduli   \* [m, width, n, limb]: an odd modulus and its BYAttr

\* A limb has 64 bits at least, and the width of a type is below 2^24: there is
\* room for 28 and for eta.
ASSUME ModuliAssumption ==
  \A q \in Moduli : /\ q.m % 2 = 1 /\ q.m \in 3 .. 2^q.width - 1
                    /\ q.width \in Nat /\ q.n \in Nat /\ q.limb \in Nat
                    /\ q.n >= 1 /\ q.limb >= q.n + 2
                    /\ q.limb >= 5 /\ q.width + 1 < 2^(q.limb - 1)

\* BYAttr's number of steps of a jump: 12 jumps exceed the bound on all steps.
DivstepsOf(width) ==
  LET bound == IF width < 46 THEN (49 * width + 80) \div 17 ELSE (49 * width + 57) \div 17
  IN  bound \div 12 + 1

VARIABLES
  attr,        \* the modulus and its BYAttr
  input,
  isMont,
  f, g, d, e,  \* extended words
  eta,         \* a limb, as everything of the jump
  jumpEta, jumpF, jumpG,
  steps,       \* division steps left in the jump
  t,           \* its matrix
  pc,
  result

operands == <<attr, input, isMont>>
outer == <<f, g, d, e, eta>>
jump  == <<jumpEta, jumpF, jumpG, steps, t>>
vars  == <<operands, outer, jump, pc, result>>

-----------------------------------------------------------------------------
\* Words.
Wrap(x, width) == ((x + 2^(width - 1)) % 2^width) - 2^(width - 1)
ExtWidth == attr.width + attr.limb
Limb(x)  == Wrap(x, attr.limb)
Ext(x)   == Wrap(x, ExtWidth)
LowN(x)  == x % 2^attr.n   \* x & maskN
Smaller(x, y) == IF x <= y THEN x ELSE y

\* math.ctz: the width for zero.
TrailingZeros(x) ==
  IF x = 0 THEN attr.limb
  ELSE CHOOSE z \in 0 .. attr.limb : x % 2^z = 0 /\ x % 2^(z + 1) # 0

\* BYAttr: the modulus' inverse modulo 2^n; montAttr: R^2.
MInv     == CHOOSE x \in 0 .. 2^attr.n - 1 : LowN(x * attr.m) = 1
RSquared == (2^attr.width * 2^attr.width) % attr.m

Identity == [t00 |-> 1, t01 |-> 0, t10 |-> 0, t11 |-> 1]

\* Generate: the values the outer loop starts with.
Init ==
  /\ attr \in Moduli /\ isMont \in BOOLEAN
  /\ input \in 0 .. attr.m - 1
  /\ f = attr.m /\ g = input
  /\ d = 0 /\ e = (IF isMont THEN RSquared ELSE 1)
  /\ eta = 1
  /\ jumpEta = 0 /\ jumpF = 0 /\ jumpG = 0 /\ steps = 0 /\ t = Identity
  /\ pc = "loop" /\ result = 0

\* GenerateJump, up to its loop.
StartJump ==
  /\ pc = "loop" /\ g # 0
  /\ steps' = attr.n /\ t' = Identity
  /\ jumpF' = LowN(f) /\ jumpG' = LowN(g) /\ jumpEta' = eta
  /\ pc' = "zeros"
  /\ UNCHANGED <<operands, outer, result>>

Zeros == Smaller(TrailingZeros(jumpG), steps)

\* The loop's condition: one step for every zero bit at the end of g.
DropZeros ==
  /\ pc = "zeros"
  /\ steps' = steps - Zeros
  /\ jumpEta' = Limb(jumpEta + Zeros)
  /\ jumpG' = Limb((jumpG % 2^attr.limb) \div 2^Zeros)   \* shrui
  /\ t' = [t EXCEPT !.t00 = Limb(@ * 2^Zeros), !.t01 = Limb(@ * 2^Zeros)]
  /\ pc' = IF steps' # 0 THEN "cancel" ELSE "apply"
  /\ UNCHANGED <<operands, outer, jumpF, result>>

\* Mutant of Shift: bits are cancelled after eta has become positive.
ShiftPastSwap(eta1) == Smaller(steps, 5)

\* Mutant of Shift: off by one.
ShiftOneLess(eta1) == Smaller(Smaller(steps, -eta1), 5)

\* How many bits of g to cancel.
Shift(eta1) == Smaller(Smaller(steps, Limb(1 - eta1)), 5)

\* x xor 28: bits two to four are flipped.
Flipped(x) == x + 28 - 2 * ((x % 32) - (x % 4))

\* The multiple of f that cancels them: (3 f) xor 28 is -1/f modulo 32.
Multiple(f1, g1, shift) == Limb(g1 * Flipped(Limb(3 * f1))) % 2^shift

\* The loop's body: swap when eta is positive, then cancel the last bits of g.
CancelBits ==
  /\ pc = "cancel"
  /\ LET swap == jumpEta > 0
         eta1 == IF swap THEN Limb(-jumpEta) ELSE jumpEta
         f1 == IF swap THEN jumpG ELSE jumpF
         g1 == IF swap THEN Limb(-jumpF) ELSE jumpG
         t1 == IF swap THEN [t00 |-> t.t10, t01 |-> t.t11,
                             t10 |-> Limb(-t.t00), t11 |-> Limb(-t.t01)]
               ELSE t
         w == Multiple(f1, g1, Shift(eta1))
     IN  /\ jumpEta' = eta1 /\ jumpF' = f1
         /\ jumpG' = Limb(g1 + w * f1)
         /\ t' = [t1 EXCEPT !.t10 = Limb(t1.t00 * w + @),
                            !.t11 = Limb(t1.t01 * w + @)]
  /\ pc' = "zeros"
  /\ UNCHANGED <<operands, outer, steps, result>>

\* Mutant of Correction: the signs are made up for after the reduction.
CorrectionSignsLate(t0, t1) ==
  LET md == Limb((IF d < 0 THEN t0 ELSE 0) + (IF e < 0 THEN t1 ELSE 0))
      c  == LowN(t0 * LowN(d) + t1 * LowN(e))
  IN  Limb(md - LowN(c * MInv))

\* GenerateDE: the multiple of m that makes t0 * d + t1 * e a multiple of 2^n.
Correction(t0, t1) ==
  LET md == Limb((IF d < 0 THEN t0 ELSE 0) + (IF e < 0 THEN t1 ELSE 0))
      c  == LowN(t0 * LowN(d) + t1 * LowN(e))
  IN  Limb(md - LowN(c * MInv + md))

\* shrsi by n of an extended word
Shifted(x) == Ext(x) \div 2^attr.n

\* GenerateFG and GenerateDE.
ApplyMatrix ==
  /\ pc = "apply"
  /\ f' = Shifted(f * t.t00 + g * t.t01)
  /\ g' = Shifted(f * t.t10 + g * t.t11)
  /\ d' = Shifted(d * t.t00 + e * t.t01 + attr.m * Correction(t.t00, t.t01))
  /\ e' = Shifted(d * t.t10 + e * t.t11 + attr.m * Correction(t.t10, t.t11))
  /\ eta' = jumpEta
  /\ pc' = "loop"
  /\ UNCHANGED <<operands, jump, result>>

Lifted(x) == IF x < 0 THEN Ext(x + attr.m) ELSE x

\* Mutant of Norm: a gcd of minus one counts as one.
NormUnit(x, antiunit) == Lifted(x)

\* GenerateNorm
Norm(x, antiunit) ==
  LET y == Lifted(x) IN Lifted(IF antiunit THEN Ext(-y) ELSE y)

\* The loop is left; an input without an inverse gives zero.
Finish ==
  /\ pc = "loop" /\ g = 0
  /\ result' = (IF f \in {1, -1} THEN Norm(d, f = -1) ELSE 0) % 2^attr.width
  /\ pc' = "done"
  /\ UNCHANGED <<operands, outer, jump>>

Terminated == pc = "done" /\ UNCHANGED vars

Next == StartJump \/ DropZeros \/ CancelBits \/ ApplyMatrix \/ Finish \/ Terminated

\* One thread runs the emitted code and nothing of it waits.
Spec == Init /\ [][Next]_vars /\ WF_vars(Next)

-----------------------------------------------------------------------------
\* The type invariant: words fit their widths and no jump takes more than its
\* n steps.
TypeOK ==
  /\ \A x \in {f, g, d, e} : x = Ext(x)
  /\ \A x \in {eta, jumpEta, jumpF, jumpG, t.t00, t.t01, t.t10, t.t11} : x = Limb(x)
  /\ steps \in 0 .. attr.n
  /\ result \in 0 .. attr.m - 1

\* A single division step of Bernstein and Yang on unbounded integers, and
\* several.
DivStep(s) ==
  IF s.eta > 0 /\ s.g % 2 = 1
  THEN [eta |-> 1 - s.eta, f |-> s.g, g |-> (s.g - s.f) \div 2]
  ELSE [eta |-> 1 + s.eta, f |-> s.f, g |-> (s.g + (s.g % 2) * s.f) \div 2]

DivSteps(s, n) ==
  LET after[k \in 0 .. n] == IF k = 0 THEN s ELSE DivStep(after[k - 1])
  IN  after[n]

\* A jump, computed from n bits in limb words and several bits at a time, is
\* exactly n division steps on f and g: no limb and no extended word wraps,
\* and the shift by n loses nothing.
JumpIsDivSteps ==
  [][pc = "apply" =>
       [eta |-> eta', f |-> f', g |-> g'] = DivSteps([eta |-> eta, f |-> f, g |-> g], attr.n)]_vars

\* Between jumps f and g are the input times d and e, up to the factor the
\* result is to have, and the correction keeps d and e between -2m and m,
\* where the two conditional additions at the end normalise them.
Factor == IF isMont THEN RSquared ELSE 1
BezoutKept ==
  pc = "loop" =>
    /\ (d * input - f * Factor) % attr.m = 0
    /\ (e * input - g * Factor) % attr.m = 0
    /\ \A x \in {d, e} : -2 * attr.m < x /\ x < attr.m

\* Both at once: every word fits its width without a slack, and the two pairs
\* keep Bezout's relation to the input.
PairsKept == TypeOK /\ BezoutKept

\* The result is the inverse, in Montgomery form if the input is, or zero when
\* there is none.
Inverses == {x \in 0 .. attr.m - 1 : (x * input) % attr.m = Factor % attr.m}
HasInverse == \E x \in 0 .. attr.m - 1 : (x * input) % attr.m = 1
Inverted ==
  pc = "done" => IF HasInverse THEN result \in Inverses ELSE result = 0

\* Every input is answered: each round of a jump drops a bit of g at least,
\* and the jumps end.
Terminates == <>(pc = "done")
=============================================================================
