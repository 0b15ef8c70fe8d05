------------------------------ MODULE ArithWords ------------------------------
(***************************************************************************)
(* The operations of MLIR's arith dialect that the lowering emits, on      *)
(* words of one storage width.  A word is its unsigned value; WordSize is  *)
(* 2^w, at least 2.  The dialect is outside this repository and is         *)
(* modelled from the way ModArithToArith uses it.                          *)
(***************************************************************************)
EXTENDS Integers

CONSTANT WordSize

Word == 0 .. WordSize - 1

AddI(x, y) == (x + y) % WordSize
SubI(x, y) == (x - y) % WordSize
MulI(x, y) == (x * y) % WordSize

\* arith.addui_extended: the sum and the carry, as numbers.
AddSum(x, y) == (x + y) % WordSize
AddCarry(x, y) == (x + y) \div WordSize

\* The two halves of a (possibly negative) double word.
Low(t)  == t % WordSize
High(t) == (t \div WordSize) % WordSize

\* The two's complement reading of a word.
Signed(x) == IF 2 * x >= WordSize THEN x - WordSize ELSE x

ShrUI(x, k) == x \div 2^k
ShlI(x, k)  == (x * 2^k) % WordSize

MinUI(x, y) == IF x <= y THEN x ELSE y

\* nuw and nsw on an addition or a shift left by one.
UnsignedWraps(exact) == exact >= WordSize
SignedWraps(x, y) == LET s == Signed(x) + Signed(y)
                     IN  2 * s >= WordSize \/ 2 * s < -WordSize
=============================================================================
