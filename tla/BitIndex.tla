------------------------------- MODULE BitIndex -------------------------------
(* Bits of an index: llvm.bitreverse and APInt::reverseBits on width bits. *)
EXTENDS Integers

ReverseBits(x, width) ==
  LET low[k \in 0 .. width] ==
        IF k = 0 THEN 0 ELSE 2 * low[k - 1] + ((x \div 2^(k - 1)) % 2)
  IN  low[width]
=============================================================================
