----------------------------- MODULE MCBitReverse -----------------------------
(* A dimension of 2^Bits elements that are all different. *)
EXTENDS BitReverse, BitIndex, TLC

CONSTANT Bits

MCIndex == 0 .. 2^Bits - 1
MCRev   == [k \in MCIndex |-> ReverseBits(k, Bits)]
MCInput == [c \in MCIndex \X Rest |-> c]
=============================================================================
