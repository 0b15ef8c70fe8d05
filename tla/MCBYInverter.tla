----------------------------- MODULE MCBYInverter -----------------------------
(* Odd moduli, prime or not, with the number of steps that BYAttr gives six  *)
(* bits, 24 steps being enough in 12 jumps, and with eight steps in the      *)
(* narrowest limb, the proportions of a modulus of 254 bits.                 *)
EXTENDS BYInverter

Odd(lo, hi) == {m \in lo .. hi : m % 2 = 1}

MCModuli ==
  [m : Odd(33, 63), width : {6}, n : {DivstepsOf(6)}, limb : {8}]
  \cup [m : Odd(33, 63), width : {6}, n : {8}, limb : {10}]
=============================================================================
