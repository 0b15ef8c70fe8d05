---------------------------- MODULE MCPippengers ----------------------------
(* The bucket algorithm on two scalars of five bits.  Parallel windows have  *)
(* two bits; serial ones have two, four or five, or what the estimate gives  *)
(* for two points and for 64: one bit and three.                             *)
EXTENDS Pippengers, TLC

MCAttributes ==
  [parallel: {TRUE}, windowBits: {2}, degree: {0}] \cup
  [parallel: {FALSE}, windowBits: {0, 2, 4, 5}, degree: {1, 6}]
=============================================================================
