------------------------------ MODULE MCMontRedc ------------------------------
(* Small words for MontRedc: limbs of two bits. *)
EXTENDS MontRedc

MCPow == [k \in 0 .. NL |-> B ^ k]
=============================================================================
