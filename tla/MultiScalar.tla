----------------------------- MODULE MultiScalar -----------------------------
(***************************************************************************)
(* What elliptic_curve.msm promises: one result, the sum of the points     *)
(* each multiplied by its scalar.  A point of the group generated by the   *)
(* operands is its vector of coefficients, one for every operand, so that  *)
(* the sum of scalars[t] times operand t is the vector scalars itself.     *)
(***************************************************************************)
CONSTANT None

VARIABLES scalars, result

Init == result = None

Multiply == /\ result = None
            /\ result' = scalars
            /\ UNCHANGED scalars

Spec == Init /\ [][Multiply]_<<scalars, result>>
=============================================================================
