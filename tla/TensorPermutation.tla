-------------------------- MODULE TensorPermutation --------------------------
(***************************************************************************)
(* What tensor_ext.bit_reverse promises: the result, which nobody sees     *)
(* before it is complete, is the source permuted along one dimension.      *)
(***************************************************************************)
CONSTANTS Index, Rest, Rev, Input, Unwritten

VARIABLE result

Init == result = Unwritten

Reverse == /\ result = Unwritten
           /\ result' = [c \in Index \X Rest |-> Input[<<Rev[c[1]], c[2]>>]]

Spec == Init /\ [][Reverse]_result
=============================================================================
