------------------------ MODULE MCReassociateFieldAdd ------------------------
(***************************************************************************)
(* All functions of a few operations on one argument.                      *)
(***************************************************************************)
EXTENDS ReassociateFieldAdd

Plus(a, b) == [kind |-> "add", operands |-> <<a, b>>]
Apply(a) == [kind |-> "op", operands |-> <<a>>]

\* An addition's operands are in ascending order: the other order only turns
\* a tree around.
Operation(n) ==
  LET Earlier == 1 .. NumArgs + n - 1
  IN  {Apply(a) : a \in Earlier}
        \cup {Plus(p[1], p[2]) : p \in {q \in Earlier \X Earlier : q[1] <= q[2]}}

AllBodies[n \in 0 .. 5] ==
  IF n = 0 THEN {<<>>} ELSE {Append(b, o) : b \in AllBodies[n - 1], o \in Operation(n)}

\* One block of five operations, or two blocks of four against the order.
MCFunctions == [body : AllBodies[5], split : {0}, inOrder : {TRUE}]
               \cup [body : AllBodies[4], split : 1 .. 3, inOrder : {FALSE}]
=============================================================================
