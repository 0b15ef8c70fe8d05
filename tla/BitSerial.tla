------------------------------ MODULE BitSerial ------------------------------
(***************************************************************************)
(* generateBitSerialLoop: the binary method, lowest bit first, behind      *)
(* field.powui, elliptic_curve.scalar_mul and the cyclotomic power of the  *)
(* pairing.                                                                *)
(*                                                                         *)
(* A scalar that is a constant is unrolled when the program is compiled,   *)
(* any other becomes a loop.  Both take the same steps, except that a      *)
(* constant zero takes none.                                               *)
(*                                                                         *)
(* base is formal: a value is the multiple of base that it stands for, so  *)
(* that doubleOp doubles it and accumulateOp adds.  What holds here holds  *)
(* for squares and products of a field and for doubles and sums of points. *)
(***************************************************************************)
EXTENDS Integers

CONSTANT Scalar   \* the scalars that occur

ASSUME ScalarAssumption == Scalar \subseteq Nat

VARIABLES
  scalar,    \* the operand
  constant,  \* an arith.constant defines it
  rest,      \* the bits that are left: currScalar, or args[0] of the loop
  factor,    \* base doubled: factor, or args[1]
  result,    \* args[2]
  pc         \* "test" the lowest bit, at the loop's "head", or "done"

vars == <<scalar, constant, rest, factor, result, pc>>

InitFrom(s) == /\ scalar = s /\ rest = s
               /\ factor = 1 /\ result = 0
               /\ pc = "test"

Init == /\ constant \in BOOLEAN
        /\ \E s \in Scalar : InitFrom(s)

\* generateConstantUnrolled of zero
ReturnIdentity ==
  /\ pc = "test" /\ constant /\ rest = 0
  /\ pc' = "done"
  /\ UNCHANGED <<scalar, constant, rest, factor, result>>

\* Mutant of TestBit: the scalar is shifted before its bit is tested.
ShiftThenTest ==
  /\ pc = "test" /\ (constant => rest > 0)
  /\ rest' = rest \div 2
  /\ result' = IF rest' % 2 = 1 THEN result + factor ELSE result
  /\ pc' = "head"
  /\ UNCHANGED <<scalar, constant, factor>>

\* Accumulate if the lowest bit is set, then shift.
TestBit ==
  /\ pc = "test" /\ (constant => rest > 0)
  /\ result' = IF rest % 2 = 1 THEN result + factor ELSE result
  /\ rest' = rest \div 2
  /\ pc' = "head"
  /\ UNCHANGED <<scalar, constant, factor>>

\* Bits are left.
Double ==
  /\ pc = "head" /\ rest > 0
  /\ factor' = 2 * factor
  /\ pc' = "test"
  /\ UNCHANGED <<scalar, constant, rest, result>>

Stop ==
  /\ pc = "head" /\ rest = 0
  /\ pc' = "done"
  /\ UNCHANGED <<scalar, constant, rest, factor, result>>

Terminated == pc = "done" /\ UNCHANGED vars

Next == ReturnIdentity \/ TestBit \/ Double \/ Stop \/ Terminated
Spec == Init /\ [][Next]_vars

-----------------------------------------------------------------------------
\* The type invariant.
TypeOK ==
  /\ scalar \in Nat /\ constant \in BOOLEAN
  /\ rest \in 0 .. scalar
  /\ factor \in Nat \ {0} /\ result \in 0 .. scalar
  /\ pc \in {"test", "head", "done"}

\* What the loop carries: result, and the bits that are left at their weight.
Weight == IF pc = "test" THEN factor ELSE 2 * factor
Carried == result + rest * Weight = scalar

\* Both forms end in the multiple of base that the scalar names.
Multiplied == pc = "done" => result = scalar

\* No doubling is emitted, or executed, that no later sum can use: the last
\* factor is the scalar's highest bit.
NoWastedDouble == factor = 1 \/ factor <= scalar
=============================================================================
