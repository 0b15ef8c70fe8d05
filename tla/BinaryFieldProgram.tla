-------------------------- MODULE BinaryFieldProgram --------------------------
(***************************************************************************)
(* A straight-line program over one binary field type, compiled for one    *)
(* target: every action is one operation of the field dialect on the value *)
(* computed so far and a further operand.                                  *)
(***************************************************************************)
EXTENDS BinaryFieldTargets

CONSTANTS
  Units,     \* what is compiled: records of a type, a target and a shape
  Operands,  \* for every type, the words a program may load
  Length     \* for every type, the number of operations of a program

VARIABLES
  unit,      \* the type, the target and the shape
  accepted,  \* the verifier's verdict on the type
  acc,       \* the storage word computed so far
  last,      \* the last operation, its operands and its result
  pending,   \* the last operation has not run yet
  left       \* operations that may still follow

vars == <<unit, accepted, acc, last, pending, left>>

Type == unit.type
Nothing == [op |-> "none", a |-> {}, b |-> {}, out |-> {}]

Init ==
  /\ unit \in Units
  /\ accepted = verify(unit.type)
  /\ acc \in Operands[unit.type]
  /\ last = Nothing
  /\ pending = FALSE
  /\ left = Length[unit.type]

(* The next operation of the program. *)
Operation(op, b) ==
  /\ accepted /\ left > 0 /\ ~pending
  /\ Compiles(unit.target, op, Type, unit.shape)
  /\ last' = [op |-> op, a |-> acc, b |-> b, out |-> {}]
  /\ pending' = TRUE
  /\ left' = left - 1
  /\ UNCHANGED <<unit, accepted, acc>>

ConvertBinaryFieldAdd == \E b \in Operands[Type] : Operation("add", b)
ConvertBinaryFieldSub == \E b \in Operands[Type] : Operation("sub", b)
ConvertBinaryFieldNegate == Operation("negate", {})
ConvertBinaryFieldDouble == Operation("double", {})
ConvertBinaryFieldMul == \E b \in Operands[Type] : Operation("mul", b)
ConvertBinaryFieldSquare == Operation("square", {})
ConvertBinaryFieldInverse == Operation("inverse", {})
ConvertCmp == \E predicate \in Predicates, b \in Operands[Type] : Operation(predicate, b)

(* The code emitted for it runs; a comparison leaves the value as it was. *)
Run ==
  /\ pending
  /\ last' = [last EXCEPT !.out = Emitted(unit.target, last.op, Type, unit.shape, last.a, last.b)]
  /\ acc' = IF last.op \in Predicates THEN acc ELSE last'.out
  /\ pending' = FALSE
  /\ UNCHANGED <<unit, accepted, left>>

(* An integer of the storage width is retagged, with whatever it holds above *)
(* the element.                                                              *)
ConvertBinaryFieldBitcast ==
  /\ accepted /\ left > 0 /\ last = Nothing
  /\ acc' \in {acc, acc \cup (BitWidth(Type)..StorageWidth(Type) - 1)}
  /\ left' = left - 1
  /\ UNCHANGED <<unit, accepted, last, pending>>

Next ==
  \/ ConvertBinaryFieldAdd \/ ConvertBinaryFieldSub
  \/ ConvertBinaryFieldNegate \/ ConvertBinaryFieldDouble
  \/ ConvertBinaryFieldMul \/ ConvertBinaryFieldSquare \/ ConvertBinaryFieldInverse
  \/ ConvertCmp \/ ConvertBinaryFieldBitcast \/ Run

Spec == Init /\ [][Next]_vars

-----------------------------------------------------------------------------
(* Properties *)

(* What an operation must return on elements a and b. *)
IsResult(op, type, a, b, out) ==
  CASE op \in {"add", "sub"} -> out = XOr(a, b)
    [] op = "negate" -> out = a
    [] op = "double" -> out = {}
    [] op = "mul" -> out = Product(type, a, b)
    [] op = "square" -> out = Product(type, a, a)
    [] op = "inverse" -> /\ out \subseteq 0..BitWidth(type) - 1
                         /\ IF a = {} THEN out = {} ELSE Product(type, a, out) = {0}
    [] op = "eq" -> (out = {0}) <=> (a = b)
    [] op = "ne" -> (out = {0}) <=> (a # b)
    [] OTHER -> TRUE

(* A comparison is right only on words that hold nothing above the element,    *)
(* which a bitcast does not guarantee.                                         *)
LastRight ==
  (last.op \in Predicates => ElementOf(Type, last.a) = last.a) =>
    IsResult(last.op, Type, ElementOf(Type, last.a), ElementOf(Type, last.b), last.out)
TookSpecialized == Specializes(unit.target, last.op, Type, unit.shape)

(* What BinaryFieldToArith emits computes the operation of the field, in every *)
(* basis, and leaves nothing above the element, so that later comparisons of   *)
(* whole storage words compare elements.                                       *)
PortableRight == ~pending /\ ~TookSpecialized => LastRight

(* The instructions a target's pass chooses compute the same product as the    *)
(* portable code they replace.                                                 *)
SpecializedRight == ~pending /\ TookSpecialized => LastRight

(* Folding an operation on constants never disagrees with running it: the      *)
(* folder's evaluator knows only towers and must leave flat products alone.    *)
FoldAgrees ==
  /\ ~pending /\ last.op \notin {"none"} \cup Predicates /\ Folds(last.op, Type)
  /\ last.op = "inverse" => Type.level <= 3
  => Fold(last.op, Type, last.a, last.b) = ElementOf(Type, last.out)

(* The verifier accepts a flat modulus of a small degree exactly when no       *)
(* polynomial divides it, so that every type it lets through is a field; and   *)
(* such a type prints as a text that parses back to it.                        *)
Divides(d, p) == Remainder(p, d) = {}
VerifierExact ==
  last.op = "none" =>
    /\ Type.isFlat /\ Type.level \in 1..3 =>
         LET n == BitWidth(Type)
         IN  accepted <=> /\ 0 \in Type.flatModLow
                          /\ 2 * Top(Type.flatModLow) <= n
                          /\ ~ \E d \in Words((n \div 2) + 1) :
                                 ActiveBits(d) > 1 /\ Divides(d, Type.flatModLow \cup {n})
    /\ accepted => parse(print(Type)) = Type
=============================================================================
