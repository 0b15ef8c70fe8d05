------------------------------- MODULE FieldFolds -------------------------------
(***************************************************************************)
(* What the compiler makes of operations of the field dialect whose        *)
(* operands are constants, and which extension types it lets through.      *)
(***************************************************************************)
EXTENDS ExtensionFields

Predicates == {"eq", "ne", "ult", "ule", "ugt", "uge"}
CmpVerified(predicate, t) == t.kind = "ef" => predicate \in {"eq", "ne"}

(* The attributes hold values of the type's form, which the folders of        *)
(* arithmetic take unchecked; the comparison of a prime field constructs its  *)
(* operands from them as if they were standard residues.                      *)
foldUnaryOp(op, t, a) == Unary("fold", op, t, a)
foldBinaryOp(op, shape, t, a, b) == Binary("fold", op, shape, t, a, b)
PrimeFieldCmpOperate(predicate, t, a, b) ==
  PrimeCompare(predicate, t, PrimeFieldOperation(a, t), PrimeFieldOperation(b, t))
ExtensionFieldCmpOperate(predicate, t, a, b) == IF predicate = "eq" THEN a = b ELSE a # b
foldCmpOp(predicate, t, a, b) ==
  IF t.kind = "pf" THEN PrimeFieldCmpOperate(predicate, t, a, b)
  ELSE ExtensionFieldCmpOperate(predicate, t, a, b)

(* A constant on the right alone folds only if it is neutral or absorbing,    *)
(* and only when both operands are of one type.                               *)
AdditiveFolder(t, a, b) == IF b = Zero(t) THEN {a} ELSE {}
(* Mutant: one is not brought to the form of the type. *)
MultiplicativeFolderRawOne(t, a, b) ==
  IF b = Zero(t) THEN {b} ELSE IF b = Scalar(1, t) THEN {a} ELSE {}
MultiplicativeFolder(t, a, b) ==
  IF b = Zero(t) THEN {b} ELSE IF b = FieldOfScalar(1, t) THEN {a} ELSE {}
FoldsAlone(op, shape, t, a, b) ==
  CASE shape # "same" -> {}
    [] op \in {"add", "sub"} -> AdditiveFolder(t, a, b)
    [] op = "mul" -> MultiplicativeFolder(t, a, b)

(* Every value that folding may put in the place of the operation. *)
Folded(op, shape, t, a, b) ==
  CASE op \in {"add", "sub", "mul"} -> {foldBinaryOp(op, shape, t, a, b)} \cup FoldsAlone(op, shape, t, a, b)
    [] op \in {"negate", "double", "square", "inverse"} -> {foldUnaryOp(op, t, a)}
    [] op \in {"to_mont", "from_mont"} -> {convertMont(t, a)}
    [] op \in Predicates -> {foldCmpOp(op, t, a, b)}

-----------------------------------------------------------------------------
(* The verifier of an extension type *)

kMaxExtDegree == 4
Order(t) == getBasePrimeField(t).p ^ getDegreeOverPrime(t)

(* Mutant: the order is that of the prime field, whatever the base. *)
verifyOverPrime(t) ==
  /\ t.degree \in 2..kMaxExtDegree
  /\ IF hasGeneralModulus(t) THEN Len(t.nonResidue) = t.degree
     ELSE power(t.base, fromUnchecked(t.nonResidue, t.base), (getBasePrimeField(t).p - 1) \div t.degree) # One(t.base)

(* A binomial x^n = nr is refused if nr is an n-th power by Euler's test,     *)
(* with an exponent rounded down; a general modulus is taken on trust.        *)
verify(t) ==
  /\ t.degree \in 2..kMaxExtDegree
  /\ IF hasGeneralModulus(t) THEN Len(t.nonResidue) = t.degree
     ELSE power(t.base, fromUnchecked(t.nonResidue, t.base), (Order(t.base) - 1) \div t.degree) # One(t.base)
=============================================================================
