------------------------------ MODULE CurveProgram ------------------------------
(***************************************************************************)
(* A program over the points of a curve, canonicalized, verified and       *)
(* lowered to field operations: every step rewrites the expression, until  *)
(* a value is left.                                                        *)
(***************************************************************************)
EXTENDS CurvePatterns, SequencesExt

CONSTANT Programs   \* the units that are compiled: options and an expression

VARIABLES
  unit,     \* the program and the options
  expr,     \* what is left of its expression
  phase,    \* canonicalize, lower, and done, rejected, failed or unresolved
  applied,  \* the names of the patterns applied
  declared  \* the functions the module declares: name, operands and result

vars == <<unit, expr, phase, applied, declared>>

TypeCorrect(e) == Verified(e) /\ e.kind = unit.expr.kind

Init ==
  /\ unit \in Programs
  /\ verifyCurve(unit) /\ Verified(unit.expr)
  /\ expr = unit.expr
  /\ phase = "canonicalize"
  /\ applied = {}
  /\ declared = {}

-----------------------------------------------------------------------------
(* Canonicalization *)

canonicalize ==
  /\ phase = "canonicalize"
  /\ \E r \in Rewrites(unit, expr) : expr' = r[2] /\ applied' = applied \cup {r[1]}
  /\ UNCHANGED <<unit, phase, declared>>
(* The patterns are applied until none is left, and the verifier runs. *)
verify ==
  /\ phase = "canonicalize"
  /\ Rewrites(unit, expr) = {}
  /\ phase' = IF TypeCorrect(expr) THEN "lower" ELSE "rejected"
  /\ UNCHANGED <<unit, expr, applied, declared>>

-----------------------------------------------------------------------------
(* The runtime library *)

shouldUseAOTRuntime(u, e) ==
  /\ u.mode # "inline"
  /\ ~(u.inlineConstOps /\ hasConstantOperand(e))
  /\ u.mode = "aot_runtime" \/ u.extension
UsesAOT(u, e) == shouldUseAOTRuntime(u, e) /\ getKnownCurveAlias(u) # ""

(* The functions of the library, with their operands and their result; every *)
(* curve has them in both forms, and the scalar is in the form of the curve.  *)
ScalarType(mont) == IF mont THEN "SFm" ELSE "SF"
Library(u) ==
  {<<<<"add", k>>, <<k, k>>, k>> : k \in {"jacobian", "xyzz"}}
  \cup {<<<<"double", k>>, <<k>>, k>> : k \in {"jacobian", "xyzz"}}
  \cup {<<<<"mixed_add", k>>, <<k, "affine">>, k>> : k \in {"jacobian", "xyzz"}}
  \cup {<<<<"add", "affine", "jacobian">>, <<"affine", "affine">>, "jacobian">>,
        <<<<"double", "affine", "jacobian">>, <<"affine">>, "jacobian">>,
        <<<<"scalar_mul", "jacobian">>, <<ScalarType(u.mont), "affine">>, "jacobian">>,
        <<<<"scalar_mul_jac", "jacobian">>, <<ScalarType(u.mont), "jacobian">>, "jacobian">>}
  \cup {<<<<"convert", k[1], k[2]>>, <<k[1]>>, k[2]>> :
          k \in {<<"jacobian", "affine">>, <<"xyzz", "affine">>, <<"affine", "jacobian">>, <<"affine", "xyzz">>}}
InLibrary(u, name) == \E f \in Library(u) : f[1] = name

getAOTRuntimeFuncName(op, out) == <<op, out>>
getCrossTypeAOTFuncName(op, in, out) == <<op, in, out>>
getConvertFuncName(in, out) == <<"convert", in, out>>

Value(kind, coords) == Leaf(<<"value">>, kind, kind, coords, FALSE)
Values(u, kind, element) == {Value(kind, coords) : coords \in Points(u, kind, element)}
AddFuncName(k, l, out) ==
  CASE k = l /\ k = out -> getAOTRuntimeFuncName("add", out)
    [] k = l /\ k # out -> getCrossTypeAOTFuncName("add", k, out)
    [] OTHER -> getAOTRuntimeFuncName("mixed_add", out)
DoubleFuncName(k, out) ==
  IF k = out THEN getAOTRuntimeFuncName("double", out) ELSE getCrossTypeAOTFuncName("double", k, out)
ScalarMulFuncName(k, out) == getAOTRuntimeFuncName(IF isAffine(k) THEN "scalar_mul" ELSE "scalar_mul_jac", out)

(* The function an operation calls, with the types of the operands as they    *)
(* are in the program. It is found by its name.                               *)
Calls(u, e) ==
  /\ e.op \in {"add", "double", "scalar_mul", "convert"} /\ e.args[1].op # "tensor"
  /\ UsesAOT(u, e)
Callee(u, e) ==
  LET k == [i \in DOMAIN e.args |-> e.args[i].kind]
  IN  <<CASE e.op = "add" -> AddFuncName(k[1], k[2], e.kind)
          [] e.op = "double" -> DoubleFuncName(k[1], e.kind)
          [] e.op = "scalar_mul" -> ScalarMulFuncName(k[1], e.kind)
          [] e.op = "convert" -> getConvertFuncName(k[1], e.kind),
        IF e.op = "scalar_mul" THEN <<ScalarType(u.scalarMont)>> \o k ELSE k,
        e.kind>>
(* The function that is linked reads the words of its operands as its own     *)
(* types have them. A scalar it takes for one in the form of the curve (the   *)
(* element has been computed so); points of other kinds make any point.       *)
emitAOTFuncCall(u, e, element) ==
  IF Callee(u, e) \in Library(u) \/ e.op = "scalar_mul" THEN Values(u, e.kind, element)
  ELSE UNION {Values(u, e.kind, any) : any \in Elements[u.curve]}

-----------------------------------------------------------------------------
(* The lowering of an operation whose operands are values *)

ArgElement(u, e, i) == ElementOf(u, e.args[i])
ArgKind(e, i) == e.args[i].kind

(* A formula gives its result in its own kind, and that is converted. *)
PointConvert(u, value, out) ==
  IF value.kind = out THEN {value} ELSE Values(u, out, ElementOf(u, value))
Converted(u, values, out) == UNION {PointConvert(u, value, out) : value \in values}
PointAdd(u, x, y, out) ==
  Converted(u, Values(u, SumKind(x.kind, y.kind, out), GroupSum[u.curve][<<ElementOf(u, x), ElementOf(u, y)>>]), out)
PointDouble(u, x, out) ==
  Converted(u, Values(u, DoubleKind(x.kind, out), GroupSum[u.curve][<<ElementOf(u, x), ElementOf(u, x)>>]), out)

ConvertAdd(u, e) ==
  IF UsesAOT(u, e)
  THEN emitAOTFuncCall(u, e, GroupSum[u.curve][<<ArgElement(u, e, 1), ArgElement(u, e, 2)>>])
  ELSE PointAdd(u, e.args[1], e.args[2], e.kind)
ConvertDouble(u, e) ==
  IF UsesAOT(u, e)
  THEN emitAOTFuncCall(u, e, GroupSum[u.curve][<<ArgElement(u, e, 1), ArgElement(u, e, 1)>>])
  ELSE PointDouble(u, e.args[1], e.kind)
ConvertSub(e) == {CreateAddOp(e, e.args[1], Node("negate", ArgKind(e, 2), <<e.args[2]>>))}

NegatedCoords(kind) ==
  CASE kind = "ed_affine" -> {1}
    [] kind = "ed_extended" -> {1, 4}
    [] kind \in {"affine", "jacobian", "xyzz"} -> {2}
(* Mutant: the rule of short Weierstrass curves for every other kind. *)
NegateElse(u, e) ==
  LET x == e.args[1].data.coords
      negated == IF e.kind = "ed_affine" THEN {1} ELSE {2}
  IN  {Value(e.kind, [i \in DOMAIN x |-> IF i \in negated THEN FieldNegate(u, x[i]) ELSE x[i]])}
ConvertNegate(u, e) ==
  LET x == e.args[1].data.coords
  IN  {Value(e.kind, [i \in DOMAIN x |-> IF i \in NegatedCoords(e.kind) THEN FieldNegate(u, x[i]) ELSE x[i]])}

Truth(value) == {With(Node("bool", "i1", <<>>), [value |-> value])}
ConvertIsZero(u, e) ==
  LET x == e.args[1].data.coords
      zero == createFieldZero(u)
  IN  Truth(CASE ArgKind(e, 1) = "affine" -> x[1] = zero /\ x[2] = zero
              [] ArgKind(e, 1) = "ed_affine" -> x[1] = zero /\ x[2] = createFieldOne(u)
              [] ArgKind(e, 1) = "ed_extended" -> x[1] = zero /\ x[2] = x[3]
              [] ArgKind(e, 1) \in {"jacobian", "xyzz"} -> x[3] = zero)
(* Points are compared by their coordinates. *)
ConvertCmp(e) ==
  LET x == e.args[1].data.coords
      y == e.args[2].data.coords
  IN  Truth(IF e.op = "eq" THEN \A i \in DOMAIN x : x[i] = y[i] ELSE \E i \in DOMAIN x : x[i] # y[i])

(* The product by a scalar, of which the bits are taken one at a time, from   *)
(* the lowest: the loop's node has the point to be doubled and the sum so far.*)
fieldPrimeToInteger(u, s) == Residue(u.scalarMont, u.curve.r, s.word)
generateBitSerialLoop(e) ==
  LET n == e.data.n
      base == e.args[1]
      acc == IF n % 2 = 1 THEN CreateAddOp(e, e.args[2], base) ELSE e.args[2]
  IN  {IF n <= 1 THEN acc
       ELSE With(Node("loop", e.kind, <<CreateDoubleOp(e, base), acc>>), [n |-> n \div 2])}
ConvertScalarMul(u, e) ==
  LET initialPoint == IF isAffine(ArgKind(e, 1)) THEN Node("convert", e.kind, e.args) ELSE e.args[1]
  IN  IF UsesAOT(u, e)
      THEN emitAOTFuncCall(u, e, GroupMultiple[u.curve][ArgElement(u, e, 1)][Residue(u.mont, u.curve.r, e.data.word)])
      ELSE {With(Node("loop", e.kind, <<initialPoint, Value(e.kind, createZeroPoint(u, e.kind))>>),
                 [n |-> fieldPrimeToInteger(u, e.data)])}

-----------------------------------------------------------------------------
(* Conversions, and the tensors of points *)

Tensor(kind, points, constant) == With(Node("tensor", kind, <<>>), [points |-> points, constant |-> constant])

(* The words of a constant are laid out flat and cut into points again. *)
bitcast(kind, flat) ==
  LET n == getNumCoords(kind)
  IN  [i \in 1..Len(flat) \div n |-> SubSeq(flat, (i - 1) * n + 1, i * n)]
ConvertConstant(e) == {Tensor(e.kind, bitcast(e.kind, FlattenSeq(e.data.points)), FALSE)}

(* One zero makes every inverse of a batch zero. *)
InverseOp(u, column) ==
  IF u.batch /\ \E i \in DOMAIN column : column[i] = 0 THEN [i \in DOMAIN column |-> 0]
  ELSE [i \in DOMAIN column |-> FieldInverse(u, column[i])]
AffineFromJacobian(u, x, zInv) ==
  LET zInv2 == FieldMul(u, zInv, zInv)
  IN  <<FieldMul(u, x[1], zInv2), FieldMul(u, x[2], FieldMul(u, zInv2, zInv))>>
AffineFromXYZZ(u, x, zInvCubic) ==
  LET zInv == FieldMul(u, zInvCubic, x[3])
  IN  <<FieldMul(u, x[1], FieldMul(u, zInv, zInv)), FieldMul(u, x[2], zInvCubic)>>
(* Mutant: the inverse of the cube is taken for that of the square. *)
rewriteTensorCubed(u, e) ==
  LET x == e.args[1].data.points
      inverses == InverseOp(u, [i \in DOMAIN x |-> x[i][IF ArgKind(e, 1) = "jacobian" THEN 3 ELSE 4]])
  IN  {Tensor(e.kind, [i \in DOMAIN x |->
                        IF ArgKind(e, 1) = "jacobian" THEN AffineFromJacobian(u, x[i], inverses[i])
                        ELSE <<FieldMul(u, x[i][1], inverses[i]), FieldMul(u, x[i][2], inverses[i])>>], FALSE)}
rewriteTensorToAffine(u, e) ==
  LET x == e.args[1].data.points
      inverses == InverseOp(u, [i \in DOMAIN x |-> x[i][IF ArgKind(e, 1) = "jacobian" THEN 3 ELSE 4]])
  IN  {Tensor(e.kind, [i \in DOMAIN x |->
                        IF ArgKind(e, 1) = "jacobian" THEN AffineFromJacobian(u, x[i], inverses[i])
                        ELSE AffineFromXYZZ(u, x[i], inverses[i])], FALSE)}

TensorLeaf(e, i) == Value(ArgKind(e, 1), e.args[1].data.points[i])
ConvertTensor(u, e) ==
  LET x == e.args[1].data.points
  IN  CASE Len(x) = 1 -> {Node("from_elements", e.kind, <<Node("convert", e.kind, <<TensorLeaf(e, 1)>>)>>)}
        [] Len(x) > 1 /\ e.kind = "affine" -> rewriteTensorToAffine(u, e)
        [] OTHER -> {Tensor(e.kind, [i \in DOMAIN x |-> Represent(u, e.kind, ElementOf(u, TensorLeaf(e, i)), z)], FALSE) :
                       z \in IF isAffine(e.kind) THEN {1} ELSE Scales}
ConvertConvertPointType(u, e) ==
  IF e.args[1].op = "tensor" THEN ConvertTensor(u, e)
  ELSE IF UsesAOT(u, e)
  THEN emitAOTFuncCall(u, e, ArgElement(u, e, 1))
  ELSE PointConvert(u, [e.args[1] EXCEPT !.data.constant = FALSE], e.kind)

(* The sum over the buckets is a component of its own. *)
SumOfProducts(u, elements, scalars) ==
  FoldLeft(LAMBDA sum, i : GroupSum[u.curve][<<sum, GroupMultiple[u.curve][elements[i]][scalars[i]]>>],
           GroupZero(u.curve), [i \in DOMAIN elements |-> i])
ElementsOf(u, tensor) == [i \in DOMAIN tensor.data.points |-> Meaning(u, tensor.kind, tensor.data.points[i])]
ConvertMSM(u, e) ==
  Values(u, e.kind, SumOfProducts(u, ElementsOf(u, e.args[1]),
                                  [i \in DOMAIN e.data.scalars |-> fieldPrimeToInteger(u, [word |-> e.data.scalars[i]])]))

Settled(e) == e.op \in {"leaf", "bool"} \/ (e.op = "tensor" /\ ~e.data.constant)
Lower(u, e) ==
  CASE e.op = "add" -> ConvertAdd(u, e)
    [] e.op = "sub" -> ConvertSub(e)
    [] e.op = "double" -> ConvertDouble(u, e)
    [] e.op = "negate" -> ConvertNegate(u, e)
    [] e.op = "scalar_mul" -> ConvertScalarMul(u, e)
    [] e.op = "loop" -> generateBitSerialLoop(e)
    [] e.op = "convert" -> ConvertConvertPointType(u, e)
    [] e.op = "is_zero" -> ConvertIsZero(u, e)
    [] e.op \in {"eq", "ne"} -> ConvertCmp(e)
    [] e.op = "tensor" -> ConvertConstant(e)
    [] e.op = "from_elements" -> {Tensor(e.kind, <<e.args[1].data.coords>>, FALSE)}
    [] e.op = "msm" -> ConvertMSM(u, e)
(* The operations are lowered in the order in which they run. *)
Unsettled(e) == CHOOSE i \in DOMAIN e.args : ~Settled(e.args[i]) /\ \A j \in 1..i - 1 : Settled(e.args[j])
Ready(e) == \A i \in DOMAIN e.args : Settled(e.args[i])
RECURSIVE NextOp(_)
NextOp(e) == IF Ready(e) THEN e ELSE NextOp(e.args[Unsettled(e)])
RECURSIVE Lowered(_, _)
Lowered(u, e) ==
  IF Ready(e) THEN Lower(u, e)
  ELSE {[e EXCEPT !.args[Unsettled(e)] = lowered] : lowered \in Lowered(u, e.args[Unsettled(e)])}

(* A constant becomes a point of its type only if it has its coordinates. *)
RECURSIVE WellSized(_)
WellSized(e) ==
  /\ \A i \in DOMAIN e.args : WellSized(e.args[i])
  /\ e.op = "leaf" => Len(e.data.coords) = getNumCoords(e.kind)

Calling == phase = "lower" /\ ~Settled(expr) /\ Calls(unit, NextOp(expr))
(* A function is declared with the types of its first call. *)
NewDeclared == IF Calling THEN declared \cup {Callee(unit, NextOp(expr))} ELSE declared
Redeclared == \E f, g \in NewDeclared : f[1] = g[1] /\ f # g
Undefined == \E f \in NewDeclared : ~InLibrary(unit, f[1])

lower ==
  /\ phase = "lower" /\ ~Settled(expr)
  /\ WellSized(expr) /\ ~Redeclared /\ ~Undefined
  /\ expr' \in Lowered(unit, expr)
  /\ phase' = IF Settled(expr') THEN "done" ELSE "lower"
  /\ declared' = NewDeclared
  /\ UNCHANGED <<unit, applied>>
finish ==
  /\ phase = "lower" /\ Settled(expr) /\ WellSized(expr)
  /\ phase' = "done"
  /\ UNCHANGED <<unit, expr, applied, declared>>
(* The point made of a constant, or the call made, is refused. *)
fail ==
  /\ phase = "lower"
  /\ ~WellSized(expr) \/ Redeclared
  /\ phase' = "failed"
  /\ UNCHANGED <<unit, expr, applied, declared>>
(* The program calls a function that no library has: there is nothing to run. *)
link ==
  /\ phase = "lower" /\ WellSized(expr) /\ ~Redeclared
  /\ Undefined
  /\ phase' = "unresolved"
  /\ declared' = NewDeclared
  /\ UNCHANGED <<unit, expr, applied>>

Next == canonicalize \/ verify \/ lower \/ finish \/ fail \/ link

(* A pass runs until it is done. *)
Spec == Init /\ [][Next]_vars /\ WF_vars(Next)

-----------------------------------------------------------------------------
(* Properties *)

(* The elements an expression stands for. *)
RECURSIVE Denotation(_, _)
Denotation(u, e) ==
  LET Arg(i) == Denotation(u, e.args[i])
      Times(n, element) == GroupMultiple[u.curve][element][n]
      Plus(P, Q) == GroupSum[u.curve][<<P, Q>>]
  IN  CASE e.op = "leaf" -> ElementOf(u, e)
        [] e.op = "tensor" -> ElementsOf(u, e)
        [] e.op = "bool" -> e.data.value
        [] e.op = "add" -> Plus(Arg(1), Arg(2))
        [] e.op = "sub" -> Plus(Arg(1), Opposite(u.curve, Arg(2)))
        [] e.op = "negate" -> Opposite(u.curve, Arg(1))
        [] e.op = "double" -> Plus(Arg(1), Arg(1))
        [] e.op = "scalar_mul" -> Times(Residue(u.scalarMont, u.curve.r, e.data.word), Arg(1))
        [] e.op = "loop" -> Plus(Times(e.data.n, Arg(1)), Arg(2))
        [] e.op = "convert" -> Arg(1)
        [] e.op = "from_elements" -> <<Arg(1)>>
        [] e.op = "is_zero" -> Arg(1) = GroupZero(u.curve)
        [] e.op = "eq" -> Arg(1) = Arg(2)
        [] e.op = "ne" -> Arg(1) # Arg(2)
        [] e.op = "msm" -> SumOfProducts(u, Arg(1), [i \in DOMAIN e.data.scalars |->
                                                      Residue(u.scalarMont, u.curve.r, e.data.scalars[i])])
Meant == Denotation(unit, unit.expr)
OfTensors == unit.expr.op = "convert" /\ unit.expr.args[1].op = "tensor"
(* Equal points have equal coordinates in the affine kinds alone. *)
Coordinatewise == unit.expr.op \in {"eq", "ne"} /\ ~isAffine(unit.expr.args[1].kind)

(* The calls of functions that take their operands otherwise. *)
Misread == {f \in declared \ Library(unit) : InLibrary(unit, f[1])}
Swapped(f) == \E g \in Library(unit) : f = <<g[1], Reverse(g[2]), g[3]>>
ScalarReinterpreted(f) == unit.scalarMont # unit.mont /\ f \in Library([unit EXCEPT !.mont = unit.scalarMont])

(* Whatever is rewritten, folded, called from the library or expanded, in     *)
(* whichever order: the program keeps standing for the point it was written   *)
(* for, as long as every function called takes its operands as it is called.  *)
(* The only ones that do not take them so are a mixed addition, called with   *)
(* its operands swapped, and a product by a scalar in another form than the   *)
(* coordinates. Of projective points the comparison only finds the ones that  *)
(* differ.                                                                    *)
MeaningKept ==
  /\ Misread = {} =>
       /\ ~OfTensors /\ ~(Coordinatewise /\ expr.op = "bool") => Denotation(unit, expr) = Meant
       /\ Coordinatewise /\ expr.op = "bool" /\ Meant # (unit.expr.op = "eq") => expr.data.value = Meant
  /\ \A f \in Misread : Swapped(f) \/ ScalarReinterpreted(f)

(* A program that was verified is refused after the canonicalizer only where  *)
(* that replaced a projective result by an affine operand. A constant that is *)
(* no point of its type, which the conversion refuses, comes only of folding  *)
(* the double of an affine point to an affine one.                            *)
Narrowing == {"AddAfterSub", "SubLhsAfterAdd", "SubRhsAfterAdd", "SubLhsAfterSub"}
RECURSIVE DoublesInAffine(_)
DoublesInAffine(e) ==
  (e.op = "double" /\ isAffine(e.kind) /\ IsConstant(e.args[1])) \/ \E i \in DOMAIN e.args : DoublesInAffine(e.args[i])
StaysTyped ==
  /\ phase = "rejected" => applied \cap Narrowing # {}
  /\ phase = "canonicalize" /\ applied \cap Narrowing = {} => TypeCorrect(expr)
  /\ ~WellSized(expr) => DoublesInAffine(unit.expr)

(* The points of a tensor are converted one by one, unless the inverses are   *)
(* taken in a batch that has a point at infinity: then all become infinite.   *)
BatchExact ==
  OfTensors =>
    LET x == unit.expr.args[1]
        spoilt == /\ expr.op = "tensor" /\ expr.kind = "affine" /\ phase = "done"
                  /\ unit.batch /\ Len(x.data.points) > 1
                  /\ GroupZero(unit.curve) \in {Meant[i] : i \in DOMAIN Meant}
    IN  Denotation(unit, expr) = IF spoilt THEN [i \in DOMAIN Meant |-> GroupZero(unit.curve)] ELSE Meant

(* The patterns do not undo one another, and every operation is lowered. *)
Terminates == <>(phase \in {"done", "rejected", "failed", "unresolved"})
=============================================================================
