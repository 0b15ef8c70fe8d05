----------------------------- MODULE CurvePatterns -----------------------------
(***************************************************************************)
(* Expressions over the points of a curve, and what the canonicalizer does *)
(* to them: the patterns of an additive group, and the folding of          *)
(* operations on constants. A node is [op, kind, args, data]. A value that *)
(* is there already is a leaf; the coordinates in it are of the kind       *)
(* "form". A product by a scalar holds the scalar's name and stored word.  *)
(***************************************************************************)
EXTENDS CurvePoints

NoData == [none |-> 0]
Node(op, kind, args) == [op |-> op, kind |-> kind, args |-> args, data |-> NoData]
With(node, data) == [node EXCEPT !.data = data]
Leaf(name, kind, form, coords, constant) ==
  With(Node("leaf", kind, <<>>), [name |-> name, form |-> form, coords |-> coords, constant |-> constant])

IsConstant(e) == e.op \in {"leaf", "tensor"} /\ e.data.constant
(* An operation with two operands or more, one of which is a constant. *)
hasConstantOperand(e) ==
  \/ Len(e.args) = 2 /\ (IsConstant(e.args[1]) \/ IsConstant(e.args[2]))
  \/ e.op = "scalar_mul" /\ (e.data.constant \/ IsConstant(e.args[1]))

(* The operations made by patterns have the type of the one they replace. *)
(* Mutant: the sum has the type of its first operand. *)
CreateAddOpOfOperand(e, x, y) == Node("add", x.kind, <<x, y>>)
CreateAddOp(e, x, y) == Node("add", e.kind, <<x, y>>)
CreateSubOp(e, x, y) == Node("sub", e.kind, <<x, y>>)
CreateNegOp(e, x) == Node("negate", e.kind, <<x>>)
CreateDoubleOp(e, x) == Node("double", e.kind, <<x>>)
CreateScalarMulOp(e, s, x) == With(Node("scalar_mul", e.kind, <<x>>), s)

When(condition, result) == IF condition THEN {result} ELSE {}
Of(e, op, l, r) ==
  /\ e.op = op
  /\ l \in {"any", e.args[1].op}
  /\ r \in {"any", e.args[2].op}
(* An operand, and an operand of an operand. *)
At(e, i) == e.args[i]
In(e, i, j) == e.args[i].args[j]

AddSelfIsDouble(e) == When(Of(e, "add", "any", "any") /\ At(e, 1) = At(e, 2), CreateDoubleOp(e, At(e, 1)))
AddBothNegated(e) ==
  When(Of(e, "add", "negate", "negate"), CreateNegOp(e, CreateAddOp(e, In(e, 1, 1), In(e, 2, 1))))
AddAfterSub(e) == When(Of(e, "add", "sub", "any") /\ In(e, 1, 2) = At(e, 2), In(e, 1, 1))
AddAfterNegLhs(e) == When(Of(e, "add", "negate", "any"), CreateSubOp(e, At(e, 2), In(e, 1, 1)))
AddAfterNegRhs(e) == When(Of(e, "add", "any", "negate"), CreateSubOp(e, At(e, 1), In(e, 2, 1)))
SubLhsAfterAdd(e) == When(Of(e, "sub", "add", "any") /\ In(e, 1, 1) = At(e, 2), In(e, 1, 2))
SubRhsAfterAdd(e) == When(Of(e, "sub", "add", "any") /\ In(e, 1, 2) = At(e, 2), In(e, 1, 1))
SubLhsAfterSub(e) == When(Of(e, "sub", "sub", "any") /\ In(e, 1, 1) = At(e, 2), CreateNegOp(e, In(e, 1, 2)))
(* Mutant: the negation moves to the other operand. *)
SubAfterNegLhsSwaps(e) ==
  When(Of(e, "sub", "negate", "any"), CreateSubOp(e, Node("negate", At(e, 2).kind, <<At(e, 2)>>), In(e, 1, 1)))
SubAfterNegLhs(e) ==
  When(Of(e, "sub", "negate", "any"), CreateNegOp(e, CreateAddOp(e, In(e, 1, 1), At(e, 2))))
SubAfterNegRhs(e) == When(Of(e, "sub", "any", "negate"), CreateAddOp(e, At(e, 1), In(e, 2, 1)))
SubBothNegated(e) == When(Of(e, "sub", "negate", "negate"), CreateSubOp(e, In(e, 2, 1), In(e, 1, 1)))

SameScalar(e, op) == Of(e, op, "scalar_mul", "scalar_mul") /\ At(e, 1).data = At(e, 2).data
FactorScalarMulAdd(e) ==
  When(SameScalar(e, "add"), CreateScalarMulOp(e, At(e, 1).data, CreateAddOp(e, In(e, 1, 1), In(e, 2, 1))))
FactorScalarMulSub(e) ==
  When(SameScalar(e, "sub"), CreateScalarMulOp(e, At(e, 1).data, CreateSubOp(e, In(e, 1, 1), In(e, 2, 1))))
(* The product of two scalars is one of the scalar field. *)
ScalarFieldMul(u, s, t) ==
  LET r == u.curve.r
  IN  [name |-> s.name \o t.name, constant |-> s.constant /\ t.constant,
       word |-> IF u.scalarMont THEN (s.word * t.word * RInv[r]) % r ELSE (s.word * t.word) % r]
ScalarMulAssocLeft(u, e) ==
  When(e.op = "scalar_mul" /\ At(e, 1).op = "scalar_mul",
       CreateScalarMulOp(e, ScalarFieldMul(u, e.data, At(e, 1).data), In(e, 1, 1)))

(* A negation undoes itself, and a constant is the second operand of a sum. *)
Involution(e) == When(e.op = "negate" /\ At(e, 1).op = "negate", In(e, 1, 1))
ConstantLast(e) ==
  When(e.op = "add" /\ IsConstant(At(e, 1)) /\ ~IsConstant(At(e, 2)), Node("add", e.kind, <<At(e, 2), At(e, 1)>>))

-----------------------------------------------------------------------------
(* Folding *)

ElementOf(u, leaf) == Meaning(u, leaf.data.form, leaf.data.coords)
FoldedConstant(u, e, form, element) ==
  {Leaf(<<"folded">>, e.kind, form, coords, TRUE) : coords \in Points(u, form, element)}
(* The result keeps the kind in which the formula returns it. *)
Fold(u, e) ==
  IF ~(e.op \in {"add", "sub", "negate", "double"} /\ \A i \in DOMAIN e.args : IsConstant(e.args[i])) THEN {}
  ELSE LET x == e.args[1]
           P == ElementOf(u, x)
           Q == ElementOf(u, e.args[2])
           kind == SumKind(x.data.form, e.args[2].data.form, e.kind)
       IN  CASE e.op = "add" -> FoldedConstant(u, e, kind, GroupSum[u.curve][<<P, Q>>])
             [] e.op = "sub" -> FoldedConstant(u, e, kind, GroupSum[u.curve][<<P, Opposite(u.curve, Q)>>])
             [] e.op = "double" -> FoldedConstant(u, e, DoubleKind(x.data.form, e.kind), GroupSum[u.curve][<<P, P>>])
             [] e.op = "negate" -> FoldedConstant(u, e, x.data.form, Opposite(u.curve, P))

(* What may be done to the operation at the root of e, with its name. *)
Named(name, results) == {<<name, result>> : result \in results}
RootRewrites(u, e) ==
  UNION {Named("AddSelfIsDouble", AddSelfIsDouble(e)), Named("AddBothNegated", AddBothNegated(e)),
         Named("AddAfterSub", AddAfterSub(e)), Named("AddAfterNegLhs", AddAfterNegLhs(e)),
         Named("AddAfterNegRhs", AddAfterNegRhs(e)), Named("FactorScalarMulAdd", FactorScalarMulAdd(e)),
         Named("SubLhsAfterAdd", SubLhsAfterAdd(e)), Named("SubRhsAfterAdd", SubRhsAfterAdd(e)),
         Named("SubLhsAfterSub", SubLhsAfterSub(e)), Named("SubAfterNegLhs", SubAfterNegLhs(e)),
         Named("SubAfterNegRhs", SubAfterNegRhs(e)), Named("SubBothNegated", SubBothNegated(e)),
         Named("FactorScalarMulSub", FactorScalarMulSub(e)), Named("ScalarMulAssocLeft", ScalarMulAssocLeft(u, e)),
         Named("Involution", Involution(e)), Named("ConstantLast", ConstantLast(e)), Named("Fold", Fold(u, e))}
RECURSIVE Rewrites(_, _)
Rewrites(u, e) ==
  RootRewrites(u, e)
  \cup UNION {{<<r[1], [e EXCEPT !.args[i] = r[2]]>> : r \in Rewrites(u, e.args[i])} : i \in DOMAIN e.args}

-----------------------------------------------------------------------------
(* The verdict on an expression *)

RECURSIVE Verified(_)
Verified(e) ==
  /\ \A i \in DOMAIN e.args : Verified(e.args[i])
  /\ CASE e.op \in {"leaf", "tensor"} -> TRUE
       [] e.op \in {"add", "sub"} -> verifyBinaryOp(At(e, 1).kind, At(e, 2).kind, e.kind)
       [] e.op \in {"double", "scalar_mul"} -> verifyAffineWidens(At(e, 1).kind, e.kind)
       [] e.op = "negate" -> At(e, 1).kind = e.kind
       [] e.op = "convert" -> At(e, 1).kind # e.kind
       [] e.op \in {"eq", "ne"} -> At(e, 1).kind = At(e, 2).kind
       [] e.op = "is_zero" -> TRUE
       [] e.op = "msm" -> verifyMSM(At(e, 1).kind, e.kind, Len(At(e, 1).data.points), Len(e.data.scalars),
                                    e.data.degree, e.data.windowBits)
=============================================================================
