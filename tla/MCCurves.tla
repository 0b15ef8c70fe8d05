-------------------------------- MODULE MCCurves --------------------------------
(* The curves and the programs of the run of CurveProgram. *)
EXTENDS CurveProgram

(* 13 points, all of them multiples of the generator; its name is known. *)
SW == [family |-> "sw", p |-> 7, a |-> 0, b |-> 3, g |-> <<1, 2>>, r |-> 13, alias |-> "bn254_g1"]
(* 13 points over another field, with a coefficient of x and without a name. *)
Unnamed == [family |-> "sw", p |-> 11, a |-> 1, b |-> 6, g |-> <<2, 7>>, r |-> 13, alias |-> ""]
(* 20 points, of which 5 are multiples of the generator. *)
TE == [family |-> "te", p |-> 13, a |-> 12, b |-> 6, g |-> <<9, 8>>, r |-> 5, alias |-> ""]
MCCurves == {SW, Unnamed, TE}
MCScales == {1, 3}

Unit(c, mont, scalarMont, mode, inlineConstOps, extension) ==
  [curve |-> c, mont |-> mont, scalarMont |-> scalarMont, mode |-> mode, inlineConstOps |-> inlineConstOps,
   extension |-> extension, batch |-> TRUE]
Inline(c, mont) == Unit(c, mont, mont, "inline", FALSE, FALSE)
Elementwise(c, mont) == [Inline(c, mont) EXCEPT !.batch = FALSE]
Runtime(mont) == Unit(SW, mont, mont, "aot_runtime", FALSE, FALSE)
RuntimeButConstants == Unit(SW, TRUE, TRUE, "aot_runtime", TRUE, FALSE)
Auto(extension) == Unit(SW, TRUE, TRUE, "auto", FALSE, extension)
(* Scalars in another form than coordinates. *)
Mixed(mont, mode) == Unit(SW, mont, ~mont, mode, FALSE, FALSE)
Basic == {Inline(c, mont) : c \in {SW, TE}, mont \in BOOLEAN} \cup {Inline(Unnamed, TRUE)}
CallingUnits == {Runtime(TRUE), Runtime(FALSE), RuntimeButConstants, Auto(TRUE), Auto(FALSE),
            [Runtime(FALSE) EXCEPT !.curve = Unnamed], [Runtime(TRUE) EXCEPT !.curve = TE]}

-----------------------------------------------------------------------------
(* Operands *)

Multiple(u, n) == GroupMultiple[u.curve][u.curve.g][n]
Point(u, name, kind, n, z, constant) ==
  Leaf(<<name>>, kind, kind, Represent(u, kind, Multiple(u, n), z), constant)
Scalar(u, name, s, constant) ==
  [name |-> <<name>>, word |-> Stored(u.scalarMont, u.curve.r, s), constant |-> constant]
Times(kind, s, x) == With(Node("scalar_mul", kind, <<x>>), s)
Minus(x) == Node("negate", x.kind, <<x>>)
Add(kind, x, y) == Node("add", kind, <<x, y>>)
Sub(kind, x, y) == Node("sub", kind, <<x, y>>)

(* What the patterns match, with a result of kind k and inner ones of kind l. *)
Matched(k, l, x, y) ==
  {Add(k, x, x), Add(k, Minus(x), Minus(y)), Add(k, Sub(l, x, y), y), Add(k, Minus(x), y), Add(k, x, Minus(y)),
   Sub(k, Add(l, x, y), x), Sub(k, Add(l, x, y), y), Sub(k, Sub(l, x, y), x), Sub(k, Minus(x), y),
   Sub(k, x, Minus(y)), Sub(k, Minus(x), Minus(y)), Minus(Minus(x)), Sub(k, Minus(Minus(x)), Add(l, y, x))}
MatchedScalars(u, k, l, x, y) ==
  LET s == Scalar(u, "s", 2, FALSE)
      t == Scalar(u, "t", u.curve.r - 2, TRUE)
  IN  {Add(k, Times(l, s, x), Times(l, s, y)), Sub(k, Times(l, s, x), Times(l, s, y)),
       Add(k, Times(l, s, x), Times(l, t, y)), Times(k, s, Times(l, t, x))}
(* The kinds of two operands, and of their sum. *)
Sorts(u) ==
  LET K == KindsOf(u.curve) IN {s \in K \X K \X K : verifyBinaryOp(s[1], s[2], s[3])}
Patterned(u, pairs) ==
  UNION {Matched(k, s[3], Point(u, "x", s[1], n[1], 1, FALSE), Point(u, "y", s[2], n[2], 3, FALSE)) :
           s \in Sorts(u), k \in KindsOf(u.curve), n \in pairs}
Factored(u, pairs) ==
  UNION {MatchedScalars(u, k, l, Point(u, "x", i, n[1], 1, FALSE), Point(u, "y", i, n[2], 3, FALSE)) :
           i \in KindsOf(u.curve), l \in KindsOf(u.curve), k \in KindsOf(u.curve), n \in pairs}

(* One operation, with constant operands or others. *)
Binary(u, multiples, constants) ==
  UNION {LET x == Point(u, "x", s[1], n[1], 1, constant[1])
             y == Point(u, "y", s[2], n[2], 3, constant[2])
         IN  {Add(s[3], x, y), Sub(s[3], x, y)} :
           s \in Sorts(u), n \in multiples \X multiples, constant \in constants}
Compared(u, multiples) ==
  UNION {LET x == Point(u, "x", k, n[1], 1, FALSE)
             y == Point(u, "y", k, n[2], 3, FALSE)
         IN  {Node("eq", "i1", <<x, y>>), Node("ne", "i1", <<x, y>>)} :
           k \in KindsOf(u.curve), n \in multiples \X multiples}
Unary(u, multiples, constants) ==
  UNION {LET x == Point(u, "x", i, n, 3, constant[1])
         IN  {Node("double", k, <<x>>), Minus(x), Node("convert", k, <<x>>), Node("is_zero", "i1", <<x>>)} :
           i \in KindsOf(u.curve), k \in KindsOf(u.curve), n \in multiples, constant \in constants}
Single(u, multiples, constants) ==
  Binary(u, multiples, constants) \cup Unary(u, multiples, constants) \cup Compared(u, multiples)
Product(u, scalars) ==
  {Times(k, Scalar(u, "s", s, constant), Point(u, "x", i, 3, 3, constant)) :
     i \in KindsOf(u.curve), k \in KindsOf(u.curve), s \in scalars, constant \in BOOLEAN}

(* Two additions of an affine point, the operands in any order. *)
Chained(u) ==
  UNION {LET x == Point(u, "x", k, 1, 3, FALSE)
             y == Point(u, "y", "affine", 3, 1, FALSE)
             v == Point(u, "v", "affine", 4, 1, FALSE)
             Sums2(a, b) == {Add(k, a, b), Add(k, b, a)}
         IN  UNION {Sums2(inner, v) : inner \in Sums2(x, y)} : k \in {"jacobian", "xyzz"}}

Points3(u, kind, ns) == [i \in DOMAIN ns |-> Represent(u, kind, Multiple(u, ns[i]), IF i = 1 THEN 3 ELSE 1)]
Batches(u, lists) ==
  {Node("convert", k, <<Tensor(i, Points3(u, i, ns), constant)>>) :
     i \in KindsOf(u.curve), k \in KindsOf(u.curve), ns \in lists, constant \in BOOLEAN}
Sums(u) ==
  {With(Node("msm", k, <<Tensor(i, Points3(u, i, <<1, 0, 4>>), FALSE)>>),
        [scalars |-> [j \in 1..3 |-> Stored(u.scalarMont, u.curve.r, 5 - j)], degree |-> 2, windowBits |-> 0]) :
     i \in KindsOf(u.curve), k \in KindsOf(u.curve)}

Program(u, e) == [f \in DOMAIN u \cup {"expr"} |-> IF f = "expr" THEN e ELSE u[f]]
Compiled(u, exprs) == {Program(u, e) : e \in {f \in exprs : Verified(f)}}
Pairs == {<<1, 3>>, <<0, 2>>}
OneForm == {Inline(SW, TRUE), Inline(Unnamed, TRUE), Inline(TE, FALSE)}
Lists == {<<2>>, <<0>>, <<1, 3, 2>>, <<1, 0, 2>>}
AnyConstant == {<<TRUE, FALSE>>, <<FALSE, TRUE>>, <<TRUE, TRUE>>}
MCPrograms ==
  UNION {Compiled(u, Patterned(u, Pairs)) : u \in OneForm}
  \cup UNION {Compiled(u, Factored(u, {<<1, 3>>}) \cup Product(u, {0, 1, 3}) \cup Batches(u, Lists)
                          \cup Single(u, 0..3, {<<FALSE, FALSE>>})) : u \in Basic}
  \cup UNION {Compiled(u, Batches(u, Lists)) : u \in {Elementwise(c, mont) : c \in {SW, TE}, mont \in BOOLEAN}}
  \cup UNION {Compiled(u, Single(u, {0, 1}, AnyConstant)) : u \in Basic \cup {RuntimeButConstants}}
  \cup UNION {Compiled(u, Single(u, {1, 2}, {<<FALSE, FALSE>>}) \cup Product(u, {0, 1, 3}) \cup Batches(u, Lists)
                          \cup Factored(u, {<<1, 3>>})) : u \in CallingUnits}
  \cup UNION {Compiled(u, Product(u, {0, 1, 3})) : u \in {Mixed(mont, mode) : mont \in BOOLEAN, mode \in {"inline", "aot_runtime"}}}
  \cup UNION {Compiled(u, Chained(u)) : u \in {Runtime(TRUE), Inline(SW, TRUE)}}
  \cup UNION {Compiled(u, Sums(u)) : u \in {Inline(SW, TRUE), Inline(Unnamed, TRUE)}}
=============================================================================
