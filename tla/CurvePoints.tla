------------------------------ MODULE CurvePoints ------------------------------
(***************************************************************************)
(* The points of elliptic curves: the group they form, the representations *)
(* the dialect has of them, and the verifiers of the operations on them.   *)
(* A curve is a record [family, p, a, b, g, r, alias] of                   *)
(* "sw":  y^2 = x^3 + a x + b      "te":  a x^2 + y^2 = 1 + b x^2 y^2      *)
(* with its generator g and the modulus r of its scalars. A unit u has a   *)
(* curve and the form of its residues; coordinates are stored residues.    *)
(***************************************************************************)
EXTENDS Integers, Sequences, FiniteSets

CONSTANTS
  Curves,  \* the curves in use
  Scales   \* the factors between the representations of a point that occur

ASSUME CurvesAssumption ==
  \A c \in Curves : c.p \in Nat \ 0..3 /\ c.r \in Nat \ 0..2 /\ c.a \in 0..c.p - 1 /\ c.b \in 1..c.p - 1
ASSUME ScalesAssumption == 1 \in Scales /\ \A z \in Scales, c \in Curves : z \in 1..c.p - 1

-----------------------------------------------------------------------------
(* The group *)

InverseMod == [c \in Curves |->
  [x \in 0..c.p - 1 |-> IF x = 0 THEN 0 ELSE CHOOSE y \in 1..c.p - 1 : (x * y) % c.p = 1]]
OnCurve(c, x, y) ==
  IF c.family = "sw" THEN (y * y - x * x * x - c.a * x - c.b) % c.p = 0
  ELSE (c.a * x * x + y * y - 1 - c.b * x * x * y * y) % c.p = 0

(* The point at infinity of a short Weierstrass curve is (0, 0). *)
GroupZero(c) == IF c.family = "sw" THEN <<0, 0>> ELSE <<0, 1>>
Elements == [c \in Curves |->
  {GroupZero(c)} \cup {e \in (0..c.p - 1) \X (0..c.p - 1) : OnCurve(c, e[1], e[2])}]
Opposite(c, e) ==
  IF c.family = "sw" THEN <<e[1], (-e[2]) % c.p>> ELSE <<(-e[1]) % c.p, e[2]>>

Slope(c, e, f) ==
  IF e = f THEN ((3 * e[1] * e[1] + c.a) * InverseMod[c][(2 * e[2]) % c.p]) % c.p
  ELSE ((f[2] - e[2]) * InverseMod[c][(f[1] - e[1]) % c.p]) % c.p
ThirdPoint(c, m, e, f) ==
  LET x == (m * m - e[1] - f[1]) % c.p IN <<x, (m * (e[1] - x) - e[2]) % c.p>>
EdwardsSum(c, e, f) ==
  LET t == (c.b * e[1] * f[1] * e[2] * f[2]) % c.p
  IN  <<((e[1] * f[2] + e[2] * f[1]) * InverseMod[c][(1 + t) % c.p]) % c.p,
        ((e[2] * f[2] - c.a * e[1] * f[1]) * InverseMod[c][(1 - t) % c.p]) % c.p>>
GroupSum == [c \in Curves |-> [s \in Elements[c] \X Elements[c] |->
  CASE c.family = "te" -> EdwardsSum(c, s[1], s[2])
    [] s[1] = GroupZero(c) -> s[2]
    [] s[2] = GroupZero(c) -> s[1]
    [] s[2] = Opposite(c, s[1]) /\ s[1] # GroupZero(c) /\ s[2] # GroupZero(c) -> GroupZero(c)
    [] OTHER -> ThirdPoint(c, Slope(c, s[1], s[2]), s[1], s[2])]]
GroupMultiple == [c \in Curves |-> [e \in Elements[c] |->
  LET multiple[n \in 0..c.r] == IF n = 0 THEN GroupZero(c) ELSE GroupSum[c][<<multiple[n - 1], e>>]
  IN  multiple]]

-----------------------------------------------------------------------------
(* Stored residues *)

R == [m \in {c.p : c \in Curves} \cup {c.r : c \in Curves} |-> 256 % m]
RInv == [m \in DOMAIN R |-> CHOOSE y \in 1..m - 1 : (y * R[m]) % m = 1]
Stored(mont, m, x) == IF mont THEN (x * R[m]) % m ELSE x % m
Residue(mont, m, w) == IF mont THEN (w * RInv[m]) % m ELSE w

createFieldZero(u) == 0
createFieldOne(u) == Stored(u.mont, u.curve.p, 1)
FieldNegate(u, w) == (-w) % u.curve.p
FieldMul(u, v, w) == IF u.mont THEN (v * w * RInv[u.curve.p]) % u.curve.p ELSE (v * w) % u.curve.p
FieldInverse(u, w) == Stored(u.mont, u.curve.p, InverseMod[u.curve][Residue(u.mont, u.curve.p, w)])

(* The attribute of a curve holds its parameters in the form of the field,   *)
(* and they must satisfy the equation there.                                 *)
parseCurve(u) ==
  LET Param(x) == Stored(u.mont, u.curve.p, x)
  IN  [a |-> Param(u.curve.a), b |-> Param(u.curve.b), gX |-> Param(u.curve.g[1]), gY |-> Param(u.curve.g[2])]
ShortWeierstrassEquation(u, attr) ==
  FieldMul(u, attr.gY, attr.gY)
    = (FieldMul(u, FieldMul(u, attr.gX, attr.gX), attr.gX) + FieldMul(u, attr.a, attr.gX) + attr.b) % u.curve.p
TwistedEdwardsEquation(u, attr) ==
  LET xx == FieldMul(u, attr.gX, attr.gX)
      yy == FieldMul(u, attr.gY, attr.gY)
  IN  /\ attr.a # 0 /\ attr.b # 0
      /\ (FieldMul(u, attr.a, xx) + yy) % u.curve.p
           = (createFieldOne(u) + FieldMul(u, attr.b, FieldMul(u, xx, yy))) % u.curve.p
verifyCurve(u) ==
  IF u.curve.family = "sw" THEN ShortWeierstrassEquation(u, parseCurve(u))
  ELSE TwistedEdwardsEquation(u, parseCurve(u))
(* A registered curve has the registered parameters in the form at hand. *)
getKnownCurveAlias(u) == IF u.curve.family = "sw" THEN u.curve.alias ELSE ""

-----------------------------------------------------------------------------
(* Representations *)

isEdwards(kind) == kind \in {"ed_affine", "ed_extended"}
isAffine(kind) == kind \in {"affine", "ed_affine"}
isSameFamily(k, l) == isEdwards(k) = isEdwards(l)
getNumCoords(kind) ==
  CASE isAffine(kind) -> 2 [] kind = "jacobian" -> 3 [] kind \in {"xyzz", "ed_extended"} -> 4
KindsOf(c) == IF c.family = "sw" THEN {"affine", "jacobian", "xyzz"} ELSE {"ed_affine", "ed_extended"}

(* The element a point stands for. *)
Meaning(u, kind, coords) ==
  LET c == u.curve
      x == [i \in DOMAIN coords |-> Residue(u.mont, c.p, coords[i])]
      Over(n, d) == (x[n] * InverseMod[c][d % c.p]) % c.p
  IN  CASE isAffine(kind) -> <<x[1], x[2]>>
        [] kind = "ed_extended" -> <<Over(1, x[3]), Over(2, x[3])>>
        [] kind = "jacobian" -> IF x[3] = 0 THEN GroupZero(c) ELSE <<Over(1, x[3] * x[3]), Over(2, x[3] * x[3] * x[3])>>
        [] kind = "xyzz" -> IF x[3] = 0 THEN GroupZero(c) ELSE <<Over(1, x[3]), Over(2, x[4])>>

(* The coordinates of an element, scaled by z. *)
Represent(u, kind, e, z) ==
  LET c == u.curve
      infinite == c.family = "sw" /\ e = GroupZero(c)
      x == IF infinite THEN 1 ELSE e[1]
      y == IF infinite THEN 1 ELSE e[2]
      d == IF infinite THEN 0 ELSE 1
      coords == CASE isAffine(kind) -> e
                  [] kind = "jacobian" -> <<x * z * z, y * z * z * z, d * z>>
                  [] kind = "xyzz" -> <<x * z * z, y * z * z * z, d * z * z, d * z * z * z>>
                  [] kind = "ed_extended" -> <<x * z, y * z, z, x * y * z>>
  IN  [i \in DOMAIN coords |-> Stored(u.mont, c.p, coords[i])]
(* A formula returns its result in some representation of it. *)
Points(u, kind, e) == {Represent(u, kind, e, z) : z \in IF isAffine(kind) THEN {1} ELSE Scales}

createZeroPoint(u, kind) ==
  LET zero == createFieldZero(u)
      one == createFieldOne(u)
  IN  CASE kind = "affine" -> <<zero, zero>>
        [] kind = "jacobian" -> <<one, one, zero>>
        [] kind = "xyzz" -> <<one, one, zero, zero>>
        [] kind = "ed_affine" -> <<zero, one>>
        [] kind = "ed_extended" -> <<zero, one, one, zero>>

(* The kind that a sum has before it is converted: that of the projective    *)
(* operand, and for two affine operands the kind asked for if it is xyzz.    *)
AddToXyzz(k, l, out) == k = "affine" /\ l = "affine" /\ out = "xyzz"
SumKind(k, l, out) ==
  CASE AddToXyzz(k, l, out) -> "xyzz"
    [] k = "affine" /\ l = "affine" /\ out # "xyzz" -> "jacobian"
    [] k = "ed_affine" /\ l = "ed_affine" -> "ed_extended"
    [] isAffine(k) /\ ~isAffine(l) -> l
    [] ~isAffine(k) -> k
DoubleKind(k, out) == SumKind(k, k, out)

-----------------------------------------------------------------------------
(* Verifiers *)

verifyBinaryOp(k, l, out) ==
  /\ isSameFamily(k, l) /\ isSameFamily(k, out)
  /\ IF isAffine(k) \/ isAffine(l) THEN ~isAffine(out) /\ (k = l \/ k = out \/ l = out)
     ELSE k = l /\ l = out
verifyAffineWidens(k, out) == isSameFamily(k, out) /\ ((isAffine(k) /\ ~isAffine(out)) \/ k = out)
verifyMSMPointTypes(k, out) ==
  /\ ~isEdwards(k) /\ ~isEdwards(out)
  /\ ~(k = "jacobian" /\ out = "affine")
  /\ ~(k = "xyzz" /\ out \in {"affine", "jacobian"})
verifyMSM(k, out, points, scalars, degree, windowBits) ==
  /\ verifyMSMPointTypes(k, out)
  /\ degree > 0 /\ points = scalars /\ scalars <= 2^degree /\ windowBits >= 0
=============================================================================
