------------------------------- MODULE FieldTypes -------------------------------
(***************************************************************************)
(* Prime fields and towers of extension fields as the field dialect's      *)
(* types describe them. A type and its text have one shape,                *)
(*   [kind |-> "pf", p, w, mont]                                           *)
(*   [kind |-> "ef", degree, base, dense, nonResidue]                      *)
(* but the numbers of a text are standard residues and those of a type of  *)
(* Montgomery form residues times R. An element is a number, or the tuple  *)
(* of its coefficients over the base field.                                *)
(***************************************************************************)
EXTENDS Integers, Sequences, SequencesExt

CONSTANT Moduli   \* the moduli and storage widths in use: pairs <<p, w>>

ASSUME ModuliAssumption ==
  \A m \in Moduli : m[1] \in Nat \ 0..2 /\ m[1] % 2 = 1 /\ m[2] \in Nat /\ (m[2] > 30 \/ m[1] < 2^m[2])

(* The constants of the Montgomery attribute: R modulo p, and its inverse. *)
R == [m \in Moduli |->
       LET power[k \in 0..m[2]] == IF k = 0 THEN 1 ELSE (2 * power[k - 1]) % m[1]
       IN  power[m[2]]]
RInv == [m \in Moduli |-> CHOOSE x \in 1..m[1] - 1 : (x * R[m]) % m[1] = 1]

pf(p, w, mont) == [kind |-> "pf", p |-> p, w |-> w, mont |-> mont]
ef(degree, base, dense, nonResidue) ==
  [kind |-> "ef", degree |-> degree, base |-> base, dense |-> dense, nonResidue |-> nonResidue]

RECURSIVE getBasePrimeField(_)
getBasePrimeField(t) == IF t.kind = "pf" THEN t ELSE getBasePrimeField(t.base)
RECURSIVE getDegreeOverPrime(_)
getDegreeOverPrime(t) == IF t.kind = "pf" THEN 1 ELSE t.degree * getDegreeOverPrime(t.base)
isMontgomery(t) == getBasePrimeField(t).mont
isTower(t) == t.kind = "ef" /\ t.base.kind = "ef"
hasGeneralModulus(t) == t.kind = "ef" /\ t.base.kind = "pf" /\ t.dense

Mod(t) == <<getBasePrimeField(t).p, getBasePrimeField(t).w>>
getAttrAsMontgomeryForm(t, c) == [i \in DOMAIN c |-> (c[i] * R[Mod(t)]) % Mod(t)[1]]
getAttrAsStandardForm(t, c) == [i \in DOMAIN c |-> (c[i] * RInv[Mod(t)]) % Mod(t)[1]]

-----------------------------------------------------------------------------
(* Elements and their prime coefficients *)

(* The prime coefficients from i on, as an element, and back. *)
RECURSIVE fromFlatPrimeCoeffs(_, _)
fromFlatPrimeCoeffs(c, t) ==
  IF t.kind = "pf" THEN c[1]
  ELSE LET n == getDegreeOverPrime(t.base)
       IN  [i \in 1..t.degree |-> fromFlatPrimeCoeffs(SubSeq(c, (i - 1) * n + 1, i * n), t.base)]
RECURSIVE flattenToPrimeCoeffs(_, _)
flattenToPrimeCoeffs(v, t) ==
  IF t.kind = "pf" THEN <<v>>
  ELSE FlattenSeq([i \in 1..t.degree |-> flattenToPrimeCoeffs(v[i], t.base)])

(* A list of coefficients is flat if it is long enough to be, and otherwise  *)
(* gives a base scalar per coefficient.                                      *)
RECURSIVE fromUnchecked(_, _)
fromUnchecked(c, t) ==
  IF t.kind = "pf" THEN c[1]
  ELSE IF Len(c) = getDegreeOverPrime(t) THEN fromFlatPrimeCoeffs(c, t)
  ELSE [i \in 1..t.degree |-> fromUnchecked(IF i <= Len(c) THEN <<c[i]>> ELSE <<0>>, t.base)]

(* The constructors that take a number to be a standard residue, which they *)
(* assert to be smaller than the modulus.                                   *)
PrimeFieldOperation(v, t) == IF t.mont THEN (v * R[Mod(t)]) % t.p ELSE v
PrimeFieldOfInt(n, t) ==
  IF n < 0 THEN LET v == PrimeFieldOperation(-n, t) IN IF v = 0 THEN 0 ELSE t.p - v
  ELSE PrimeFieldOperation(n, t)
RECURSIVE FieldOfScalar(_, _)
FieldOfScalar(v, t) ==
  IF t.kind = "pf" THEN PrimeFieldOperation(v, t)
  ELSE [i \in 1..t.degree |-> FieldOfScalar(IF i = 1 THEN v ELSE 0, t.base)]

(* Attributes of constants. Only the scalar of a prime field is converted    *)
(* when it is given as a residue.                                            *)
Scalar(v, t) == fromUnchecked([i \in 1..getDegreeOverPrime(t) |-> IF i = 1 THEN v ELSE 0], t)
createConstantAttr(n, t) == Scalar(PrimeFieldOfInt(n, getBasePrimeField(t)), t)
createConstantAttrFromValues(c, t) ==
  IF t.kind = "pf" THEN PrimeFieldOperation(c[1], t) ELSE fromFlatPrimeCoeffs(c, t)
createFieldConstant(v, t) ==
  IF t.kind = "pf" THEN createConstantAttrFromValues(<<v>>, t)
  ELSE createConstantAttrFromValues(
         [i \in 1..getDegreeOverPrime(t) |->
           IF i = 1 THEN PrimeFieldOperation(v, getBasePrimeField(t)) ELSE 0], t)

(* The number written in the text of a constant, and the text printed. *)
maybeToMontgomery(c, t) == IF isMontgomery(t) THEN getAttrAsMontgomeryForm(t, c) ELSE c
maybeToStandard(c, t) == IF isMontgomery(t) THEN getAttrAsStandardForm(t, c) ELSE c
parseFieldConstant(c, t) == fromFlatPrimeCoeffs(maybeToMontgomery(c, t), t)
printConstant(v, t) == maybeToStandard(flattenToPrimeCoeffs(v, t), t)

-----------------------------------------------------------------------------
(* Text and type *)

(* A dense non-residue is converted over a prime base only. *)
RECURSIVE parse(_)
parse(text) ==
  IF text.kind = "pf" THEN text
  ELSE LET base == parse(text.base)
           converted == IF text.dense /\ base.kind = "ef" THEN text.nonResidue
                        ELSE maybeToMontgomery(text.nonResidue, base)
       IN  ef(text.degree, base, text.dense, converted)

RECURSIVE print(_)
print(t) ==
  IF t.kind = "pf" THEN t
  ELSE ef(t.degree, print(t.base), t.dense, maybeToStandard(t.nonResidue, t.base))

(* The type made in C++ from the constants of a registered field: every      *)
(* number is in the form of the prime field, and over a tower dense.         *)
RECURSIVE getExtensionFieldType(_)
getExtensionFieldType(text) ==
  IF text.kind = "pf" THEN text
  ELSE LET base == getExtensionFieldType(text.base)
           full == IF base.kind = "ef" /\ ~text.dense
                   THEN [i \in 1..getDegreeOverPrime(base) |-> IF i = 1 THEN text.nonResidue[1] ELSE 0]
                   ELSE text.nonResidue
       IN  ef(text.degree, base, text.dense \/ base.kind = "ef", maybeToMontgomery(full, base))

-----------------------------------------------------------------------------
(* The non-residue as the generated code and the evaluator read it *)

(* The lowering embeds a scalar of a tower anew, as a constant. *)
createNonResidueValue(t) ==
  IF t.base.kind = "pf" \/ t.dense THEN fromUnchecked(t.nonResidue, t.base)
  ELSE createConstantAttr(t.nonResidue[1], t.base)
createModulusLowCoeffValues(t) == t.nonResidue

(* The evaluator constructs an element from it. *)
NonResidue(t) ==
  IF t.base.kind = "pf" \/ t.dense THEN fromUnchecked(t.nonResidue, t.base)
  ELSE FieldOfScalar(t.nonResidue[1], t.base)
ModulusLowCoeffs(t) == t.nonResidue
=============================================================================
