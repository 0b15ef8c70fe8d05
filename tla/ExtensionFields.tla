----------------------------- MODULE ExtensionFields -----------------------------
(***************************************************************************)
(* Arithmetic of towers of extension fields. The same algorithms of the    *)
(* field library run twice: over numbers, when the compiler folds          *)
(* constants, and over values, when it generates code. What differs is     *)
(* named by a handler: "fold" for the evaluator, "run" for generated code  *)
(* and "chain" for generated code that prefers the chain of                *)
(* multiplications for an inverse.                                         *)
(***************************************************************************)
EXTENDS ModArithOperation

Handlers == {"fold", "run", "chain"}

RECURSIVE Zero(_)
Zero(t) == IF t.kind = "pf" THEN 0 ELSE [i \in 1..t.degree |-> Zero(t.base)]
RECURSIVE One(_)
One(t) == IF t.kind = "pf" THEN PrimeOne(t)
          ELSE [i \in 1..t.degree |-> IF i = 1 THEN One(t.base) ELSE Zero(t.base)]

RECURSIVE Add(_, _, _)
Add(t, a, b) ==
  IF t.kind = "pf" THEN PrimeAdd(t, a, b) ELSE [i \in 1..t.degree |-> Add(t.base, a[i], b[i])]
RECURSIVE Sub(_, _, _)
Sub(t, a, b) ==
  IF t.kind = "pf" THEN PrimeSub(t, a, b) ELSE [i \in 1..t.degree |-> Sub(t.base, a[i], b[i])]
RECURSIVE Negate(_, _)
Negate(t, a) == IF t.kind = "pf" THEN PrimeNegate(t, a) ELSE [i \in 1..t.degree |-> Negate(t.base, a[i])]
RECURSIVE Double(_, _)
Double(t, a) == IF t.kind = "pf" THEN PrimeDouble(t, a) ELSE [i \in 1..t.degree |-> Double(t.base, a[i])]

-----------------------------------------------------------------------------
(* Which algorithm multiplies. The evaluator keeps Toom-Cook out of towers;  *)
(* generated code goes by the limbs of the prime alone.                      *)

Limbs(t) == (getBasePrimeField(t).w + 63) \div 64
QuarticByLimbs(t, single) == IF Limbs(t) > 1 THEN "ToomCook" ELSE single
GetMulAlgorithm(h, t) ==
  IF t.degree = 4 /\ (h # "fold" \/ ~isTower(t)) THEN QuarticByLimbs(t, "Karatsuba") ELSE "Karatsuba"
GetSquareAlgorithm(h, t) ==
  IF h # "fold" THEN IF t.degree = 4 THEN QuarticByLimbs(t, "Custom") ELSE "Karatsuba"
  ELSE IF isTower(t) THEN "Karatsuba"
  ELSE CASE t.degree = 2 -> IF Limbs(t) * 2 >= 2 THEN "Custom2" ELSE "Karatsuba"
         [] t.degree = 3 -> IF Limbs(t) * 3 >= 4 THEN "Custom" ELSE "Karatsuba"
         [] t.degree = 4 -> QuarticByLimbs(t, "Custom")
         [] OTHER -> "Karatsuba"

(* Constants of the base field, as interpolation asks for them: a fraction is *)
(* worked out by the compiler, in the prime field.                            *)
createConstBaseField(t, x) == createConstantAttr(x, t.base)
createRationalConstBaseField(t, num, denom) ==
  LET prime == getBasePrimeField(t)
  IN  Scalar(PrimeMul(prime, PrimeFieldOfInt(num, prime),
                      executeInverseOp(prime, PrimeFieldOfInt(denom, prime))), t.base)

(* From the values of a polynomial of degree 6 at 0, 1, -1, 2, -2, 3 and      *)
(* infinity to its coefficients.                                              *)
GetVandermondeInverseMatrix ==
  << << <<1, 1>>, <<0, 1>>, <<0, 1>>, <<0, 1>>, <<0, 1>>, <<0, 1>>, <<0, 1>> >>,
     << <<-1, 3>>, <<1, 1>>, <<-1, 2>>, <<-1, 4>>, <<1, 20>>, <<1, 30>>, <<-12, 1>> >>,
     << <<-5, 4>>, <<2, 3>>, <<2, 3>>, <<-1, 24>>, <<-1, 24>>, <<0, 1>>, <<4, 1>> >>,
     << <<5, 12>>, <<-7, 12>>, <<-1, 24>>, <<7, 24>>, <<-1, 24>>, <<-1, 24>>, <<15, 1>> >>,
     << <<1, 4>>, <<-1, 6>>, <<-1, 6>>, <<1, 24>>, <<1, 24>>, <<0, 1>>, <<-5, 1>> >>,
     << <<-1, 12>>, <<1, 12>>, <<1, 24>>, <<-1, 24>>, <<-1, 120>>, <<1, 120>>, <<-3, 1>> >>,
     << <<0, 1>>, <<0, 1>>, <<0, 1>>, <<0, 1>>, <<0, 1>>, <<0, 1>>, <<1, 1>> >> >>
ConstOrRational(t, q) ==
  IF q[2] = 1 THEN createConstBaseField(t, q[1]) ELSE createRationalConstBaseField(t, q[1], q[2])

-----------------------------------------------------------------------------
(* The algorithms of the field library *)

NonResidueOf(h, t) == IF h = "fold" THEN NonResidue(t) ELSE createNonResidueValue(t)
Sum(t, terms) == FoldSeq(LAMBDA x, y : Add(t, x, y), Zero(t), terms)

RECURSIVE Mul(_, _, _, _)
BaseMul(h, t, a, b) == Mul(h, t.base, a, b)

(* The coefficients 0..2n-2 of the product of two polynomials of degree n-1. *)
PolynomialProduct(h, t, a, b) ==
  LET n == t.degree
  IN  [k \in 1..2 * n - 1 |->
        Sum(t.base, [i \in 1..n |->
          IF k - i \in 0..n - 1 THEN BaseMul(h, t, a[i], b[k - i + 1]) ELSE Zero(t.base)])]

(* Karatsuba and the custom squarings compute these; Toom-Cook interpolates  *)
(* them from products at seven points.                                       *)
ToomCook(h, t, a, b) ==
  LET At(v, j) ==
        IF j = 7 THEN v[4]
        ELSE LET x == <<0, 1, -1, 2, -2, 3>>[j]
             IN  Sum(t.base, [i \in 1..4 |-> BaseMul(h, t, v[i], createConstBaseField(t, IF i = 1 THEN 1 ELSE x^(i - 1)))])
      values == [j \in 1..7 |-> BaseMul(h, t, At(a, j), At(b, j))]
  IN  [k \in 1..7 |->
        Sum(t.base, [j \in 1..7 |->
          BaseMul(h, t, ConstOrRational(t, GetVandermondeInverseMatrix[k][j]), values[j])])]

(* The upper coefficients return through the modulus: times the non-residue, *)
(* or one at a time through the low coefficients of a general modulus.       *)
FoldGeneral(h, t, c) ==
  LET m == ModulusLowCoeffs(t)
      fold[k \in t.degree..Len(c)] ==
        IF k = Len(c) THEN c
        ELSE LET f == fold[k + 1]
             IN  [i \in 1..k |-> IF i > k - t.degree
                                 THEN Add(t.base, f[i], BaseMul(h, t, f[k + 1], m[i - (k - t.degree)]))
                                 ELSE f[i]]
  IN  fold[t.degree]
FoldProduct(h, t, c) ==
  IF hasGeneralModulus(t) THEN FoldGeneral(h, t, c)
  ELSE LET xi == NonResidueOf(h, t)
       IN  [i \in 1..t.degree |-> IF i = t.degree THEN c[i]
                                  ELSE Add(t.base, c[i], BaseMul(h, t, xi, c[i + t.degree]))]

Product(algorithm, h, t, a, b) ==
  IF t.kind = "pf" THEN PrimeMul(t, a, b)
  ELSE FoldProduct(h, t, IF algorithm = "ToomCook" THEN ToomCook(h, t, a, b) ELSE PolynomialProduct(h, t, a, b))
Mul(h, t, a, b) == Product(IF t.kind = "pf" THEN "none" ELSE GetMulAlgorithm(h, t), h, t, a, b)
Square(h, t, a) == Product(IF t.kind = "pf" THEN "none" ELSE GetSquareAlgorithm(h, t), h, t, a, a)

(* a times its adjugate lies in the base field: it is the norm of a, by which *)
(* an inverse divides, down to the prime field. For a cubic the adjugate is   *)
(* made of the minors of multiplication by a; a quartic in x is a quadratic   *)
(* extension of the one by the square of x.                                   *)
X(t) == [i \in 1..t.degree |-> IF i = 2 THEN One(t.base) ELSE Zero(t.base)]
Minor(h, t, u, v) == Sub(t.base, BaseMul(h, t, u[2], v[3]), BaseMul(h, t, u[3], v[2]))
Minors(h, t, columns) == [j \in 1..3 |-> Minor(h, t, columns[(j % 3) + 1], columns[((j + 1) % 3) + 1])]
Columns(h, t, a, ax) == <<a, ax, Mul(h, t, ax, X(t))>>
Conjugate(t, a) == [i \in 1..t.degree |-> IF i % 2 = 1 THEN a[i] ELSE Negate(t.base, a[i])]
ConjugateOfEven(t, a) == [a EXCEPT ![3] = Negate(t.base, a[3])]
TimesConjugateNorm(h, t, a, conjugate) == Mul(h, t, conjugate, ConjugateOfEven(t, Mul(h, t, a, conjugate)))
Adjugate(h, t, a) ==
  CASE t.degree = 2 -> Conjugate(t, a)
    [] t.degree = 3 -> Minors(h, t, Columns(h, t, a, Mul(h, t, a, X(t))))
    [] t.degree = 4 -> TimesConjugateNorm(h, t, a, Conjugate(t, a))

MulBase(h, t, a, s) == [i \in DOMAIN a |-> BaseMul(h, t, a[i], s)]
RECURSIVE FieldInverse(_, _, _)
OverNorm(h, t, a, adjugate) == MulBase(h, t, adjugate, FieldInverse(h, t.base, Mul(h, t, a, adjugate)[1]))
FieldInverse(h, t, a) ==
  IF t.kind = "pf" THEN PrimeInverse(h = "chain", t, a) ELSE OverNorm(h, t, a, Adjugate(h, t, a))

-----------------------------------------------------------------------------
(* Powers, and operands of the base field *)

(* From the bit below the highest down, starting with the base itself. *)
TimesIf(bit, h, t, square, a) == IF bit THEN Mul(h, t, square, a) ELSE square
RECURSIVE PowFrom(_, _, _, _, _, _)
PowFrom(h, t, a, exponent, i, result) ==
  IF i = 0 \/ result = Zero(t) THEN result
  ELSE PowFrom(h, t, a, exponent, i - 1,
               TimesIf((exponent \div 2^(i - 1)) % 2 = 1, h, t, Square(h, t, result), a))
pow(h, t, a, exponent) == PowFrom(h, t, a, exponent, Log2(exponent), a)
power(t, a, exponent) == IF exponent = 0 THEN One(t) ELSE pow("fold", t, a, exponent)

AddBase(t, a, s) == [a EXCEPT ![1] = Add(t.base, a[1], s)]
SubBase(t, a, s) == [a EXCEPT ![1] = Sub(t.base, a[1], s)]

(* Two operands of one field, or the second ("base") or the first ("baseLhs") *)
(* of its base field.                                                         *)
Binary(h, op, shape, t, a, b) ==
  CASE op = "add" -> IF shape = "same" THEN Add(t, a, b) ELSE AddBase(t, a, b)
    [] op = "sub" -> IF shape = "same" THEN Sub(t, a, b)
                     ELSE IF shape = "base" THEN SubBase(t, a, b)
                     ELSE Negate(t, SubBase(t, a, b))
    [] op = "mul" -> IF shape = "same" THEN Mul(h, t, a, b) ELSE MulBase(h, t, a, b)
Unary(h, op, t, a) ==
  CASE op = "negate" -> Negate(t, a)
    [] op = "double" -> Double(t, a)
    [] op = "square" -> Square(h, t, a)
    [] op = "inverse" -> FieldInverse(h, t, a)

(* Conversion between the forms goes over every prime coefficient, and from   *)
(* a type to the one whose text differs in the form alone.                    *)
OtherForm(t) ==
  LET RECURSIVE flip(_)
      flip(text) == IF text.kind = "pf" THEN [text EXCEPT !.mont = ~text.mont]
                    ELSE [text EXCEPT !.base = flip(text.base)]
  IN  parse(flip(print(t)))
convertMont(t, a) ==
  LET prime == getBasePrimeField(t)
      c == flattenToPrimeCoeffs(a, t)
  IN  fromFlatPrimeCoeffs([i \in DOMAIN c |-> IF prime.mont THEN executeFromMontOp(prime, c[i])
                                              ELSE PrimeToMont(prime, c[i])], t)
=============================================================================
