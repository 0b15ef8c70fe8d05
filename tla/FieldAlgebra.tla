------------------------------ MODULE FieldAlgebra ------------------------------
(***************************************************************************)
(* The ring that the text of a type stands for: residues in standard form  *)
(* and polynomials over the base ring, reduced from the top by the modulus *)
(* x^n = nonResidue, or x^n = sum of m[j] x^j. Nothing here knows of       *)
(* Montgomery form, of algorithms, or of how a type stores its modulus.    *)
(***************************************************************************)
EXTENDS FieldFolds

RECURSIVE RingZero(_)
RingZero(text) == IF text.kind = "pf" THEN 0 ELSE [i \in 1..text.degree |-> RingZero(text.base)]
RECURSIVE RingOfInt(_, _)
RingOfInt(n, text) ==
  IF text.kind = "pf" THEN n % text.p
  ELSE [i \in 1..text.degree |-> IF i = 1 THEN RingOfInt(n, text.base) ELSE RingZero(text.base)]
RECURSIVE RingAdd(_, _, _)
RingAdd(text, a, b) ==
  IF text.kind = "pf" THEN (a + b) % text.p
  ELSE [i \in 1..text.degree |-> RingAdd(text.base, a[i], b[i])]
RECURSIVE RingNegate(_, _)
RingNegate(text, a) ==
  IF text.kind = "pf" THEN (text.p - a) % text.p
  ELSE [i \in 1..text.degree |-> RingNegate(text.base, a[i])]
RingSub(text, a, b) == RingAdd(text, a, RingNegate(text, b))

(* The low coefficients that x^n is replaced by. *)
ModulusOf(text) ==
  IF hasGeneralModulus(text) THEN text.nonResidue
  ELSE [j \in 1..text.degree |->
         IF j > 1 THEN RingZero(text.base)
         ELSE IF text.dense THEN fromFlatPrimeCoeffs(text.nonResidue, text.base)
         ELSE RingOfInt(text.nonResidue[1], text.base)]

(* Horner's rule: a[1] + x (a[2] + x (...)), times b. *)
RECURSIVE RingMul(_, _, _)
TimesX(text, c) ==
  LET n == text.degree
      m == ModulusOf(text)
  IN  [i \in 1..n |-> RingAdd(text.base, IF i = 1 THEN RingZero(text.base) ELSE c[i - 1],
                              RingMul(text.base, c[n], m[i]))]
RingMul(text, a, b) ==
  IF text.kind = "pf" THEN (a * b) % text.p
  ELSE LET n == text.degree
           Scaled(s) == [i \in 1..n |-> RingMul(text.base, s, b[i])]
           horner[k \in 1..n] ==
             IF k = n THEN Scaled(a[n]) ELSE RingAdd(text, Scaled(a[k]), TimesX(text, horner[k + 1]))
       IN  horner[1]

(* The ring element that a value of a type stands for. *)
Meaning(t, v) ==
  LET c == flattenToPrimeCoeffs(v, t)
      rInverse == IF isMontgomery(t) THEN RInv[Mod(t)] ELSE 1
  IN  fromFlatPrimeCoeffs([i \in DOMAIN c |-> (c[i] * rInverse) % Mod(t)[1]], t)
=============================================================================
