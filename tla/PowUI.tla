-------------------------------- MODULE PowUI --------------------------------
(***************************************************************************)
(* The lowering of field.powui (ConvertPowUI) over a prime field, or over  *)
(* its quadratic extension by a square root of NonResidue: the exponent is *)
(* reduced modulo the order of the multiplicative group, when the program  *)
(* is compiled or when it runs, and the binary method does the rest.       *)
(***************************************************************************)
EXTENDS BitSerial

CONSTANTS
  Modulus,     \* the characteristic
  Degree,      \* over the prime field: 1 or 2
  NonResidue,
  Exponent     \* the exponents that occur

\* The modulus is prime and NonResidue has no square root modulo it.
ASSUME FieldAssumption == /\ Modulus \in Nat \ {0, 1} /\ Degree \in {1, 2}
                          /\ \A a \in 2 .. Modulus - 1 : Modulus % a # 0
                          /\ NonResidue \in 1 .. Modulus - 1
                          /\ Degree = 2 => \A a \in 0 .. Modulus - 1 :
                                             (a * a) % Modulus # NonResidue
ASSUME ExponentAssumption == Exponent \subseteq Nat

VARIABLES base, exp

powVars == <<vars, base, exp>>

Element == (0 .. Modulus - 1) \X (IF Degree = 1 THEN {0} ELSE 0 .. Modulus - 1)
Zero == <<0, 0>>
One  == <<1, 0>>

\* The product of a0 + a1 u and b0 + b1 u, where u * u is NonResidue.
Mul(a, b) == << (a[1] * b[1] + NonResidue * a[2] * b[2]) % Modulus,
                (a[1] * b[2] + a[2] * b[1]) % Modulus >>

\* What the document of the operation promises.
Power(a, n) == LET f[k \in Nat] == IF k = 0 THEN One ELSE Mul(f[k - 1], a)
               IN  f[n]

\* Mutant of Order: an extension field has the order of its prime field.
BaseOrder == Modulus - 1

\* The order of the multiplicative group.
Order == (IF Degree = 1 THEN Modulus ELSE Modulus * Modulus) - 1

\* The exponent the loop is generated for.
ReducedExp(n) == n % Order

InitPow == /\ base \in Element /\ exp \in Exponent
           /\ constant \in BOOLEAN
           /\ InitFrom(ReducedExp(exp))

NextPow == Next /\ UNCHANGED <<base, exp>>
SpecPow == InitPow /\ [][NextPow]_powVars

-----------------------------------------------------------------------------
\* A power of a nonzero base is exact, whatever multiple of the order the
\* exponent exceeds it by.
UnitPowered == pc = "done" /\ base # Zero => Power(base, result) = Power(base, exp)
=============================================================================
