---------------------------- MODULE ModArithOperation ----------------------------
(***************************************************************************)
(* Arithmetic of one prime field on residues in the form of its type: what *)
(* the compiler's evaluator computes, and the chain of multiplications     *)
(* that the lowering can emit for an inverse instead of a call to it.      *)
(***************************************************************************)
EXTENDS FieldTypes

Inverses ==
  [p \in {m[1] : m \in Moduli} |->
    [a \in 0..p - 1 |-> IF a = 0 THEN 0 ELSE CHOOSE b \in 1..p - 1 : (a * b) % p = 1]]

PrimeAdd(t, a, b) == (a + b) % t.p
PrimeSub(t, a, b) == ((t.p + a) - b) % t.p
PrimeNegate(t, a) == IF a = 0 THEN a ELSE t.p - a
PrimeDouble(t, a) == (2 * a) % t.p
executeMontMulOp(t, a, b) == (((a * b) % t.p) * RInv[Mod(t)]) % t.p
PrimeMul(t, a, b) == IF t.mont THEN executeMontMulOp(t, a, b) ELSE (a * b) % t.p
PrimeSquare(t, a) == PrimeMul(t, a, a)

(* The inverter multiplies by an adjuster, R squared in Montgomery form, and *)
(* leaves the zero it was given for the result where there is no inverse.    *)
executeInverseOp(t, a) ==
  LET adjuster == IF t.mont THEN (R[Mod(t)] * R[Mod(t)]) % t.p ELSE 1
  IN  (Inverses[t.p][a] * adjuster) % t.p

PrimeOne(t) == IF t.mont THEN R[Mod(t)] ELSE 1
executeFromMontOp(t, a) == (a * RInv[Mod(t)]) % t.p
PrimeToMont(t, a) == executeMontMulOp(t, a, (R[Mod(t)] * R[Mod(t)]) % t.p)

(* Ordered comparisons of the evaluator are made on standard residues. *)
PrimeLess(t, a, b) == IF t.mont THEN executeFromMontOp(t, a) < executeFromMontOp(t, b) ELSE a < b
PrimeCompare(predicate, t, a, b) ==
  CASE predicate = "eq" -> a = b
    [] predicate = "ne" -> a # b
    [] predicate = "ult" -> PrimeLess(t, a, b)
    [] predicate = "ule" -> ~PrimeLess(t, b, a)
    [] predicate = "ugt" -> PrimeLess(t, b, a)
    [] predicate = "uge" -> ~PrimeLess(t, a, b)

-----------------------------------------------------------------------------
(* The inverse x^(p - 2) of a prime p = 2^a - 2^b + 1, without a branch *)

IsPowerOf2(x) == \E k \in 0..30 : x = 2^k
Log2(x) == CHOOSE k \in 0..30 : 2^k <= x /\ x < 2^(k + 1)

(* p - 2 is a run of ones with a single zero, at bit b, that neither ends it *)
(* nor begins it.                                                            *)
detectSolinasForm(p) ==
  IF p < 5 THEN <<>>
  ELSE LET e == p - 2
           a == Log2(e) + 1
           zeros == (2^a - 1) - e
           b == Log2(zeros)
       IN  IF zeros = 0 \/ ~IsPowerOf2(zeros) \/ b = 0 \/ b + 1 >= a THEN <<>> ELSE <<a, b>>
hasInverseChain(p) == detectSolinasForm(p) # <<>>

Squared(t, x, n) ==
  LET s[k \in 0..n] == IF k = 0 THEN x ELSE PrimeSquare(t, s[k - 1]) IN s[n]
(* x to a number that is a run of k ones. *)
Ones(t, x, n) ==
  LET r[k \in 1..n] ==
        IF k = 1 THEN x
        ELSE IF k % 2 = 0 THEN PrimeMul(t, Squared(t, r[k \div 2], k \div 2), r[k \div 2])
        ELSE PrimeMul(t, PrimeSquare(t, r[k - 1]), x)
  IN  r[n]

solinasInverseChain(t, x, a, b) ==
  LET hiRun == a - 1 - b
      lo == IF hiRun < b THEN hiRun ELSE b
      hi == IF hiRun < b THEN b ELSE hiRun
      rLo == Ones(t, x, lo)
      rHi == IF hi = lo + 1 THEN PrimeMul(t, PrimeSquare(t, rLo), x) ELSE Ones(t, x, hi)
      rHiRun == IF hiRun = hi THEN rHi ELSE rLo
      rLoRun == IF b = hi THEN rHi ELSE rLo
  IN  PrimeMul(t, Squared(t, rHiRun, b + 1), rLoRun)

(* The inverse of a prime field that generated code computes; a pass may     *)
(* prefer the chain where there is one.                                      *)
PrimeInverse(preferChain, t, a) ==
  LET form == detectSolinasForm(t.p)
  IN  IF preferChain /\ form # <<>> THEN solinasInverseChain(t, a, form[1], form[2])
      ELSE executeInverseOp(t, a)
=============================================================================
