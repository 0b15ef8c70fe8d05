------------------------------ MODULE BinaryField ------------------------------
(***************************************************************************)
(* The types field.bf<level>, tower and flat, what their verifier accepts, *)
(* and the evaluator that folds constants.                                 *)
(*                                                                         *)
(* A word, an element and a polynomial over GF(2) are the set of their     *)
(* one bits, so that widths up to 128 stay exact.                          *)
(***************************************************************************)
EXTENDS Integers, Sequences, FiniteSets, BinaryFieldTables

(* Words of w bits: xori, andi (\cap), shli, shrui, trunci; extui is nothing. *)
XOr(a, b) == (a \ b) \cup (b \ a)
ShL(a, s, w) == {i + s : i \in {j \in a : j + s < w}}
ShRU(a, s) == {i - s : i \in {j \in a : j >= s}}
Trunc(a, w) == {i \in a : i < w}

(* The set of bits of an integer constant. *)
Word(v) == Bits(v)

(* The carry-less product, by the parity of each column. *)
Clmul(a, b) ==
  {k \in {i + j : i \in a, j \in b} : Cardinality({i \in a : k - i \in b}) % 2 = 1}

-----------------------------------------------------------------------------
(* Types. *)

kMaxTowerLevel == 7
kCanonicalFlatModLow == <<{}, Word(3), Word(3), Word(\h1b), Word(\h2b), Word(\h8d), Word(\h1b), Word(\h87)>>

Tower(level) == [level |-> level, isFlat |-> FALSE, flatModLow |-> {}]
Poly(level, low) == [level |-> level, isFlat |-> TRUE, flatModLow |-> low]
Flat(level) == Poly(level, kCanonicalFlatModLow[level + 1])

BitWidth(type) == 2 ^ type.level
StorageWidth(type) == IF BitWidth(type) < 8 THEN 8 ELSE BitWidth(type)
isTower(type) == ~type.isFlat
isGhash(type) == type = Flat(7)
isGenericFlat(type) == type.isFlat /\ ~isGhash(type)

Words(w) == SUBSET (0..w - 1)
ElementOf(type, word) == Trunc(word, BitWidth(type))

-----------------------------------------------------------------------------
(* The verifier: Rabin's test on y^n + low. *)

Top(p) == CHOOSE i \in p : \A j \in p : j <= i
ActiveBits(p) == IF p = {} THEN 0 ELSE Top(p) + 1

(* What lies above y^n is worth low times as much below, again and again. *)
RECURSIVE polyReduce(_, _, _)
polyReduce(p, low, n) ==
  IF ActiveBits(p) <= n THEN p ELSE polyReduce(XOr(Trunc(p, n), Clmul(ShRU(p, n), low)), low, n)

polyClmul(a, b, n) == Trunc(Clmul(a, b), 2 * n)

(* y^(2^e), one squaring at a time. *)
RECURSIVE SquaredY(_, _, _, _)
SquaredY(r, e, low, n) ==
  IF e = 0 \/ r = {} THEN r ELSE SquaredY(polyReduce(polyClmul(r, r, n), low, n), e - 1, low, n)
yPow2Exp(e, low, n) == SquaredY({1}, e, low, n)

RECURSIVE Remainder(_, _)
Remainder(a, b) ==
  IF a = {} \/ ActiveBits(a) < ActiveBits(b) THEN a
  ELSE Remainder(XOr(a, {i + ActiveBits(a) - ActiveBits(b) : i \in b}), b)

RECURSIVE EuclidEnds(_, _)
EuclidEnds(a, b) ==
  IF a = {} THEN b
  ELSE LET r == Remainder(a, b)
       IN  IF ActiveBits(r) <= 1 THEN r ELSE EuclidEnds(b, r)

(* Mutant: without the greatest common divisor. *)
isIrreduciblePolyNoGcd(low, n) == yPow2Exp(n, low, n) = {1}

isIrreduciblePoly(low, n) ==
  /\ yPow2Exp(n, low, n) = {1}
  /\ ActiveBits(EuclidEnds(XOr(yPow2Exp(n \div 2, low, n), {1}), low \cup {n})) = 1

verify(type) ==
  IF isTower(type) THEN type.level <= kMaxTowerLevel /\ type.flatModLow = {}
  ELSE /\ type.level \in 1..kMaxTowerLevel
       /\ type.level = 7 => type.flatModLow = kCanonicalFlatModLow[8]
       /\ 0 \in type.flatModLow
       /\ 2 * Top(type.flatModLow) <= BitWidth(type)
       /\ type.level <= 6 => isIrreduciblePoly(type.flatModLow, BitWidth(type))

-----------------------------------------------------------------------------
(* The textual form: a level, a basis, and the modulus of a poly basis. *)

NoType == [level |-> -1, isFlat |-> FALSE, flatModLow |-> {}]
parse(text) ==
  LET n == 2 ^ text.level
  IN  CASE text.level > kMaxTowerLevel -> NoType
        [] text.basis = "" -> Tower(text.level)
        [] text.basis = "ghash" -> IF text.level = kMaxTowerLevel THEN Flat(text.level) ELSE NoType
        [] text.basis = "aes" -> IF text.level = 3 THEN Flat(3) ELSE NoType
        [] text.basis = "flat" -> IF text.level = 0 THEN NoType ELSE Flat(text.level)
        [] text.basis = "poly" -> IF /\ ActiveBits(text.modulus) = n + 1
                                     /\ ActiveBits(text.modulus \ {n}) <= 64
                                  THEN Poly(text.level, text.modulus \ {n})
                                  ELSE NoType

isAes(type) == type = Flat(3)
isCanonicalFlat(type) == type.level # 0 /\ type = Flat(type.level)
print(type) ==
  [level |-> type.level,
   basis |-> CASE isTower(type) -> "" [] isGhash(type) -> "ghash" [] isAes(type) -> "aes"
               [] isCanonicalFlat(type) -> "flat" [] OTHER -> "poly",
   modulus |-> IF isTower(type) THEN {} ELSE type.flatModLow \cup {BitWidth(type)}]

-----------------------------------------------------------------------------
(* What a product is: polynomials modulo the modulus in a flat basis, and in  *)
(* a tower X_k^2 = X_(k-1) * X_k + 1 with X_0 = 1.                           *)

Generator(level) == IF level = 0 THEN {0} ELSE {2 ^ (level - 1)}

RECURSIVE TowerProduct(_, _, _)
TowerProduct(a, b, level) ==
  IF a = {} \/ b = {} THEN {}
  ELSE IF level = 0 THEN a \cap b
  ELSE LET half == 2 ^ (level - 1)
           lo(x) == Trunc(x, half)
           hi(x) == ShRU(x, half)
           ll == TowerProduct(lo(a), lo(b), level - 1)
           lh == TowerProduct(lo(a), hi(b), level - 1)
           hl == TowerProduct(hi(a), lo(b), level - 1)
           hh == TowerProduct(hi(a), hi(b), level - 1)
           x  == TowerProduct(Generator(level - 1), hh, level - 1)
       IN  XOr(ll, hh) \cup {i + half : i \in XOr(XOr(lh, hl), x)}

Product(type, a, b) ==
  IF isTower(type) THEN TowerProduct(a, b, type.level)
  ELSE polyReduce(Clmul(a, b), type.flatModLow, BitWidth(type))

-----------------------------------------------------------------------------
(* BinaryFieldOperation: the values the folder computes.  Its products are   *)
(* those of zk_dtypes, which knows towers only.                              *)

fromUnchecked(type, word) == ElementOf(type, word)
OperationMul(type, a, b) == TowerProduct(a, b, type.level)
OperationSquare(type, a) == TowerProduct(a, a, type.level)
OperationInverse(type, a) ==
  IF a = {} THEN {}
  ELSE CHOOSE x \in Words(BitWidth(type)) : TowerProduct(a, x, type.level) = {0}

(* Mutant: flat products are folded as if they were tower products. *)
isFlatBasisResultNever(type) == FALSE

isFlatBasisResult(type) == ~isTower(type)

(* Folds says which operations on constants the folder takes. *)
Folds(op, type) == op \in {"mul", "square", "inverse"} => ~isFlatBasisResult(type)
Fold(op, type, a, b) ==
  LET x == fromUnchecked(type, a)
      y == fromUnchecked(type, b)
  IN  CASE op \in {"add", "sub"} -> XOr(x, y)
        [] op = "negate" -> x
        [] op = "double" -> {}
        [] op = "mul" -> OperationMul(type, x, y)
        [] op = "square" -> OperationSquare(type, x)
        [] op = "inverse" -> OperationInverse(type, x)
=============================================================================
