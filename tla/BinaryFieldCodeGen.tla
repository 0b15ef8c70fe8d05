-------------------------- MODULE BinaryFieldCodeGen --------------------------
(***************************************************************************)
(* The code that BinaryFieldToArith emits for one operation, run on words: *)
(* the tower algorithms of BinaryFieldCodeGen, and the flat emitters for   *)
(* GHASH and for any other modulus.                                        *)
(***************************************************************************)
EXTENDS BinaryField

Lo(a, half) == Trunc(a, half)
Hi(a, half) == ShRU(a, half)
Combine(lo, hi, half) == lo \cup ShL(hi, half, 2 * half)

(* The generator of level k times a. *)
RECURSIVE mulXTower(_, _)
mulXTower(a, level) ==
  IF level = 0 THEN a
  ELSE LET half == 2 ^ (level - 1)
           a1 == Hi(a, half)
       IN  Combine(a1, XOr(Lo(a, half), mulXTower(a1, level - 1)), half)

RECURSIVE mulTower(_, _, _)
mulTower(a, b, level) ==
  IF level = 0 THEN a \cap b
  ELSE LET half == 2 ^ (level - 1)
           a0 == Lo(a, half)  a1 == Hi(a, half)
           b0 == Lo(b, half)  b1 == Hi(b, half)
           m0 == mulTower(a0, b0, level - 1)
           m1 == mulTower(a1, b1, level - 1)
           m2 == mulTower(XOr(a0, a1), XOr(b0, b1), level - 1)
           crossTerm == XOr(XOr(m2, m0), m1)
       IN  Combine(XOr(m0, m1), XOr(crossTerm, mulXTower(m1, level - 1)), half)

RECURSIVE squareTower(_, _)
squareTower(a, level) ==
  IF level = 0 THEN a
  ELSE LET half == 2 ^ (level - 1)
           a0Sq == squareTower(Lo(a, half), level - 1)
           a1Sq == squareTower(Hi(a, half), level - 1)
       IN  Combine(XOr(a0Sq, a1Sq), mulXTower(a1Sq, level - 1), half)

ByteValue(a) == LET v[i \in 0..8] == IF i = 8 THEN 0 ELSE (IF i \in a THEN 2 ^ i ELSE 0) + v[i + 1]
                IN  v[0]
inverseLookupTable8b(a) == Word(kBinaryTower8bInverseTable[ByteValue(a) + 1])

(* The conjugate of a over its norm, one level at a time down to the table. *)
RECURSIVE inverseTower(_, _)
inverseTower(a, level) ==
  IF level = 3 THEN inverseLookupTable8b(a)
  ELSE LET half == 2 ^ (level - 1)
           a0 == Lo(a, half)  a1 == Hi(a, half)
           conjLo == XOr(a0, mulXTower(a1, level - 1))
           betaA0a1 == mulXTower(mulTower(a0, a1, level - 1), level - 1)
           norm == XOr(XOr(squareTower(a0, level - 1), betaA0a1), squareTower(a1, level - 1))
           normInv == inverseTower(norm, level - 1)
       IN  Combine(mulTower(conjLo, normInv, level - 1), mulTower(a1, normInv, level - 1), half)

(* a^(2^n - 2) as the product of a^2, a^4, ... *)
RECURSIVE FermatLoop(_, _, _, _)
FermatLoop(result, power, i, level) ==
  IF i >= 2 ^ level \/ result = {} THEN result
  ELSE LET p == squareTower(power, level)
       IN  FermatLoop(mulTower(result, p, level), p, i + 1, level)

codeGenInverse(a, level) ==
  IF level = 3 THEN inverseLookupTable8b(a)
  ELSE IF level >= 4 THEN inverseTower(a, level)
  ELSE LET sq == squareTower(a, level) IN FermatLoop(sq, sq, 2, level)

(* A storage word enters the tower algorithms truncated and leaves extended. *)
Enter(type, word) == Trunc(word, BitWidth(type))
CodeGen(op, type, x, y) ==
  LET a == Enter(type, x)
      b == Enter(type, y)
  IN  CASE op \in {"add", "sub"} -> XOr(a, b)
        [] op = "negate" -> a
        [] op = "double" -> {}
        [] op = "mul" -> mulTower(a, b, type.level)
        [] op = "square" -> squareTower(a, type.level)
        [] op = "inverse" -> codeGenInverse(a, type.level)

-----------------------------------------------------------------------------
(* The flat emitters. *)

(* addi and muli of w bits: what carries out of a sum is added to it one place *)
(* up, and a product adds one shifted copy of a for every bit of b.            *)
RECURSIVE AddI(_, _, _)
AddI(a, b, w) == IF b = {} THEN a ELSE AddI(XOr(a, b), ShL(a \cap b, 1, w), w)

RECURSIVE MulI(_, _, _)
MulI(a, b, w) ==
  IF b = {} THEN {} ELSE AddI(ShL(a, Top(b), w), MulI(a, b \ {Top(b)}, w), w)

(* Bits four apart: up to eight partial products meet in a column, and their *)
(* sum stays below the next column of the same group.                        *)
kGroup(k, w) == {i \in 0..w - 1 : i % 4 = k}

emitClmul32(a, bv) ==
  LET slot == [k \in 0..3, j \in 0..3 |->
                 MulI(a \cap kGroup(k, 32), bv \cap kGroup(j, 32), 64) \cap kGroup((k + j) % 4, 64)]
  IN  {i \in 0..63 : Cardinality({p \in DOMAIN slot : i \in slot[p]}) % 2 = 1}

Karatsuba64(ll, hh, cross) ==
  [lo |-> XOr(ll, ShL(cross, 32, 64)), hi |-> XOr(hh, ShRU(cross, 32))]
WithCross64(ll, hh, mid) == Karatsuba64(ll, hh, XOr(XOr(mid, ll), hh))
emitClmul64(a, bv) ==
  LET a0 == Trunc(a, 32)  a1 == ShRU(a, 32)
      b0 == Trunc(bv, 32) b1 == ShRU(bv, 32)
  IN  WithCross64(emitClmul32(a0, b0), emitClmul32(a1, b1), emitClmul32(XOr(a0, a1), XOr(b0, b1)))

emitGhashReduce(r0, r1, r2, r3) ==
  LET shl(v, s) == ShL(v, s, 64)
      fold(v, carry(_)) == XOr(XOr(XOr(v, shl(v, 1) \cup carry(63)), shl(v, 2) \cup carry(62)),
                               shl(v, 7) \cup carry(57))
      none(s) == {}
      fromLow(s) == ShRU(r2, s)
      ov == XOr(XOr(ShRU(r3, 63), ShRU(r3, 62)), ShRU(r3, 57))
      corr == fold(ov, none)
  IN  [lo |-> XOr(XOr(r0, fold(r2, none)), corr), hi |-> XOr(r1, fold(r3, fromLow))]

Limb(a, i) == Trunc(ShRU(a, 64 * i), 64)
Join(limbs) == limbs.lo \cup ShL(limbs.hi, 64, 128)

KaratsubaGhash(ll, hh, m) ==
  LET crLo == XOr(XOr(m.lo, ll.lo), hh.lo)
      crHi == XOr(XOr(m.hi, ll.hi), hh.hi)
  IN  Join(emitGhashReduce(ll.lo, XOr(ll.hi, crLo), XOr(hh.lo, crHi), hh.hi))
emitGhashMul(a, bv) ==
  LET a0 == Limb(a, 0)   a1 == Limb(a, 1)
      b0 == Limb(bv, 0)  b1 == Limb(bv, 1)
  IN  KaratsubaGhash(emitClmul64(a0, b0), emitClmul64(a1, b1), emitClmul64(XOr(a0, a1), XOr(b0, b1)))

(* A step's mask keeps the lower half of every block of twice its shift. *)
SpreadMask(shift) == {i \in 0..63 : i % (2 * shift) < shift}
RECURSIVE SpreadFrom(_, _)
SpreadFrom(x, shift) ==
  IF shift = 0 THEN x
  ELSE SpreadFrom((x \cup ShL(x, shift, 64)) \cap SpreadMask(shift), shift \div 2)
emitSpreadEven32(x) == SpreadFrom(x, 16)
emitSpreadEven64(a) == [lo |-> emitSpreadEven32(Trunc(a, 32)), hi |-> emitSpreadEven32(ShRU(a, 32))]

emitGhashSquare(a) ==
  LET low == emitSpreadEven64(Limb(a, 0))
      high == emitSpreadEven64(Limb(a, 1))
  IN  Join(emitGhashReduce(low.lo, low.hi, high.lo, high.hi))

RECURSIVE GhashPow2k(_, _)
GhashPow2k(v, k) == IF k = 0 \/ v = {} THEN v ELSE GhashPow2k(emitGhashSquare(v), k - 1)

(* t_k = a^(2^k - 1), along 1 2 3 6 7 14 28 56 63 126 127: a step squares the *)
(* i-th of them k times and multiplies it by the j-th.                         *)
kGhashChain == << <<1, 1, 1>>, <<2, 1, 1>>, <<3, 3, 3>>, <<4, 1, 1>>, <<5, 7, 5>>,
                  <<6, 14, 6>>, <<7, 28, 7>>, <<8, 7, 5>>, <<9, 63, 9>>, <<10, 1, 1>> >>
RECURSIVE GhashChain(_, _)
GhashChain(ts, step) ==
  IF Len(ts) > Len(kGhashChain) THEN ts[Len(ts)]
  ELSE GhashChain(Append(ts, emitGhashMul(GhashPow2k(ts[step[1]], step[2]), ts[step[3]])),
                  IF Len(ts) = Len(kGhashChain) THEN step ELSE kGhashChain[Len(ts) + 1])
emitGhashInverse(a) == emitGhashSquare(GhashChain(<<a>>, kGhashChain[1]))

(* The product of v and the low part of the modulus: its lower 64 bits, and  *)
(* those that spill over them.                                               *)
emitFlatModTaps(v, low) ==
  {k \in 0..63 : Cardinality({tap \in low : k \in ShL(v, tap, 64)}) % 2 = 1}
emitFlatModTapsSpill(v, low) ==
  {k \in 0..63 : Cardinality({tap \in low \ {0} : k \in ShRU(v, 64 - tap)}) % 2 = 1}

FoldTwoLimbs(p, low) ==
  XOr(XOr(p.lo, emitFlatModTaps(p.hi, low)), emitFlatModTaps(emitFlatModTapsSpill(p.hi, low), low))
FoldOnce(p, hi, low) == XOr(p, emitFlatModTaps(hi, low))
FoldAgain(t1, hi, n, low) == XOr(t1, emitFlatModTaps(XOr(ShRU(t1, n), hi), low))
FoldTwice(p, n, low) == FoldAgain(FoldOnce(p, ShRU(p, n), low), ShRU(p, n), n, low)

(* One copy of a, shifted, for every bit of b among the first n. *)
ShiftXor(a, b, n) == Trunc(Clmul(a, b \cap 0..n - 1), 64)

(* Mutant: bits above the element are not masked. *)
emitFlatGenericMulUnmasked(type, x, y) ==
  Trunc(FoldTwice(ShiftXor(x, y, BitWidth(type)), BitWidth(type), type.flatModLow), StorageWidth(type))

emitFlatGenericMul(type, x, y) ==
  LET n == BitWidth(type)
      kept(v) == IF StorageWidth(type) > n THEN Trunc(v, n) ELSE v
  IN  IF n = 64 THEN FoldTwoLimbs(emitClmul64(x, y), type.flatModLow)
      ELSE Trunc(kept(FoldTwice(ShiftXor(kept(x), kept(y), n), n, type.flatModLow)), StorageWidth(type))

emitFlatGenericSquare(type, a) == emitFlatGenericMul(type, a, a)

RECURSIVE Squared(_, _, _)
Squared(type, v, k) == IF k = 0 \/ v = {} THEN v ELSE Squared(type, emitFlatGenericSquare(type, v), k - 1)

(* The ladder reads the bits of e = n - 1 below the top one: t = a^(2^m - 1). *)
RECURSIVE Ladder(_, _, _, _, _)
Ladder(type, a, t, m, i) ==
  IF i < 0 \/ t = {} THEN t
  ELSE LET doubled == emitFlatGenericMul(type, Squared(type, t, m), t)
       IN  IF i \in Word(BitWidth(type) - 1)
           THEN Ladder(type, a, emitFlatGenericMul(type, emitFlatGenericSquare(type, doubled), a), 2 * m + 1, i - 1)
           ELSE Ladder(type, a, doubled, 2 * m, i - 1)

emitFlatGenericInverse(type, a) ==
  emitFlatGenericSquare(type, Ladder(type, a, a, 1, Top(Word(BitWidth(type) - 1)) - 1))

-----------------------------------------------------------------------------
(* The conversion patterns.  A flat product of a shaped value is refused; of *)
(* a shaped value in the tower basis the halves are taken with scalar types  *)
(* and constants, as is the zero of a double, and the code does not verify.  *)

ConvertFlat(op, type, a, b) ==
  CASE op = "mul"     -> IF isGhash(type) THEN emitGhashMul(a, b) ELSE emitFlatGenericMul(type, a, b)
    [] op = "square"  -> IF isGhash(type) THEN emitGhashSquare(a) ELSE emitFlatGenericSquare(type, a)
    [] op = "inverse" -> IF isGhash(type) THEN emitGhashInverse(a) ELSE emitFlatGenericInverse(type, a)

Multiplicative == {"mul", "square", "inverse"}
Legalizes(op, type, shape) == op \in Multiplicative /\ ~isTower(type) => shape = "scalar"
EmitsScalars(op, type) == op = "double" \/ (op \in Multiplicative /\ isTower(type) /\ type.level > 0)
Verifies(op, type, shape) == EmitsScalars(op, type) => shape = "scalar"
(* cmpi on the storage words, whatever they hold above the element; an i1 is *)
(* {0} or {}.                                                                *)
Predicates == {"eq", "ne"}
ConvertBinaryFieldCmp(predicate, a, b) == {i \in {0} : (predicate = "eq") = (a = b)}

Convert(op, type, a, b) ==
  IF op \in Predicates THEN ConvertBinaryFieldCmp(op, a, b)
  ELSE IF op \in Multiplicative /\ ~isTower(type) THEN ConvertFlat(op, type, a, b)
  ELSE CodeGen(op, type, a, b)
=============================================================================
