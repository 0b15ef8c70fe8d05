-------------------------- MODULE BinaryFieldTargets --------------------------
(***************************************************************************)
(* The passes that replace products and squares of binary fields by the    *)
(* instructions of a target: GFNI and PCLMULQDQ on x86, PMULL on ARM,      *)
(* clmad on NVPTX.  A shape is scalar, dynamic, or a static number of      *)
(* lanes; a lane of a shaped value is computed like any other.             *)
(***************************************************************************)
EXTENDS BinaryFieldCodeGen

(* The instructions, outside this repository. *)
Parity(a) == Cardinality(a) % 2
vgf2p8affineqb(x, matrix) == {i \in 0..7 : Parity(matrix[7 - i] \cap x) = 1}
vgf2p8mulb(x, y) == polyReduce(Clmul(x, y), Word(\h1b), 8)
vpclmulqdq(x, y, xHalf, yHalf) == Clmul(Limb(x, xHalf), Limb(y, yHalf))
pmull(x, y) == Clmul(Limb(x, 0), Limb(y, 0))
pmull2(x, y) == Clmul(Limb(x, 1), Limb(y, 1))
pmull8(x, y) == Clmul(x, y)
clmadLo(x, y, c) == XOr(Trunc(Clmul(x, y), 64), c)
clmadHi(x, y, c) == XOr(ShRU(Clmul(x, y), 64), c)

-----------------------------------------------------------------------------
(* GFNI: into the field of the instruction, multiply, and back. *)

emitGF2P8AffineQB(x, matrix) == vgf2p8affineqb(x, packMatrixForAffine(matrix))

mulBF8PackedGFNI(x, y) ==
  LET toAes(v) == emitGF2P8AffineQB(v, kTowerToAesMatrix)
  IN  emitGF2P8AffineQB(vgf2p8mulb(toAes(x), toAes(y)), kAesToTowerMatrix)

-----------------------------------------------------------------------------
(* The GHASH reduction the three targets share, folding one limb at a time. *)

kGhashReductionShifts == {7, 2, 1, 0}
kGhashOverflowShifts == {57, 62, 63}

reduceGhash(high) ==
  [red      |-> {k \in 0..63 : Cardinality({s \in kGhashReductionShifts : k - s \in high}) % 2 = 1},
   overflow |-> {k \in 0..63 : Cardinality({s \in kGhashOverflowShifts : k + s \in high}) % 2 = 1}]

(* Mutant: the overflow of the first fold is forgotten. *)
reduceGhashProductNoOverflow(r0, r1, r2, r3) ==
  Join([lo |-> XOr(r0, reduceGhash(r2).red),
        hi |-> XOr(XOr(r1, reduceGhash(r3).red), reduceGhash(r2).overflow)])

reduceGhashProduct(r0, r1, r2, r3) ==
  LET f3 == reduceGhash(r3)
      f2 == reduceGhash(XOr(r2, f3.overflow))
  IN  Join([lo |-> XOr(r0, f2.red), hi |-> XOr(XOr(r1, f3.red), f2.overflow)])

(* Three products of 64 bits, each of 128, put together. *)
Karatsuba(ll, hh, m) ==
  LET mid == XOr(XOr(m, ll), hh)
  IN  reduceGhashProduct(Limb(ll, 0), XOr(Limb(ll, 1), Limb(mid, 0)),
                         XOr(Limb(hh, 0), Limb(mid, 1)), Limb(hh, 1))

Swapped(x) == Limb(x, 1) \cup ShL(Limb(x, 0), 64, 128)

mulGhashPCLMULQDQ(x, y) ==
  Karatsuba(vpclmulqdq(x, y, 0, 0), vpclmulqdq(x, y, 1, 1),
            vpclmulqdq(XOr(x, Swapped(x)), XOr(y, Swapped(y)), 0, 0))

squareGhashPCLMULQDQ(x) ==
  LET ll == vpclmulqdq(x, x, 0, 0)
      hh == vpclmulqdq(x, x, 1, 1)
  IN  reduceGhashProduct(Limb(ll, 0), Limb(ll, 1), Limb(hh, 0), Limb(hh, 1))

mulGhashPMULL(x, y) ==
  Karatsuba(pmull(x, y), pmull2(x, y), pmull(XOr(x, Swapped(x)), XOr(y, Swapped(y))))

-----------------------------------------------------------------------------
(* Packed bytes on ARM: one fold of the high byte of each 16-bit product. *)

reduceTowerLevel3Packed(high) ==
  XOr(XOr(XOr(ShL(high, 4, 16), ShL(high, 3, 16)), ShL(high, 1, 16)), high)

mulBF8PackedPMULL(x, y) ==
  LET prod == pmull8(x, y)
  IN  Trunc(XOr(Trunc(prod, 8), reduceTowerLevel3Packed(ShRU(prod, 8))), 8)

-----------------------------------------------------------------------------
(* clmad *)

mulGhashClmad(x, y) ==
  LET a0 == Limb(x, 0)  a1 == Limb(x, 1)
      b0 == Limb(y, 0)  b1 == Limb(y, 1)
      llLo == clmadLo(a0, b0, {})  llHi == clmadHi(a0, b0, {})
      hhLo == clmadLo(a1, b1, {})  hhHi == clmadHi(a1, b1, {})
      midLo == clmadLo(XOr(a0, a1), XOr(b0, b1), XOr(llLo, hhLo))
      midHi == clmadHi(XOr(a0, a1), XOr(b0, b1), XOr(llHi, hhHi))
  IN  reduceGhashProduct(llLo, XOr(llHi, midLo), XOr(hhLo, midHi), hhHi)

squareGhashClmad(x) ==
  LET a0 == Limb(x, 0)  a1 == Limb(x, 1)
  IN  reduceGhashProduct(clmadLo(a0, a0, {}), clmadHi(a0, a0, {}), clmadLo(a1, a1, {}), clmadHi(a1, a1, {}))

(* The linear map whose i-th column is the image of bit i. *)
emitBitMatrix(x, cols) ==
  {k \in 0..63 : Cardinality({i \in x : k \in cols[i]}) % 2 = 1}
emitBitMatrix128(x, colsLo, colsHi) ==
  Join([lo |-> emitBitMatrix(x, colsLo), hi |-> emitBitMatrix(x, colsHi)])

mulFlatClmad(x, y, n, low) ==
  LET p == clmadLo(x, y, {})
      hi == ShRU(p, n)
      t1 == clmadLo(hi, low, p)
      h2 == XOr(ShRU(t1, n), hi)
  IN  clmadLo(h2, low, t1)

mulFlat64Clmad(x, y, low) ==
  LET pLo == clmadLo(x, y, {})
      pHi == clmadHi(x, y, {})
      r == clmadLo(pHi, low, pLo)
      spill == clmadHi(pHi, low, {})
  IN  clmadLo(spill, low, r)

TowerToFlat(level) ==
  CASE level = 4 -> kTowerToFlat16 [] level = 5 -> kTowerToFlat32 [] level = 6 -> kTowerToFlat64
FlatToTower(level) ==
  CASE level = 4 -> kFlatToTower16 [] level = 5 -> kFlatToTower32 [] level = 6 -> kFlatToTower64

mulTowerClmad(type, x, y) ==
  LET n == BitWidth(type)
      low == kCanonicalFlatModLow[type.level + 1]
      flat(v) == emitBitMatrix(v, TowerToFlat(type.level))
      prodFlat == IF n = 64 THEN mulFlat64Clmad(flat(x), flat(y), low)
                  ELSE Trunc(mulFlatClmad(flat(x), flat(y), n, low), n)
      flat128(v) == emitBitMatrix128(v, kTowerToFlat128Lo, kTowerToFlat128Hi)
  IN  IF type.level = 7
      THEN emitBitMatrix128(mulGhashClmad(flat128(x), flat128(y)), kFlatToTower128Lo, kFlatToTower128Hi)
      ELSE emitBitMatrix(prodFlat, FlatToTower(type.level))

mulFlatGenericClmad(type, x, y) ==
  LET n == BitWidth(type)
      masked(v) == IF StorageWidth(type) > n THEN Trunc(v, n) ELSE v
  IN  IF n = 64 THEN mulFlat64Clmad(x, y, type.flatModLow)
      ELSE Trunc(masked(mulFlatClmad(masked(x), masked(y), n, type.flatModLow)), StorageWidth(type))

-----------------------------------------------------------------------------
(* The patterns: which operation, type and shape each one takes.  A product *)
(* that is unrolled lane by lane needs a static shape.                       *)

Lanes(shape) == shape \notin {"scalar", "dynamic"}
replaceFlatFieldMul(shape) == shape # "dynamic"
Products == {"mul", "square"}

ConvertPackedBF8ToGFNI(op, type, shape) ==
  op \in Products /\ type.level = 3 /\ Lanes(shape) /\ shape \in {"16", "32", "64"}
ConvertGhashToPCLMULQDQ(op, type, shape) ==
  op \in Products /\ isGhash(type) /\ replaceFlatFieldMul(shape)
ConvertPackedBF8ToPMULL(op, type, shape) == op \in Products /\ type.level = 3 /\ shape = "16"
ConvertGhashToPMULL(op, type, shape) == op \in Products /\ isGhash(type) /\ replaceFlatFieldMul(shape)
ConvertGhashToClmad(op, type, shape) == op \in Products /\ isGhash(type) /\ replaceFlatFieldMul(shape)
ConvertTowerMulToClmad(op, type, shape) ==
  op = "mul" /\ isTower(type) /\ type.level \in 4..7 /\ replaceFlatFieldMul(shape)
ConvertFlatGenericMulToClmad(op, type, shape) ==
  op = "mul" /\ isGenericFlat(type) /\ replaceFlatFieldMul(shape)

Specializes(target, op, type, shape) ==
  CASE target = "portable" -> FALSE
    [] target = "x86"   -> \/ ConvertPackedBF8ToGFNI(op, type, shape)
                           \/ ConvertGhashToPCLMULQDQ(op, type, shape)
    [] target = "arm"   -> \/ ConvertPackedBF8ToPMULL(op, type, shape)
                           \/ ConvertGhashToPMULL(op, type, shape)
    [] target = "nvptx" -> \/ ConvertGhashToClmad(op, type, shape)
                           \/ ConvertTowerMulToClmad(op, type, shape)
                           \/ ConvertFlatGenericMulToClmad(op, type, shape)

(* A square passes its operand twice. *)
Specialized(target, op, type, a, y) ==
  LET b == IF op = "square" THEN a ELSE y
  IN  CASE target = "x86" -> IF type.level = 3 THEN mulBF8PackedGFNI(a, b)
                             ELSE IF op = "square" THEN squareGhashPCLMULQDQ(a)
                             ELSE mulGhashPCLMULQDQ(a, b)
        [] target = "arm" -> IF type.level = 3 THEN mulBF8PackedPMULL(a, b) ELSE mulGhashPMULL(a, b)
        [] target = "nvptx" -> IF isGhash(type)
                               THEN IF op = "square" THEN squareGhashClmad(a) ELSE mulGhashClmad(a, b)
                               ELSE IF isTower(type) THEN mulTowerClmad(type, a, b)
                               ELSE mulFlatGenericClmad(type, a, b)

(* The pipeline of a target: its pass first, and BinaryFieldToArith for what *)
(* is left.                                                                  *)
Compiles(target, op, type, shape) ==
  \/ Specializes(target, op, type, shape)
  \/ Legalizes(op, type, shape) /\ Verifies(op, type, shape)
Emitted(target, op, type, shape, a, b) ==
  IF Specializes(target, op, type, shape) THEN Specialized(target, op, type, a, b)
  ELSE Convert(op, type, a, b)
=============================================================================
