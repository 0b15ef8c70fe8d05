----------------------------- MODULE MCBinaryField -----------------------------
(* The types, targets and operands of the runs of BinaryFieldProgram. *)
EXTENDS BinaryFieldProgram

Unit(type, target, shape) == [type |-> type, target |-> target, shape |-> shape]

(* Every candidate modulus of the levels 1 and 2, and those of level 3 whose  *)
(* low part has at most the degree the verifier allows, or one more.          *)
Candidates == {Poly(1, m) : m \in SUBSET (0..1) \ {{}}} \cup {Poly(2, m) : m \in SUBSET (0..3) \ {{}}}
              \cup {Poly(3, m) : m \in SUBSET (0..5) \ {{}}}
RS == Poly(3, Word(\h1d))

SmallTypes == {Tower(0), Tower(1), Tower(2)}
WideTypes == {Tower(k) : k \in 4..7} \cup {Flat(k) : k \in 4..7}
AllTypes == Candidates \cup SmallTypes \cup {Tower(3)} \cup WideTypes

(* x86 packs lanes of level 3 whatever their basis is, so that only towers    *)
(* are asked of it; packed lanes on ARM, which fold every basis once, are left out.  *)
MCUnits ==
  {Unit(t, "portable", "scalar") : t \in AllTypes}
  \cup {Unit(t, target, "scalar") : t \in {Flat(7)}, target \in {"x86", "arm", "nvptx"}}
  \cup {Unit(t, "nvptx", "scalar") : t \in WideTypes \cup {Flat(1), Flat(2), Flat(3), RS}}
  \cup {Unit(Tower(3), "x86", "16"), Unit(Tower(2), "portable", "16"), Unit(Flat(2), "nvptx", "16"),
        Unit(Flat(7), "x86", "dynamic"), Unit(Tower(0), "portable", "16"), Unit(Tower(0), "portable", "dynamic")}

(* Wide operands: all ones, which fills every column of a product, and two    *)
(* words without a pattern.                                                   *)
Sparse(n) == {i \in 0..n - 1 : (i * i + i \div 3) % 5 < 2 \/ i = n - 1}
Sparser(n) == {i \in 0..n - 1 : (i * 7 + i \div 5) % 11 < 4}
MCOperands ==
  [t \in AllTypes |->
    IF t.level <= 2 THEN Words(BitWidth(t))
    ELSE IF t.level = 3
    THEN IF t \in {Tower(3), Flat(3), RS} THEN {Word(v) : v \in {0, 1, 2, 19, 83, 128, 200, 255}} ELSE {{0}}
    ELSE {{}, {1}, 0..BitWidth(t) - 1, Sparse(BitWidth(t)), Sparser(BitWidth(t))}]
MCLength == [t \in AllTypes |-> IF t.level <= 3 THEN 3 ELSE 1]
=============================================================================
