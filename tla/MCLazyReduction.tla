--------------------------- MODULE MCLazyReduction ---------------------------
(***************************************************************************)
(* Types, options and programs for the lazy-reduction model.               *)
(***************************************************************************)
EXTENDS LazyReduction

\* Programs of the given kinds of operation on n arguments.  The last
\* operation uses the value before it: otherwise that value is dead and the
\* program is a shorter one.
Programs(kinds, consts, n, length) ==
  [k \in 1 .. length |->
     LET last == n + k - 1
         free == [op : kinds \cap Binary, l : 1 .. last, r : 1 .. last]
                 \cup [op : kinds \cap Unary, l : 1 .. last, r : {0}]
                 \cup [op : kinds \cap {"const"}, l : consts, r : {0}]
                 \cup [op : kinds \cap {"montreduce"}, l : {6, 15}, r : {0, 4}]
     IN  IF k < length THEN free ELSE {o \in free : last \in {o.l, o.r}}]

Unit(p, wordSize, options, nArgs, menu) ==
  [p |-> p, wordSize |-> wordSize, montgomery |-> "montgomery" \in options,
   singleLimb |-> "limbs" \notin options, wideModulus |-> "wide" \in options,
   lazyOption |-> "eager" \notin options, nArgs |-> nArgs, menu |-> menu]

Modular == {"add", "sub", "double", "mul", "square", "negate"}
Mont    == {"add", "sub", "montmul", "montsquare"}
Consts  == Modular \cup {"const"}

Op(op, l, r) == [op |-> op, l |-> l, r |-> r]

MontMenu    == Programs(Mont, {}, 1, 3)
ChainMenu   == Programs({"add", "montmul"}, {}, 1, 4)
ConstMenu   == Programs(Consts, {3, 4}, 1, 3)
ModularMenu == Programs(Modular, {}, 1, 3)
TwoArgsMenu == Programs(Modular, {}, 2, 2)
FormMenu    == Programs({"add", "mul", "square", "montmul", "inverse", "bitcast", "tomont",
                         "frommont", "montreduce", "eq"}, {}, 1, 3)
OrderMenu   == Programs({"add", "sub", "double", "mul", "barrettmul", "inverse", "ult"}, {}, 1, 3)
CastMenu    == Programs({"double", "mul", "tomont", "frommont", "montinverse", "ne", "uge"}, {}, 2, 2)
DoubleMenu  == Programs({"mul", "double", "square"}, {}, 1, 3)

MCMenus ==
  [mont |-> MontMenu, chain |-> ChainMenu, const |-> ConstMenu, modular |-> ModularMenu,
   twoArgs |-> TwoArgsMenu, form |-> FormMenu, order |-> OrderMenu, cast |-> CastMenu,
   double |-> DoubleMenu]

MCUnits ==
  {Unit(5, 16, {"montgomery"}, 1, "mont"),
   Unit(5, 16, {"montgomery"}, 1, "chain"),
   Unit(5, 16, {"wide"}, 1, "const"),
   Unit(13, 16, {}, 1, "modular"),                        \* Goldilocks
   Unit(11, 16, {"montgomery", "limbs"}, 2, "twoArgs"),   \* full width
   Unit(5, 16, {"montgomery"}, 1, "form"),
   Unit(7, 16, {"limbs"}, 1, "form"),                     \* from standard form
   Unit(13, 16, {}, 1, "order"),
   Unit(11, 16, {"montgomery"}, 2, "cast"),               \* full width
   Unit(7, 32, {"eager"}, 1, "modular")}                  \* Mersenne

\* A Goldilocks type in Montgomery form.
MontgomeryGoldilocks == {Unit(13, 16, {"montgomery"}, 1, "double")}
=============================================================================
