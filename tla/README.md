# Verification of prime_ir

prime_ir is an MLIR compiler for cryptography over prime fields. Its dialects
describe modular integers (`mod_arith`), finite fields and their extensions and
binary towers (`field`), elliptic curves (`elliptic_curve`), polynomials
(`poly`), residue number systems (`ring`) and tensor shuffles (`tensor_ext`).
Its passes lower a program step by step to integer arithmetic on machine words.

This directory holds TLA+ models of the parts of prime_ir where the logic is,
TLC configurations that check them on small instances, and theorems about them
that TLAPS has checked for every instance. Every definition is a translation of
the C++ code; `PROJECT.json` gives the lines of each.

The program under study is of two kinds, and both are modelled:

* **the compiler**: passes that walk, rewrite, fold and erase operations, with
  maps and memos that must stay right while the program changes under them
  (`LazyReduction`, `ReassociateFieldAdd`, the folds and verifiers of
  `FieldFolds`, `FieldTypes` and `BinaryField`, the canonicalization patterns of
  `CurvePatterns`, the window-size estimate of `Pippengers`);
* **the code it emits**: loops over words, limbs, buckets and tensor cells, some
  of them parallel (`MontRedc`, `BYInverter`, `Reducers`, `BitReverse`,
  `Pippengers`, `BitSerial`, `PowUI`), and straight code for fields, binary
  fields and curves (`ExtensionFields`, `BinaryFieldCodeGen`,
  `BinaryFieldTargets`, `CurveProgram`).

## 1. Inventory

| Component | State | Operations | What is hard about it | What makes it correct |
|---|---|---|---|---|
| Montgomery reduction (`ModArith/Conversions/ModArithToArith/Reducer/MontReducer`) | registers tLow, tHigh between unrolled limb blocks | per-limb fold, high-word carry, final subtraction | nuw/nsw flags that must be true, a modulus that uses the sign bit | result canonical (or below 2p when lazy) and congruent; no poison |
| Barrett and Solinas reduction (`Reducer/…`) | none | one function each | the estimate of the quotient is off by one or two | canonical and congruent |
| `mod_arith` to `arith` with lazy reduction (`ModArithToArith.cpp`) | a map from values to upper bounds, one pass old | forward bounds, clamping by the uses, one conversion pattern per operation | a reduction left out here is relied upon far away | values stay below their bounds, returned values are canonical, no flag lies |
| Bernstein-Yang inverter (`Inverter/BYInverter.cpp`) | f, g, d, e, eta in two nested loops | division steps on low bits, matrix applied to wide words, normalisation | two loops that end for number-theoretic reasons; widths with no slack | the inverse, in either form; termination |
| `mod_arith` IR (folds, verifiers, ranges) | none | `inferResultRanges`, folders | fixed-width bounds of bounds | ranges contain every value |
| `field` IR: types, constants, folds (`Field/IR`) | none | parse, print and verify a type; fold every operation | a value is kept in Montgomery form or not, and each of parser, printer, folder and constructor must know which | a fold gives what running would; the verifier accepts fields only |
| `field` lowering (`FieldToModArith`) | loops of the batch inverse | every arithmetic operation over prime fields, extensions and towers; `powui`; calls of the runtime library | Karatsuba and Toom-Cook in several degrees, Frobenius, norms; one zero in a batch | the operations are those of the ring |
| Binary fields (`BinaryFieldToArith`, `SpecializeBinaryFieldTo…`) | none | flat and tower products, inverses, products by carry-less multiplication, Galois-field and table instructions of three targets | each target, the folder and the portable code choose a basis by themselves | one field's arithmetic whoever computes it |
| Bit-serial method (`Utils/BitSerialAlgorithm`) | result, factor, remaining bits | unrolled form for constants, loop otherwise | first iteration peeled in two different ways | scalar times base |
| `reassociate-field-add` (`Field/Transforms`) | worklist, heap, memo of ranks, the IR itself | find trees, rank leaves, rebuild, erase | the memo outlives the operations it is keyed by | no value changes, no use dangles, optimal depth |
| Other field transforms, bufferization, pipelines | – | rewrite patterns | pass order | equivalence |
| Elliptic curve IR (`EllipticCurve/IR`, shared canonicalization patterns) | none | verifiers, folds, about thirty rewriting patterns | a sum has another type than its operands; patterns that undo one another | the expression keeps its meaning and its type; it ends |
| Elliptic curve lowering (`EllipticCurveToField`) | none | add, double, mixed add, conversions of the kinds of coordinates, scalar products, tensors of points in a batch, calls of the runtime library | points at infinity, equal and opposite points | the group law |
| MSM (`EllipticCurveToField/MSM`) | buckets, window sums | bucket accumulation, bucket and window reduction, estimate of the window size | parallel windows share an allocation, serial ones share a row | the multi-scalar product |
| Pairing and the function outliner | a symbol table | outline by mangled name | two types, one name | each call reaches the function of its type |
| `tensor_ext` (`TensorExtToTensor`) | a tensor, in place or two buffers | parallel loop of conditional swaps, fold | iterations without a lock | the bit-reversal permutation |
| `poly`, `ring` | none | NTT, residue number system | – | – |
| Runtime library (`gen_aot_runtime.py`, `ConversionUtils`) | the functions by name | made once, called by name | names leave out parts of a type | the function called is that of the type |
| `ArithExt`, LLVM conversions, bindings, tools | none | selection of intrinsics, types, registration | – | – |

How they interact. The lowering is a chain: `elliptic_curve` and `poly` become
`field`, `field` becomes `mod_arith`, `mod_arith` becomes `arith`. Along it
`BitSerialAlgorithm` is called by `scalar_mul` and `powui`; the MSM emits
`elliptic_curve` additions and doublings; costly operations may become calls of
the runtime library instead; the conversions of `mod_arith` call the reducers
and the inverter, and pass them what the bound map says of their operands.
Before each step constants may be folded, by a second implementation of the same
arithmetic inside the compiler. The memory effects come late: tensors are bufferized, sometimes in
place, and `scf.parallel` loops run their iterations at the same time. Nothing
is persisted, there are no messages and no time-outs, so the hazards are those
of numeric edges, stale maps, the order of rewrites, and unlocked parallel
loops. `PROJECT.json` lists them under `hazards`, each at its line.

## 2. The modules

Words and integers: a word is the number it stands for. Operations of `arith`
are modelled by what they do on w-bit words, wrapping included, and an `nuw` or
`nsw` flag on an operation that does wrap makes the result poison. In the
binary fields a word is the set of its one bits, so that widths up to 128 stay
exact.

| Module | Models | Uses |
|---|---|---|
| `ArithWords` | the `arith` operations on w-bit words (external) | |
| `Reducers` | single-limb REDC, lazy REDC, Barrett, Solinas, the final subtractions | `ArithWords` |
| `MontRedc` | the emitted multi-limb REDC, one action per limb block, one for the last subtraction | |
| `LazyReduction` | the range analysis, `buildBoundMap` and the conversion of every `mod_arith` operation, then the lowered function run on arguments | `Reducers` |
| `BYInverter` | both loops of the inverter, one action per round | |
| `BitIndex`, `TensorPermutation` | the bit reversal of an index; what `tensor_ext.bit_reverse` promises (abstract) | |
| `BitReverse` | the loop that `TensorExtToTensor` emits, one process per iteration, one action per load or store | refines `TensorPermutation` |
| `MultiScalar` | what `elliptic_curve.msm` promises (abstract) | |
| `Pippengers` | the bucket algorithm, one process per window, one action per load or store of a bucket; the window size | refines `MultiScalar` |
| `BitSerial` | both forms of the bit-serial method, over a formal base | |
| `PowUI` | `powui` of `FieldToModArith`, which reduces the exponent and calls the bit-serial method | `BitSerial` |
| `ReassociateFieldAdd` | the whole pass, on functions of one or two blocks | |
| `FieldTypes` | the types of prime fields and towers: text, parsing, printing, the attributes of their moduli, constants | |
| `ModArithOperation` | compile-time arithmetic of a prime field, the addition chains for inverses | `FieldTypes` |
| `ExtensionFields` | products, squares, inverses, Frobenius of extensions and towers | `ModArithOperation` |
| `FieldFolds` | the folders of `field` and `mod_arith`, the verifier of extension types | `ExtensionFields` |
| `FieldAlgebra` | the ring that a text denotes (abstract: no Montgomery form, no algorithm) | `FieldFolds` |
| `FieldProgram` | the conversions of `FieldToModArith`, the batch inverse, calls of the library | `FieldAlgebra` |
| `BinaryFieldTables` | the constant tables of the binary field lowerings, bit for bit | |
| `BinaryField` | binary types, their verifier, the evaluator that folds | `BinaryFieldTables` |
| `BinaryFieldCodeGen` | the portable code of `BinaryFieldToArith` | `BinaryField` |
| `BinaryFieldTargets` | the patterns for x86, ARM and NVPTX | `BinaryFieldCodeGen` |
| `BinaryFieldProgram` | programs over one binary type, compiled for one target | `BinaryFieldTargets` |
| `CurvePoints` | the group of a curve (abstract), the kinds of points, the formulas, the verifiers | |
| `CurvePatterns` | expressions over points, the canonicalization patterns, the folds | `CurvePoints` |
| `CurveProgram` | canonicalization, verification and lowering of an expression | `CurvePatterns` |
| `ArithLemmas` | powers of two, residues, least numbers: the lemmas that the proofs share | |
| `MontRedcProofs`, `ReducersProofs`, `PippengersProofs`, `BYInverterProofs` | the proofs of the module each is named for | `ArithLemmas` |
| `LoopProofs` | the proofs of `BitSerial` and `PowUI` and of `BitReverse` | `ArithLemmas` |
| `LazyReductionProofs` | the proof of the lazy lowering: each pattern by itself, then the pass | `ReducersProofs` (by `INSTANCE`) |
| `ReassociateFieldAddProofs` | the proof of the tree pass | |
| `MC…` | the instances | |

State and actions against the code:

* **MontRedc** (`MontReducer::reduceMultiLimb`). The code is emitted unrolled,
  so a state is the registers between two blocks. `FirstLimb` and
  `NextLimb` are one turn of the emitting loop each, with its `noOverflow` flags,
  and the carry out of the high word that a modulus with its top bit set needs;
  `Finish` is the subtraction, which a lazy caller does without. `Exact` is the ghost invariant:
  what is left in the registers times B^i is the input plus a multiple of n.
* **LazyReduction** (`ModArithToArith.cpp`). A function is built one operation
  at a time from a menu ("build"). `buildBoundMap` walks it ("bounds"), then
  visits its candidates ("clamp"), then the patterns lower it ("run"). A pattern
  decides from bounds alone what to emit, so emitting and executing are one
  step: `val` holds the word the emitted operations yield, `ref` the residue it
  has to stand for. A value is a record that remembers its defining minimum and
  what constant or inverse power of two it is, because `getSignedFormFromCanonical`
  and the shortcuts of `ConvertMul` look through definitions. A value's form is
  that of its type: arguments have the unit's form, `to_mont`, `from_mont` and
  `bitcast` change it, and the patterns of `mul`, `square` and `inverse` ask for it.
* **BYInverter** (`BYInverter.cpp`). `StartJump` begins a turn of the outer
  loop. `DropZeros` and `CancelBits` are the two halves of a round of the jump, in
  limb words; `ApplyMatrix` applies the matrix to f, g, d and e in extended words;
  `Finish` is the normalisation after the outer loop.
* **BitReverse** (`ConvertBitReverse`). Iteration i of the parallel loop loads
  two cells, then stores them crossed, unless its reversed index is smaller.
  In place, both buffers are one. Each load and store is an action.
* **Pippengers** (`Generic.cpp`, `Pippengers.cpp`). `Enter` starts a window,
  `LoadBucket`/`StoreBucket` are the two halves of an accumulation, followed by
  the running sums of `bucketReduction` and the descending loop of
  `windowReduction`. `Attributes` are the attributes of the operation, so one run
  covers parallel and serial code and given and estimated window sizes.
* **BitSerial, PowUI**. Points and field elements are multiples or powers of a
  formal base, so the result is a number that has to be the scalar. `PowUI` adds
  a concrete field, F_p[x]/(x^d - nonresidue), to speak of the reduction of the
  exponent by the order of its multiplicative group.
* **ReassociateFieldAdd**. The IR is a graph of values. A chain is found with a
  stack, ranked with a memo, rebuilt with a priority queue and erased in
  pre-order; every turn of each of these loops is an action. Later chains see
  the rewritten IR and the memo that earlier ones left. `roots` is the set of the
  roots that are left, and `Root` the one that the walk listed first: the walk never
  lists one twice, so a list would say no more.
* **FieldProgram** (`FieldToModArith.cpp`, `FieldOps.cpp`, `FieldTypes.cpp`). A
  type comes from a text, by the parser or by the code that creates types. Each
  conversion is an action that chooses an operand; `Run` executes the code that
  was emitted and computes beside it every value that folding could have left
  there. Elements are kept in the form of their type. The templates of
  `ExtensionFieldOperation.h` are instantiated by the folder and by the code
  generator; a handler tells the two apart ("fold" is the evaluator, "run" the
  emitted code, "chain" emitted code with addition chains for inverses), and
  what differs between them is the handler's. The inverse of a tensor runs as its
  loops: `fwdLoop`, `invertProduct`, `bwdLoop`, `insertFirst`.
* **BinaryFieldProgram** (`BinaryFieldToArith.cpp`, the three `SpecializeBinaryFieldTo…`).
  Each conversion is an action, `Run` executes it: by the target's pattern if one
  matches, and by the portable code. An operation is in a program only if it
  compiles: a pattern of the target takes it, or the portable pattern does and its
  code verifies for the shape of the operands. A bitcast into a type narrower than
  its storage leaves any bits above, and the operations that follow meet them.
* **CurveProgram** (`EllipticCurveOps.cpp`, `EllipticCurveToField.cpp`). The state
  is the expression that is left. `canonicalize` applies one pattern or fold
  anywhere, in any order; `verify` runs when none matches; `lower` converts the
  first operation whose operands have run: the formulas are evaluated on stored
  residues, or a function of the runtime library is called, or `scalar_mul`
  becomes its loop. The functions that the module `declared`, with the types of
  their first call, are state. A call is linked by name. If the library's function takes its operands
  otherwise, it is run on what it reads: a scalar in another form is read in the form of the curve, and
  points of other kinds make any point. `link` stops a
  program that calls a function no library has. `fail` stops one that declares a function
  with two types, or that makes a point of a constant with too many coordinates. A projective point may have any Z of a given set, so a result
  that depends on the representative shows. Tensors are converted in a batch or
  one by one.

## 3. The runs

All bounds are in the `MC…` modules and the `.cfg` files.

| Run | Question | Bounds, and why they do |
|---|---|---|
| `MontRedc` | Is the multi-limb reduction right where it is tightest? | Three limbs of two bits and n = 63: the sign bit is used, so the carry matters, and there are a first, a middle and a last block. Every input below p·R. |
| `LazyReduction` | Do bounds, clamping and conversions fit together? | Every program of up to three operations, four in the chains, two with two arguments (the last of a full one using the one before) on every canonical argument, for ten units: Montgomery, longer Montgomery chains, changes of form from either form, plain with constants, Goldilocks, Goldilocks with inverses and comparisons, full-width with one limb and with several, Mersenne without laziness. Words have four or five bits, so a few doublings reach their end; three operations are a producer, a carrier and a consumer, which is how far a clamp looks. |
| `BYInverter` | Is the inverse right, and does it end? | All odd moduli of six bits, composite ones too, all residues, both forms; the number of steps as BYAttr computes it, and a jump of eight steps in the narrowest limb, the slack of a 254-bit modulus. |
| `BitReverse` | Can the iterations disturb each other? | Eight cells: fixed points and pairs in one tensor. Every interleaving, in place and not. It is checked against `TensorPermutation`. |
| `Pippengers` | Is the result the multi-scalar product, whatever the windows do? | Five-bit scalars: two-bit windows leave a short last one. The eight scalars contain zero, one, a one in each window, and empty digits; two of them meet in a bucket when they are equal. Serial windows of 1 to 5 bits reuse their row. |
| `PowUI` | Is the exponentiation exact and the reduction of exponents harmless? | 25 elements, exponents to 60, past twice the order of the group. |
| `ReassociateFieldAdd` | Does the pass keep its promises on every small graph? | All functions of five operations, and of four in two blocks listed against dominance, on one argument: several trees in one function, shared leaves, repeated leaves, roots that are leaves of others. |
| `Fields` | Does an operation compute in the ring that the type's text denotes, folded, inline or from the library, and which types pass? | Prime fields of 3, 5 and 7 with all elements and programs of two operations, in both forms; 11, 13, 17, 29 and 61 for inverses by chain and by power. Extensions of degree two and three over 7, four over 13 and over 149 in 128 bits (two limbs, hence Toom-Cook, with a prime above its denominators), a general modulus of degree three over 13, towers 3 over 2 and 2 over 3 and one with a dense non-residue, parsed and created, on zero, one, minus one and two patternless elements. Tensors to four elements, three of extensions, with and without zeros. The library has the quartic field over 13. Candidates for the verifier: degrees two and three over 7, 13 and the quadratic extension, with every non-residue up to six. |
| `BinaryField` | Is it one field's arithmetic whoever computes it? | All moduli of levels one and two, those of level three with a low part up to one degree beyond what the verifier allows, towers and flat types of all levels to 128 bits. All words up to four bits, eight words of eight bits, wider all ones, which fills every column of a product, and two words without a pattern. Programs of three operations up to level three, of one above. Three targets, scalars, sixteen lanes and a dynamic number of them, with the operations that compile for the shape. |
| `Curves` | Does a program of points keep its meaning through canonicalization, folding and lowering, and does canonicalization end? | y² = x³ + 3 over F₇ with a known name, y² = x³ + x + 6 over F₁₁ without one, both of 13 points; and a twisted Edwards curve over F₁₃ with 20 points and a subgroup of order five. Every operation on points at infinity, equal, opposite and other points, of every kind of coordinates with Z of one and three; each left side of a pattern in every typing the verifiers admit; constants and arguments; inline, by the library, and in between; two mixed additions in every order of operands; scalars in the form of the coordinates or not, inline and by the library. Points are in the subgroup of the scalars' order. |

The properties, by what they say:

* *A value is what it has to be*: `ReducesInput`, `Congruent`, `Inverted`,
  `Permuted`, `Multiplied`, `UnitPowered`, `LoweringRight`, `PortableRight`,
  `SpecializedRight`, and `MeaningKept` of the rewriting passes.
* *Every intermediate state is right*: `Exact`, `PairsKept`, `JumpIsDivSteps`,
  `SumsHold`, `Carried`, `BatchHolds`, `Bounded`, `NothingStale`, `RanksAreDepths`.
* *No promise is broken*: `NoPoison`, `NoUnsignedWrap`, `ReturnCanonical`,
  `OnePassSuffices`, `Shallow`, `CountNeutral`, `StaysTyped`.
* *Two implementations agree*: `FoldAgrees` of both kinds of fields,
  `VerifierExact` (the verifier and irreducibility), `BatchExact`.
* *Nothing interferes*: `NoRace`, `SourceKept`; and the two `OpSpec` are the
  refinements of `TensorPermutation` and `MultiScalar`.
* *Something happens*: `Terminates`, of the inverter's loops and of the
  canonicalizer with the lowering.

Two more runs expect a violation; they are in section 6.

Every property of a passing run has a mutant in `PROJECT.json`: a plausible slip
in one definition, by which the run then fails.

Deadlock is checked except in `Fields`, `BinaryField`, `Curves` and
`BadCmpFold`, where a program ends after its length, is refused by the verifier, or has
been lowered; that a curve program never gets stuck before is `Terminates`. The other
modules have an explicit `Terminated` step for the end.

**Fairness.** `BYInverter` and `CurveProgram` state weak fairness of their
next-state relation. The inverter is straight single-threaded code with loops, and the
canonicalizer a driver that applies patterns until none matches: whatever step is
next is taken, and there is no scheduler to rely on. Which pattern comes first is
left open, so `Terminates` holds for every order. The other modules check
safety. Their loops are counted, and their termination is plain.

## 4. The proofs

TLAPS checks these for all values of the constants, under the assumptions
declared in the modules, which TLC evaluates on every instance.

**Multi-limb Montgomery reduction** (`MontRedcProofs`, with `ArithLemmas` on
division). For every base B ≥ 4, at least two limbs, a modulus 2 ≤ n < B^NL, and n'
with n·n' ≡ -1 (mod B):
`TypeCorrect`, `NeverPoison`, `HighWordAlwaysFits`, `StaysExact`,
`ReducesCorrectly`. Bases and
limbs are not tied to powers of two: the table `Pow` replaces the exponentiation.
The inductive invariant is `TypeOK /\ Exact /\ NoPoison /\ ReducesInput`.
`ReducesInput` and `NoPoison` alone are not inductive: that the high word fits
depends on the exact value of both registers relative to the input, which is
`Exact`. The argument goes block by block: a block clears a limb (`LimbCleared`),
hence the shift is exact (`ShiftExact`), hence the sum of the pieces is the
quotient (`BlockExact`), which is below 2n, hence nothing wraps but the carry out
of the last block (`HighNoWrap`), and one wrapped subtraction corrects that one
(`WrappedSub`).

**The other reducers** (`ReducersProofs`), as facts about the operators that
`LazyReduction` lowers with, for every word size and modulus:
`BarrettReduces` (the estimate of the quotient is at most one too small, so one
conditional subtraction is enough); `MersenneReduces`; `SingleLimbReduces` (from
high words alone, of a product of words or of signed forms, lazy or not, for a
modulus that uses the sign bit or not; it assumes that the modulus is invertible
modulo the word size); `SolinasReduces` (of a product of any two words: a
borrow or a carry is worth 2^h - 1, and correcting it borrows or carries no
second time); `MultiLimbReduces` (the same number in one step, as `LazyReduction`
takes it); and `MontgomeryReduces`, whichever of the two `reduce` chooses. The
subtractions of `getCanonicalFromExtended` are proved too, as many of them as
the bound asks for: the least number of subtractions that has not reduced its value
yet stands in for the induction.

**The lazy lowering** (`LazyReductionProofs`). For every
odd modulus from three on, prime or not, every word size that is a power of two above it,
every set of units (`UnitsAssumption`), and every program of any length from any menu:
`BoundsHold`, `LoweringCongruent`, `ReturnsCanonical`, `AdditionsNeverWrap` and
`SecondPassIdle`, the five properties of the run `LazyReduction`. They all follow
from `Invariance`, the inductive invariant `IInv`:

* The program is well formed (`Program`, `Formed`): an operation takes values that were
  defined before it, in the forms that the verifiers demand.
* While phase 1 walks (`Walking`), every bound in the map has a source (`BoundFrom`): it is
  what `ForwardUmax` makes of numbers that were the bounds of the operands, or of the
  range of a value without one. `MapOK` holds after each operation; no sum of bounds
  wraps.
* While phase 2 visits its candidates (`Clamping`), every lazy bound that is not pending
  is accepted by all its uses (`Settled`). Erasing a bound lowers the bound of one value,
  and `Accepts` only becomes easier to satisfy when bounds fall: that is why one pass is
  enough. It also keeps every source, which asks of an erased operand only that its number
  was large enough (`Source`).
* While the lowered function runs (`Running`), each value `Stands` for its residue: its word
  is at most its bound, and at most the end of its range if that is below p - 1; it is
  congruent to the residue; its signed form and its defining minimum are what
  `getSignedFormFromCanonical` takes them for. A step keeps this because the pattern of its
  operation is right (`OperationRight`, one lemma per pattern: from operands that stand
  for their residues, the emitted words give a result that does).

`Settled` is needed to say anything about a pattern: that a lazy operand may be
added, multiplied or reduced as the pattern does rests on the pattern's own consent to
its bound. `BoundFrom` is needed to say anything about the result: its bound was
computed from bounds of the operands that may have been erased since.

The theorems have the form `Spec /\ []Fits => []P`. `Fits` names the limits of the pass, each an
assertion of the code or a deviation of section 6:

* `BoundFits`, `RangeFits`: no bound reaches 2^2w - 1, where it would wrap, and no range of a
  difference needs more than w + 1 bits.
* `LoweringFits`: no lazy Montgomery product over a modulus that fills its word, which
  `MontReducer::reduce` asserts. Over a Goldilocks modulus, no operand of an
  addition has a bound above 2p, and no operand of a Montgomery product is lazy.
  No zero is multiplied by a negated inverse power of two.

The limits bound only what the pass meets where it meets it: bounds while phase 1 computes
them, patterns when they convert. 1,061,880 of the 1,114,750 states of the run
`LazyReduction` are reached by behaviours that keep to them, and TLC checks the five
properties on the others too, where they happen to hold at those widths.

**Parallel bit reversal** (`LoopProofs`). For every index set and every
involution on it, in place or not: `ReverseTypeCorrect`, `NeverRaces`, `AlwaysPermutes`,
`SourceAlwaysKept`, and, for a tensor that has a cell, `ImplementsPermutation`:
the loop implements the operation that permutes the
tensor in one step, under the refinement mapping of `BitReverse`. The inductive
invariant says of each cell whose it is (each
cell is written by one iteration only, `OneOwner`, and by one at least,
`SomeoneSwaps`), what it holds before that iteration has stored it and after,
and that the registers of an iteration between its loads and its stores still hold what the
cells held at first. That last part is what makes it inductive.

**The bucket algorithm** (`PippengersProofs`). For every number of products, width of the
scalars and size of window, serial or parallel, and every interleaving:
`NeverRaces`, `SumsAlwaysHold` and `ComputesTheSum`, which is the refinement of
`MultiScalar`. The invariant says of each window, by its phase, what its
registers, its row of buckets and its sum hold (`WindowInv`), whose turn it is
when rows are shared, and which buckets are still to be cleared. A step of one
window leaves the row of every other undisturbed, since parallel windows have
rows of their own and serial ones run one after the other; so only
the window that moves has to be looked at. At the end, the sums of the windows
are combined by Horner's rule, and the digits of a scalar, taken from the highest down,
make up the scalar. Two things stand in for inductions: the invariant
carries partial sums instead of a closed form, and bounds on a number of windows use the least
number of a nonempty set. `ExponentAssumption` states the few facts about powers of two
that the provers do not know; TLC evaluates it.

**Bit-serial method** (`LoopProofs`). For every scalar, in the unrolled form
and the loop: `AlwaysCarries` (result plus remaining bits times factor is the
scalar: the loop invariant), `TypeCorrect`, `MultipliesCorrectly`, and
`NeverWastesDouble` (no doubling whose product nothing uses).

**Powers** (`LoopProofs`). For every prime modulus, over the prime field or its
quadratic extension by the root of a number that has none, and every exponent: `PowCarries`,
`PowMultiplies` and `KeepsUnitPowers`, the three properties of the run `PowUI`. The first two
carry over from the bit-serial method. The third is Fermat's theorem for both fields. That
the modulus is prime gives a product of two units that is a unit (`NoZeroDivisor`); in the
extension a norm a^2 - s b^2 would vanish only if the non-residue s had a root
(`NormNotZero`). A unit's powers repeat (`HasPeriod`); multiplication by it sorts the units into
orbits, each as long as the period (`OrbitCounted`), and disjoint, so that the period
divides the number of units (`ClosedPower`, `OrderIsPeriod`): it is the largest set of units made
of whole orbits that stands in for the induction. Hence reducing the exponent by `Order`
changes no power of a unit (`PowerReduced`). `FieldAssumption` is what `FieldTypes.td` demands of
the types: "a prime modulus", a "non-residue". Zero is left out, as its powers do
change (section 6).

**The tree pass** (`ReassociateFieldAddProofs`). For every number of arguments, every
function whose operations read what comes before them (`BodyAssumption`), of any
length, in one block or two, listed in either order: `HoldsNothingStale`, `KeepsCount`,
`StaysShallow`, `KeepsMeaning` and `RanksStayDepths`, the five properties of the run
`ReassociateFieldAdd`. Four invariants carry them; none is inductive without the first.

* `Structure` says what the pass holds of a tree. `Tokens` are what uses a value, or will when
  the tree is rewritten: its uses from outside the tree, its places on the stack, its places
  among the leaves that no new addition has consumed. A root that waits for its turn has
  more than one, or one that is not an addition of its block (`Loose`), so no other tree takes
  it in and erases it. An interior value is used only by interior values before it
  (`InteriorOK`), which is why erasing from the root down never erases what is
  used. Stack and leaves together are one more than the interior (`GatherOK`), and so are
  the leaves than the additions that the queue makes of them (`HeapOK`, `CountOK`).
  `NothingStale` and `CountNeutral` follow.
* `DepthOK` says that there are depths: numbers that grow from operands to users (`Potential`),
  that are those of the memo and of the queue, and that are nowhere above the depths of the
  function as it was given (`NotAbove`). It says *there are*, because these need not be the
  true depths of the rewritten program: where blocks are listed against dominance the memo is
  stale. `Shallow` rests on Kraft's inequality: the 2^rank of all leaves fit into 2^D exactly
  if those of the queue do (`RankRoom`), since joining two least ranks changes no comparison
  with a power of two (`HeapSumMultiple`), and they fit at first for the depth of the old root
  (`GatherRoom`).
* `MeaningOK` says that there are meanings, a number of occurrences of each original atom
  for each value, which every addition in the program adds up, and of which operations other
  than additions are applied to those they were applied to at first. The stack with the leaves, later
  the queue with the leaves that are left, sum up to the root (`GatherSum`, `RankSum`).
* `OrderOK` says that, where the blocks are listed in the order of dominance, whatever the
  memo knows is placed before every root that is left (`MemoBefore`), new additions
  taking the place of their root. A later rewriting then reaches nothing that the memo
  knows, so its ranks are true depths: `RanksAreDepths`.

`Depth`, `TrueDepth` and `Sum` are recursive functions over the values of a program. In place of an
induction the proofs take the least value at which two solutions of the recursion differ
(`Solves`, `SameStep`), and sums over sequences are defined by the table of their partial
sums (`Partial`, `Total`).

**The inverter** (`BYInverterProofs`). For every odd modulus, prime or not, every width, every
number of division steps in a jump and every limb that has room for them, and every input, in
either form: `KeepsPairs`, `AlwaysInverts` and `JumpsAreDivSteps`, the three safety properties of
the run `BYInverter`. The inductive invariant `IInv` speaks of the two loops.

* Between two jumps (`Outer`) f and d, and g and e, satisfy Bezout's relation to the input; f is
  odd; d and e lie strictly between -2m and m; the modulus and the input are combinations of f
  and g (`Combination`), so that an f of 1 or -1 at the end is what says whether there is an inverse;
  and eta fits its limb. Nothing in the code bounds eta: it is bounded
  because it only stays positive while halvings of g are ahead of swaps, and then 2^eta times g is
  no more than twice the modulus (`EtaFits`), so that eta exceeds the width only once g is zero.
* Within a jump (`InJump`) there are numbers F and H, what the division steps so far would have made
  of f and g. The rows of the matrix lead from f and g to F and to H (`Linear`), its determinant is
  a power of two, and the absolute values in a row add up to no more than a power of two
  (`RowFits`), which is why the limbs never wrap; the words of the jump are F and H in the
  bits that still count (`LowBits`), although shifting them leaves wrong bits above; and the steps
  so far are division steps (`StepsDone`). p counts the zeros of g that
  are known but not yet dropped: cancelling several bits at once stands for as many steps
  (`CancelSteps`), whose halvings come with the next round.
* Cancelling rests on (3 f) xor 28 being -1/f modulo 32 for odd f (`FlippedInverse`) and on the
  swap keeping the sign of eta for as many bits as `Shift` allows.
* Applying the matrix, the correction with the modulus' inverse modulo 2^n makes both combinations
  divisible (`Corrected`), keeps d and e in their range, and changes neither modulo m.
* At the end g is zero, so f divides both the modulus and the input: with 1 or -1, the normalised d
  is the inverse, and with anything else there is none.

Division steps are a recursive function. Facts about n of them are proved by the least number of
steps for which they fail (`LeastNatural`). `ModuliAssumption` is what `BYAttr` constructs: an odd
modulus within its width, n one at least, a limb that is wider than n + 1 bits, has room for the
constant 28 and for a count up to the width; with limbs of 64 bits and more, and widths below
2^24, the last two always hold. That the outer loop ends is `Terminates`, which stays with TLC:
it rests on the published bound on the number of division steps, found by computation.

What stays with TLC: liveness (the loops of the inverter, the canonicalizer); what the lazy
lowering does beyond its limits; fields, binary fields and curves, whose types and expressions
are trees that recursive operators walk. A recursive definition's value for every
input is proved by an induction theorem that takes an operator, which is beyond the
provers used here.

## 5. What is not modelled, and why

* Dialect registration, the text of operations and of points, type conversion to
  LLVM, bindings, tools: no logic of their own. The text of field types is modelled,
  because their numbers are converted on the way in and out.
* The instructions of x86, ARM and NVPTX in the binary field lowerings are a
  processor's. They are modelled as external operators, from how the code uses them;
  those of `SpecializeArithToAVX` are not.
* Runtime generation: which functions there are, with which types, and what they
  compute is modelled, and the text that is generated is not.
* Vectors and tensors of `mod_arith` values: the conversions work per element.
* The code that bufferization and MLIR's own passes generate.
* In `LazyReduction`: the limbs of the multi-limb squaring, bitcasts to other moduli and to
  integers, arrays, and control flow, where the analysis widens the range of what a loop
  carries.
* Writing `mont_mul` over a modulus that fills its word trips an assertion in the
  range analysis; that program is a precondition of the models.
* Pairings and the function outliner, `poly` and `ring`, the canonicalization
  patterns of `mod_arith` and `field`, `FoldFieldLinalgContraction`, bufferization, the order
  of the pipelines. Section 7 has them.

## 6. Known deviations

Found while modelling. The first two are runs.

1. `BadGoldilocksDouble`. With lazy reduction, a doubled Montgomery product over the
   Goldilocks prime may be squared or multiplied. Its bound is 2·(2^w - 1), the
   conversion then subtracts the multiple 2p, which does not fit the word, and the
   product is wrong.
2. `BadCmpFold`. The folders of ordered comparisons (`FieldOps.cpp` from line 517,
   `ModArithOps.cpp` 394-413) make their operands with the constructor that
   converts a standard residue to Montgomery form, although the attribute is in
   that form already. For p = 7 in eight bits the words 4 and 1 stand for the
   residues 1 and 2; `4 ult 1` folds to false, and the lowered comparison is true.

Modular arithmetic:

* `ConvertAdd` sets `nsw` because two bits of the storage are free over the modulus.
  Lazy operands are wider than the modulus, and the addition may wrap.
* `SubOp::inferResultRanges` computes in w + 1 bits what can need w + 2; the range of
  two saturated operands excludes values that occur.
* A product of zero and a constant inverse power of two is the modulus and not
  zero. The code's own comment warns of it; the documentation of the types demands
  canonical results from a function.
* The doubled product of deviation 1 has a relative in standard form: `double(x - c) + c`
  over a Goldilocks modulus with a constant c. The bound of the difference is c + p, doubled
  it is 2p + 2c, which `canAcceptLazy` lets an addition take. If the sum is not lazy itself,
  the conversion subtracts 2p first, which does not fit the word (p = 241 in eight
  bits, c = 1).
* With lazy reduction, `mont_mul` or `mont_reduce` over a modulus that fills its word can be
  kept lazy by its uses, and then trips the assertion of `MontReducer::reduce`.
* Zero to the power of a nonzero multiple of the order of the group is one, because
  the exponent is reduced for every base.
* Phase 1 of `buildBoundMap` adds and doubles bounds in 2w bits without a limit. After w + 2
  or more doublings in a row a bound wraps, even to zero (p = 5 in four bits: after six
  doublings; BabyBear in 32 bits: after 37). The lowering then leaves out a reduction and
  returns a value that is not canonical. Nor is the check monotone then, as the comment at
  `ModArithToArith.cpp` 428-431 has it.
* Montgomery form over the Goldilocks prime has a second way to go wrong: a lazy
  sum is corrected by one subtraction before it is multiplied, the product then
  takes the operand's signed form, `x - p`, and with a modulus that uses the sign
  bit that difference has no signed word. A sum that is squared shows it. The
  conversions take signed forms wherever the shape of the operand allows it,
  whatever the width of the modulus.
* `ConvertCmp` of `mod_arith` compares words, in either form, as its comment says; the
  lowering of `field` converts before it compares.

Fields:

* A tower in Montgomery form with a scalar non-residue, when it is parsed, has it converted
  twice (`FieldTypes.cpp` from 753 and from 940, and `NonResidue` of
  `ExtensionFieldOperation.h`). With a dense one, the parser converts over a prime base only
  and the printer over towers too, so that what is printed does not parse to the same type.
* `ExtensionFieldType::verify` tests a power with a quotient rounded down: degree four
  accepts squares (p = 5, non-residue 4), degree three with p ≡ 2 (mod 3) accepts cubes, and
  a non-residue of zero passes.
* Toom-Cook is chosen by the number of limbs and needs a prime above 120; it asserts
  otherwise.
* One zero in a batch of inverses makes every result zero, where the elementwise form
  and the convention in its comments have zero for that element alone. The same batch makes tensors of
  points affine, so that one point at infinity makes all points of the tensor infinite. A
  dynamic empty tensor reads the element before its first.
* The name of a runtime function leaves out the non-residue, so two types can share one.
* Converting the form of a general-modulus field casts its non-residue to an integer attribute, and
  that of a tower applies to the outer coefficients only.
* The table of patterns says that the inverse of an extension always uses Bernstein-Yang; the
  code at `FieldToModArith.cpp` 511-516 may use a chain.

Binary fields:

* Packed lanes of level three on ARM fold a product once, in the flat basis, whatever
  the basis of the type is. x86 patterns for such lanes test the level and not the basis.
* Of a vector or tensor in the tower basis, a product, a square or an inverse that no
  target's pattern takes is lowered with truncations to scalar halves, scalar
  shift amounts and a scalar table switch, and a double of any basis with a scalar
  zero: the result does not verify. For flat bases the patterns refuse such products
  and "fail to legalize rather than emit invalid IR" (`BinaryFieldToArith.cpp` 204-206), and tests
  expect it. Sums, differences, negations, comparisons, and products of level zero
  are lowered for any shape. In the model the invalid ones are in no program.
* A comparison compares storage words, with whatever bits a bitcast left above the element.

Curves:

* `AddAfterSub`, `SubLhsAfterAdd`, `SubRhsAfterAdd` put an operand in the place of the sum, and
  `SubLhsAfterSub` negates with the type of the root. With an affine operand under a
  projective result the program is ill-typed; the tests use one kind of point.
  `verifyAffineWidens` lets an affine double of an affine point pass, and folding
  it gives three or four coordinates for an affine constant. Constants have no
  verifier; the conversion to field operations then fails, at `FromCoordsOp::verify`.
* `ScalarMulAssocLeft` multiplies scalars in their field, which is sound for points of an order
  that divides its modulus. The `ScalarMulBy…` patterns never match, because
  the predicates they ask are constantly false.
* A comparison of projective points compares coordinates.
* Functions of the runtime library are found by name. `mixed_add` is named for its
  result and passes its operands in program order; the library's takes the projective
  one first. With the affine operand first the call is linked all the same
  (`ConversionUtils.cpp` 316-327), and the function reads the coordinates of one point as
  those of the other: the sum is wrong. A subtraction of a projective point from an affine
  one becomes such a sum. Two mixed additions with different orders in one module are a
  call of a function with other types than it is declared with, which is refused. A
  product by a scalar in another form than the coordinates is linked to the function
  for the form of the coordinates, which takes the word as it is: the product is wrong.
  `MeaningKept` says that these two are the only calls that are misread, and everything
  else of programs without them.
* Doubling or adding affine points to xyzz, and some conversions, have no function to call,
  and the program cannot be linked.
* `ConvertPointTypeOp` accepts curves of two families, and the conversion then runs into
  `llvm_unreachable`.

Elsewhere:

* `estimateOptimalWindowBits` stops at the first size whose successor is not
  cheaper. The cost has steps: for scalars of 256 bits and 2^19 points it stops at
  14 bits, and 16 are cheaper. The result is slower, not wrong.
* `reassociate-field-add` ranks leaves by SSA depth only if blocks are listed in
  an order of dominance. Otherwise its memo can be stale and a tree deeper
  than it has to be; the sums are right all the same. `RanksAreDepths` has that condition.

## 7. Plan

Done, in this order, the parts on which most of the rest depends first: the
reducers and `MontRedc`; `LazyReduction`; `BitSerial` and `PowUI`; `BitReverse`
and `Pippengers` with their abstract specifications; `ReassociateFieldAdd`;
`BYInverter`; binary fields; prime and extension fields with their folds; curves;
the remaining operations of `LazyReduction`; and the proofs of `MontRedc`, `BitReverse`
with its refinement, `BitSerial`, the reducers, `Pippengers` with its refinement,
`LazyReduction` within its limits, `PowUI`, `ReassociateFieldAdd` and `BYInverter`.

Next, in this order:

1. **The function outliner and pairings.** Symbol table, mangled names, recursion of
   helpers, the order in which functions are created and called; the name leaves out the
   Montgomery form and most of a wide modulus. Then the Miller loop over `CurvePoints`.
2. **The rest of the lowering**: multi-limb squaring, the residue number system of
   `ring`, the NTT of `poly`, the fold of `bit_reverse`, linalg contraction,
   `tensor_ext` bufferization, the order of the pipeline.
3. **The patterns of `mod_arith` and `field`**, on expressions as in `CurvePatterns`.
4. **Proofs**: the folds of prime fields against `FieldAlgebra`, which needs their operators
   without recursion over the tower.
