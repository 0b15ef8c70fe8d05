------------------------------ MODULE BitReverse ------------------------------
(***************************************************************************)
(* The lowering of tensor_ext.bit_reverse (ConvertBitReverse): an          *)
(* scf.parallel over every element, whose iterations run in any order and  *)
(* interleave.  The iteration at an index that is not above its reversal   *)
(* swaps the two elements: two loads from the source buffer, then two      *)
(* stores to the destination buffer, which may be the same buffer.         *)
(*                                                                         *)
(* The reversal itself is a parameter: the argument needs only that it is  *)
(* an involution on the indices of the reversed dimension.                 *)
(***************************************************************************)
EXTENDS Integers

CONSTANTS
  Index,     \* the indices of the reversed dimension
  Rest,      \* the indices of the other dimensions
  Rev,       \* llvm.bitreverse on the dimension's index width
  Input,     \* the source tensor
  Unwritten  \* what a destination buffer of its own holds at first

Cell == Index \X Rest

ASSUME IndexAssumption == Index \subseteq Nat
ASSUME RevAssumption == /\ Rev \in [Index -> Index]
                        /\ \A k \in Index : Rev[Rev[k]] = k
ASSUME InputAssumption == Input = [c \in Cell |-> Input[c]]

VARIABLES
  phase,   \* the iterations' program counters
  e1, e2,  \* the two elements an iteration has loaded
  mem,     \* the buffers
  inPlace  \* bufferization gave source and destination one buffer

reverseVars == <<phase, e1, e2, mem, inPlace>>

\* The iteration's partner: only the reversed dimension changes.
Partner(c) == <<Rev[c[1]], c[2]>>

Dest == IF inPlace THEN "source" ELSE "dest"

InitReverse == /\ phase = [c \in Cell |-> "guard"]
               /\ e1 = [c \in Cell |-> Unwritten]
               /\ e2 = [c \in Cell |-> Unwritten]
               /\ mem = [source |-> Input, dest |-> [c \in Cell |-> Unwritten]]
               /\ inPlace \in BOOLEAN

\* Mutant of Swaps: every iteration swaps.
AlwaysSwaps(c) == TRUE

\* Mutant of Swaps: the two sides of a pair both decline.
NeverSwaps(c) == Rev[c[1]] = c[1]

\* bitReversed >= index
Swaps(c) == Rev[c[1]] >= c[1]

Goto(c, from, to) == /\ phase[c] = from /\ phase' = [phase EXCEPT ![c] = to]
                     /\ inPlace' = inPlace

Guard(c) == /\ Goto(c, "guard", IF Swaps(c) THEN "load1" ELSE "done")
            /\ UNCHANGED <<e1, e2, mem>>

Load1(c) == /\ Goto(c, "load1", "load2")
            /\ e1' = [e1 EXCEPT ![c] = mem.source[c]]
            /\ UNCHANGED <<e2, mem>>

Load2(c) == /\ Goto(c, "load2", "store1")
            /\ e2' = [e2 EXCEPT ![c] = mem.source[Partner(c)]]
            /\ UNCHANGED <<e1, mem>>

\* Mutant of Write: the stores go to the source buffer.
WriteSource(cell, value) == mem' = [mem EXCEPT !["source"][cell] = value]

Write(cell, value) == mem' = [mem EXCEPT ![Dest][cell] = value]

Store1(c) == /\ Goto(c, "store1", "store2")
             /\ Write(Partner(c), e1[c])
             /\ UNCHANGED <<e1, e2>>

Store2(c) == /\ Goto(c, "store2", "done")
             /\ Write(c, e2[c])
             /\ UNCHANGED <<e1, e2>>

Step(c) == Guard(c) \/ Load1(c) \/ Load2(c) \/ Store1(c) \/ Store2(c)

AllDone == \A c \in Cell : phase[c] = "done"

\* scf.parallel is left when every iteration has ended.
Joined == AllDone /\ UNCHANGED reverseVars

NextReverse == (\E c \in Cell : Step(c)) \/ Joined

SpecReverse == InitReverse /\ [][NextReverse]_reverseVars

-----------------------------------------------------------------------------
Phases == {"guard", "load1", "load2", "store1", "store2", "done"}

\* The type invariant.
ReverseTypeOK == /\ phase \in [Cell -> Phases]
                 /\ DOMAIN e1 = Cell /\ DOMAIN e2 = Cell
                 /\ DOMAIN mem = {"source", "dest"}
                 /\ inPlace \in BOOLEAN
                 /\ \A b \in DOMAIN mem :
                      DOMAIN mem[b] = Cell /\ mem[b] = [c \in Cell |-> mem[b][c]]

Reads(c)  == CASE phase[c] = "load1" -> {<<"source", c>>}
               [] phase[c] = "load2" -> {<<"source", Partner(c)>>}
               [] OTHER -> {}
Writes(c) == CASE phase[c] = "store1" -> {<<Dest, Partner(c)>>}
               [] phase[c] = "store2" -> {<<Dest, c>>}
               [] OTHER -> {}

\* No two iterations are about to touch one element with one of them about
\* to write it: the guard on the reversed index leaves a single owner to
\* every pair, so running the iterations in parallel is not a data race.
NoRace == \A c, d \in Cell :
            c # d => Writes(c) \cap (Writes(d) \cup Reads(d)) = {}

Reversed == [c \in Cell |-> Input[Partner(c)]]

\* When the parallel loop is left the destination holds the bit-reversed
\* source, in place or not, whatever the interleaving was.
Permuted == AllDone => mem[Dest] = Reversed

\* A destination of its own leaves the source alone (read_only).
SourceKept == ~inPlace => mem.source = Input

\* bit_reverse as the op promises it: one step from the source to its
\* reversal (module TensorPermutation).
Op == INSTANCE TensorPermutation WITH
        result <- IF AllDone THEN mem[Dest] ELSE Unwritten
OpSpec == Op!Spec
=============================================================================
