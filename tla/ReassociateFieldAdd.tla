------------------------- MODULE ReassociateFieldAdd -------------------------
(***************************************************************************)
(* The pass reassociate-field-add: it rewrites every maximal tree of       *)
(* field.adds into one whose late operands join last.                      *)
(*                                                                         *)
(* The program is a graph of values.  An argument is a number of Arg and   *)
(* has no operands; the others are the results of operations, numbered in  *)
(* an order of dominance: an "add" is a field.add of one type, an "op" is  *)
(* any other operation of one operand, one of mixed types included.        *)
(* Return stands for the terminator.  The operations are in two blocks,    *)
(* the first of which dominates the second; a function may list them in    *)
(* either order, which is the order the pass walks them in.                *)
(***************************************************************************)
EXTENDS Integers, Sequences, SequencesExt, FiniteSetsExt

CONSTANTS
  NumArgs,    \* the arguments
  Functions   \* the functions that occur: the operations, how many of them
              \* are in the first block, and whether that is listed first

\* An operation reads what comes before it; an addition has two operands.
Arity(kind) == IF kind = "add" THEN 2 ELSE 1

ASSUME BodyAssumption ==
  \A f \in Functions :
    /\ f.body \in Seq([kind : {"add", "op"}, operands : Seq(Nat)])
    /\ \A n \in DOMAIN f.body :
         /\ Len(f.body[n].operands) = Arity(f.body[n].kind)
         /\ ToSet(f.body[n].operands) \subseteq 1 .. NumArgs + n - 1
    /\ f.split \in Nat /\ f.inOrder \in BOOLEAN
ASSUME SizeAssumption == NumArgs \in Nat \ {0}

VARIABLES
  inOrder,    \* the blocks are listed in the order of dominance
  ir,         \* the operations that exist
  roots,      \* the roots that are left, which the walk has put in its order
  worklist,   \* a stack; its last element is its top
  leaves,
  interior,   \* pre-order; what is left of it once erasing
  seq,
  heap,       \* the nodes of the priority queue
  depthMemo,
  pc,
  original    \* ir as the pass found it

vars == <<inOrder, ir, roots, worklist, leaves, interior, seq, heap, depthMemo, pc, original>>
tree == <<worklist, leaves, interior, seq, heap>>

-----------------------------------------------------------------------------
\* The programs.
Return == 0
Arg == 1 .. NumArgs

\* The first `split` operations are in the first block.
Program(body, split) ==
  [v \in 0 .. NumArgs + Len(body) |->
     CASE v = Return -> [kind |-> "op", operands |-> <<NumArgs + Len(body)>>, block |-> 2]
       [] v \in Arg  -> [kind |-> "arg", operands |-> <<>>, block |-> 0]
       [] OTHER      -> [kind     |-> body[v - NumArgs].kind,
                         operands |-> body[v - NumArgs].operands,
                         block    |-> IF v - NumArgs <= split THEN 1 ELSE 2]]

Init ==
  /\ \E f \in Functions : ir = Program(f.body, f.split) /\ inOrder = f.inOrder
  /\ original = ir
  /\ roots = {} /\ worklist = <<>> /\ leaves = <<>> /\ interior = <<>>
  /\ seq = 0 /\ heap = {} /\ depthMemo = <<>>
  /\ pc = "walk"

-----------------------------------------------------------------------------
Live == DOMAIN ir
Operands(u) == ToSet(ir[u].operands)
Uses(v) == {use \in Live \X {1, 2} :
              use[2] <= Len(ir[use[1]].operands) /\ ir[use[1]].operands[use[2]] = v}
Users(v) == {use[1] : use \in Uses(v)}

\* isUniformAdd, hasOneUse
IsUniformAdd(v) == ir[v].kind = "add"
HasOneUse(v) == Cardinality(Uses(v)) = 1

\* An addition that the only use of is in its own block's tree is no root.
IsRoot(v) ==
  /\ IsUniformAdd(v)
  /\ ~(HasOneUse(v) /\ \A u \in Users(v) : IsUniformAdd(u) /\ ir[u].block = ir[v].block)

\* The order of the walk.
ListedBefore(u, v) ==
  IF inOrder \/ original[u].block = original[v].block THEN u < v
  ELSE original[u].block > original[v].block

CollectRoots ==
  /\ pc = "walk"
  /\ roots' = {v \in Live : IsRoot(v)}
  /\ pc' = "next"
  /\ UNCHANGED <<inOrder, ir, tree, depthMemo, original>>

Root == CHOOSE r \in roots : \A q \in roots : q # r => ListedBefore(r, q)

NextRoot ==
  /\ pc = "next" /\ roots # {}
  /\ interior' = <<Root>>
  /\ worklist' = Reverse(ir[Root].operands)
  /\ leaves' = <<>> /\ seq' = 0 /\ heap' = {}
  /\ pc' = "gather"
  /\ UNCHANGED <<inOrder, ir, roots, depthMemo, original>>

IsInterior(v) == IsUniformAdd(v) /\ HasOneUse(v) /\ ir[v].block = ir[Root].block

VisitInterior ==
  /\ pc = "gather" /\ worklist # <<>>
  /\ LET v == Last(worklist)
     IN  /\ IsInterior(v)
         /\ interior' = Append(interior, v)
         /\ worklist' = Front(worklist) \o Reverse(ir[v].operands)
  /\ UNCHANGED <<inOrder, ir, roots, leaves, seq, heap, depthMemo, pc, original>>

VisitLeaf ==
  /\ pc = "gather" /\ worklist # <<>>
  /\ ~IsInterior(Last(worklist))
  /\ leaves' = Append(leaves, Last(worklist))
  /\ worklist' = Front(worklist)
  /\ UNCHANGED <<inOrder, ir, roots, interior, seq, heap, depthMemo, pc, original>>

\* Nothing to rebalance.
TooSmall ==
  /\ pc = "gather" /\ worklist = <<>> /\ Len(leaves) < 3
  /\ roots' = roots \ {Root}
  /\ pc' = "next"
  /\ UNCHANGED <<inOrder, ir, tree, depthMemo, original>>

StartRanking ==
  /\ pc = "gather" /\ worklist = <<>> /\ Len(leaves) >= 3
  /\ pc' = "rank"
  /\ UNCHANGED <<inOrder, ir, roots, tree, depthMemo, original>>

\* Mutant of Node: equal leaves of a tree are one node.
NodeOfValue(v, r, s) == [value |-> v, rank |-> r, seq |-> 0]

Node(v, r, s) == [value |-> v, rank |-> r, seq |-> s]

\* Mutant of Height: an operation is as deep as its deepest operand.
HeightOfOperands(depths) == Max(depths \cup {0})

Height(depths) == IF depths = {} THEN 0 ELSE Max(depths) + 1

\* getDepth: the depth of a value, the memo's where it has one.
Depth[v \in Live] ==
  IF v \in DOMAIN depthMemo THEN depthMemo[v]
  ELSE Height({Depth[o] : o \in Operands(v)})

\* ... and the values that its search gives an entry.
Searched[v \in Live] ==
  IF v \in DOMAIN depthMemo THEN {}
  ELSE {v} \cup UNION {Searched[o] : o \in Operands(v)}

RankLeaf ==
  /\ pc = "rank" /\ seq < Len(leaves)
  /\ LET leaf == leaves[seq + 1]
     IN  /\ heap' = heap \cup {Node(leaf, Depth[leaf], seq)}
         /\ depthMemo' = [v \in DOMAIN depthMemo \cup Searched[leaf] |-> Depth[v]]
  /\ seq' = seq + 1
  /\ UNCHANGED <<inOrder, ir, roots, worklist, leaves, interior, pc, original>>

\* Mutant of Least: the queue forgets the ranks.
LeastBySeq(nodes) == CHOOSE a \in nodes : \A b \in nodes : a.seq <= b.seq

\* NodeGreater: the top of the queue.
Least(nodes) ==
  CHOOSE a \in nodes : \A b \in nodes :
    a.rank < b.rank \/ (a.rank = b.rank /\ a.seq <= b.seq)

Combine ==
  /\ pc = "rank" /\ seq >= Len(leaves) /\ Cardinality(heap) > 1
  /\ LET a   == Least(heap)
         b   == Least(heap \ {a})
         sum == Max(Live) + 1
         add == [kind |-> "add", operands |-> <<a.value, b.value>>, block |-> ir[Root].block]
     IN  /\ ir' = [u \in Live \cup {sum} |-> IF u = sum THEN add ELSE ir[u]]
         /\ heap' = (heap \ {a, b}) \cup {Node(sum, Max({a.rank, b.rank}) + 1, seq)}
  /\ seq' = seq + 1
  /\ UNCHANGED <<inOrder, roots, worklist, leaves, interior, depthMemo, pc, original>>

Without(f, S) == [v \in DOMAIN f \ S |-> f[v]]

\* The uses of a value become uses of another, and its operation is gone.
Replaced(old, new) ==
  [u \in Live \ {old} |->
     [ir[u] EXCEPT !.operands =
        [k \in DOMAIN ir[u].operands |->
           IF ir[u].operands[k] = old THEN new ELSE ir[u].operands[k]]]]

Replace ==
  /\ pc = "rank" /\ seq >= Len(leaves) /\ Cardinality(heap) = 1
  /\ depthMemo' = Without(depthMemo, ToSet(interior))
  /\ ir' = Replaced(Root, Least(heap).value)
  /\ interior' = Tail(interior)
  /\ pc' = "erase"
  /\ UNCHANGED <<inOrder, roots, worklist, leaves, seq, heap, original>>

\* Mutant of EraseInterior: the additions are erased from the leaves up.
EraseDefsFirst ==
  /\ pc = "erase" /\ interior # <<>>
  /\ ir' = Without(ir, {Last(interior)})
  /\ interior' = Front(interior)
  /\ UNCHANGED <<inOrder, roots, worklist, leaves, seq, heap, depthMemo, pc, original>>

\* Mutant of EraseInterior: the dead additions stay.
EraseNothing ==
  /\ pc = "erase" /\ interior # <<>>
  /\ interior' = Tail(interior)
  /\ UNCHANGED <<inOrder, ir, roots, worklist, leaves, seq, heap, depthMemo, pc, original>>

EraseInterior ==
  /\ pc = "erase" /\ interior # <<>>
  /\ ir' = Without(ir, {Head(interior)})
  /\ interior' = Tail(interior)
  /\ UNCHANGED <<inOrder, roots, worklist, leaves, seq, heap, depthMemo, pc, original>>

ChainDone ==
  /\ pc = "erase" /\ interior = <<>>
  /\ roots' = roots \ {Root}
  /\ pc' = "next"
  /\ UNCHANGED <<inOrder, ir, tree, depthMemo, original>>

Terminated == pc = "next" /\ roots = {} /\ UNCHANGED vars

Next == \/ CollectRoots \/ NextRoot
        \/ VisitInterior \/ VisitLeaf \/ TooSmall
        \/ StartRanking \/ RankLeaf \/ Combine
        \/ Replace \/ EraseInterior \/ ChainDone
        \/ Terminated

Spec == Init /\ [][Next]_vars

-----------------------------------------------------------------------------
\* The type invariant.
TypeOK ==
  /\ inOrder \in BOOLEAN /\ Return \in Live /\ Arg \subseteq Live
  /\ \A u \in Live : ir[u].kind \in {"arg", "op", "add"} /\ ir[u].block \in 0 .. 2
  /\ ToSet(worklist) \cup ToSet(leaves) \cup ToSet(interior) \subseteq Live
  /\ \A n \in heap : n.value \in Live /\ n.rank \in Nat /\ n.seq < seq
  /\ \A v \in DOMAIN depthMemo : depthMemo[v] \in Nat
  /\ pc \in {"walk", "next", "gather", "rank", "erase"}

\* Nothing is erased while it is used, not even between two erasures: users
\* go before the additions they use.
NoDangling == \A u \in Live : Operands(u) \subseteq Live

\* No root is erased as the interior of another's tree before its turn.
RootsAlive ==
  \A r \in roots : (r = Root /\ pc = "erase") \/ r \in Live

\* The memo has no entry for an operation that is gone, whose storage a later
\* one may have.
NoDeadRank == DOMAIN depthMemo \subseteq Live

\* Nothing the pass holds outlives what it stands for, at any step: not an
\* operand, a root that waits for its turn, a queued leaf, nor a rank.
NothingStale == TypeOK /\ NoDangling /\ RootsAlive /\ NoDeadRank

\* A value as the sum of the arguments and the operations it adds up.
Sum(program, v) ==
  LET Atom == {u \in DOMAIN program : program[u].kind # "add"}
      s[u \in DOMAIN program] ==
        IF u \in Atom THEN [a \in Atom |-> IF a = u THEN 1 ELSE 0]
        ELSE LET x == s[program[u].operands[1]]
                 y == s[program[u].operands[2]]
             IN  [a \in Atom |-> x[a] + y[a]]
  IN  s[v]

\* "without changing a single output value": at every moment, whatever is not
\* an addition of one type is applied to the sum it was applied to.
MeaningKept ==
  \A u \in Live : ir[u].kind = "op" =>
    Sum(ir, ir[u].operands[1]) = Sum(original, original[u].operands[1])

\* The depth of a value's definition, counted from the arguments.
TrueDepth(program, v) ==
  LET d[u \in DOMAIN program] ==
        IF program[u].operands = <<>> THEN 0
        ELSE 1 + Max({d[o] : o \in ToSet(program[u].operands)})
  IN  d[v]

\* The rank of a leaf is the SSA depth of its definition, although the memo
\* outlives the chains that are rewritten.  That needs the walk to meet
\* definitions before uses: listed against the order of dominance, a block can
\* leave entries for values above a chain that is rewritten later.
RanksAreDepths ==
  inOrder /\ pc = "rank" => \A n \in heap : n.value \in ToSet(leaves) =>
                                   n.rank = TrueDepth(ir, n.value)

\* The tree is as shallow as any tree over leaves of these ranks can be: a
\* binary tree of depth D has room for leaves of ranks r exactly if the sum
\* of all 2^r is at most 2^D.
Room(D) ==
  LET taken[n \in 0 .. Len(leaves)] ==
        IF n = 0 THEN 0 ELSE taken[n - 1] + 2^depthMemo[leaves[n]]
  IN  taken[Len(leaves)] <= 2^D
OptimalTree ==
  pc = "rank" /\ seq >= Len(leaves) /\ Cardinality(heap) = 1 =>
    LET D == Least(heap).rank IN Room(D) /\ ~Room(D - 1)

\* No operation that survives, the terminator included, is later than it was.
NotDeeper ==
  \A u \in Live : ir[u].kind = "op" => TrueDepth(ir, u) <= TrueDepth(original, u)

\* The tree is the best there is by the ranks, and by the depth that the ranks
\* only estimate no operation loses.
Shallow == OptimalTree /\ NotDeeper

\* "The rewrite is count-neutral: n-1 adds before and after."
Adds(program) == {u \in DOMAIN program : program[u].kind = "add"}
CountNeutral == pc = "next" => Cardinality(Adds(ir)) = Cardinality(Adds(original))
=============================================================================
