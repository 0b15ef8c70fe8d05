----------------------- MODULE ReassociateFieldAddProofs -----------------------
(***************************************************************************)
(* What reassociate-field-add keeps, for every function and every order of *)
(* its blocks.                                                             *)
(*                                                                         *)
(* Structure says what the pass holds at every step; DepthOK that there    *)
(* are depths which the memo and the queue agree with and which no value   *)
(* exceeds; MeaningOK that the values are sums of what they were; OrderOK  *)
(* that what the memo has is before the roots that are left.  The first    *)
(* two are an invariant together, and each of the others is with them.     *)
(***************************************************************************)
EXTENDS ReassociateFieldAdd, ArithLemmas

-----------------------------------------------------------------------------
\* Sums over 1 .. n.

\* The partial sums of c, up to n.
Partial(t, c, n) == t = [i \in 0 .. n |-> IF i = 0 THEN 0 ELSE t[i - 1] + c[i]]

Total(c, n) == (CHOOSE t : Partial(t, c, n))[n]

\* Partial sums exist.
LEMMA PartialExists ==
  ASSUME NEW c, NEW n \in Nat
  PROVE  \E t : Partial(t, c, n)
<1> DEFINE B == {m \in Nat : \E t : Partial(t, c, m)}
<1>1. 0 \in B
  <2> DEFINE g == [i \in 0 .. 0 |-> 0]
  <2>1. Partial(g, c, 0)
    BY DEF Partial
  <2> QED BY <2>1
<1>2. ASSUME NEW m \in Nat, m \in B PROVE m + 1 \in B
  <2>1. PICK t : Partial(t, c, m)
    BY <1>2
  <2> DEFINE g == [i \in 0 .. m + 1 |-> IF i = m + 1 THEN t[m] + c[m + 1] ELSE t[i]]
  <2>2. \A i \in 0 .. m : t[i] = IF i = 0 THEN 0 ELSE t[i - 1] + c[i]
    BY <2>1 DEF Partial
  <2>3. \A i \in 0 .. m + 1 : g[i] = IF i = 0 THEN 0 ELSE g[i - 1] + c[i]
    <3> SUFFICES ASSUME NEW i \in 0 .. m + 1
                 PROVE  g[i] = IF i = 0 THEN 0 ELSE g[i - 1] + c[i]
      OBVIOUS
    <3>1. CASE i = m + 1
      BY <3>1
    <3>2. CASE i # m + 1
      BY <2>2, <3>2
    <3> QED BY <3>1, <3>2
  <2>4. Partial(g, c, m + 1)
    BY <2>3 DEF Partial
  <2> QED BY <2>4
<1> HIDE DEF B
<1>3. n \in B
  BY <1>1, <1>2, NumbersClosed
<1> QED BY <1>3 DEF B

\* ... and are the same however far they go.
LEMMA PartialUnique ==
  ASSUME NEW c, NEW t, NEW s, NEW n \in Nat, NEW m \in Nat, m <= n,
         Partial(t, c, n), Partial(s, c, m)
  PROVE  \A i \in 0 .. m : t[i] = s[i]
<1> DEFINE B == {i \in Nat : i <= m => t[i] = s[i]}
<1>1. /\ \A i \in 0 .. n : t[i] = IF i = 0 THEN 0 ELSE t[i - 1] + c[i]
      /\ \A i \in 0 .. m : s[i] = IF i = 0 THEN 0 ELSE s[i - 1] + c[i]
  BY DEF Partial
<1>2. 0 \in B
  BY <1>1
<1>3. \A i \in Nat : i \in B => i + 1 \in B
  BY <1>1
<1> HIDE DEF B
<1>4. \A i \in Nat : i \in B
  BY <1>2, <1>3, NumbersClosed
<1> QED BY <1>4 DEF B

\* The sum of one more.
LEMMA TotalUnfolds ==
  ASSUME NEW c, NEW n \in Nat
  PROVE  Total(c, 0) = 0 /\ Total(c, n + 1) = Total(c, n) + c[n + 1]
<1>1. PICK t : Partial(t, c, n + 1) /\ t = CHOOSE x : Partial(x, c, n + 1)
  BY PartialExists
<1>2. PICK s : Partial(s, c, n) /\ s = CHOOSE x : Partial(x, c, n)
  BY PartialExists
<1>3. PICK z : Partial(z, c, 0) /\ z = CHOOSE x : Partial(x, c, 0)
  BY PartialExists
<1>4. t[n] = s[n]
  BY <1>1, <1>2, PartialUnique
<1>5. t[n + 1] = t[n] + c[n + 1] /\ z[0] = 0
  BY <1>1, <1>3 DEF Partial
<1>6. Total(c, n + 1) = t[n + 1] /\ Total(c, n) = s[n] /\ Total(c, 0) = z[0]
  BY <1>1, <1>2, <1>3 DEF Total
<1> QED BY <1>4, <1>5, <1>6

Ints(c, n) == \A i \in 1 .. n : c[i] \in Int

\* A sum of integers is one.
LEMMA TotalInt ==
  ASSUME NEW c, NEW n \in Nat, Ints(c, n)
  PROVE  Total(c, n) \in Int
<1> DEFINE B == {m \in Nat : m <= n => Total(c, m) \in Int}
<1>1. 0 \in B
  BY TotalUnfolds
<1>2. ASSUME NEW m \in Nat, m \in B PROVE m + 1 \in B
  <2>1. Total(c, m + 1) = Total(c, m) + c[m + 1]
    BY TotalUnfolds
  <2> QED BY <1>2, <2>1 DEF Ints
<1> HIDE DEF B
<1>3. n \in B
  BY <1>1, <1>2, NumbersClosed
<1> QED BY <1>3 DEF B

\* Terms that are the same have the same sum.
LEMMA TotalSame ==
  ASSUME NEW c, NEW d, NEW n \in Nat, \A i \in 1 .. n : c[i] = d[i]
  PROVE  Total(c, n) = Total(d, n)
<1> DEFINE B == {m \in Nat : m <= n => Total(c, m) = Total(d, m)}
<1>1. 0 \in B
  BY TotalUnfolds
<1>2. ASSUME NEW m \in Nat, m \in B PROVE m + 1 \in B
  <2>1. Total(c, m + 1) = Total(c, m) + c[m + 1] /\ Total(d, m + 1) = Total(d, m) + d[m + 1]
    BY TotalUnfolds
  <2> QED BY <1>2, <2>1
<1> HIDE DEF B
<1>3. n \in B
  BY <1>1, <1>2, NumbersClosed
<1> QED BY <1>3 DEF B

\* A sum follows its terms when one of them changes.
LEMMA TotalChange ==
  ASSUME NEW c, NEW d, NEW n \in Nat, NEW k \in 1 .. n, Ints(c, n), Ints(d, n),
         \A i \in 1 .. n : i # k => c[i] = d[i]
  PROVE  Total(d, n) = Total(c, n) - c[k] + d[k]
<1> DEFINE B == {m \in Nat : m <= n => Total(d, m) = IF m < k THEN Total(c, m)
                                                     ELSE Total(c, m) - c[k] + d[k]}
<1>1. 0 \in B
  BY TotalUnfolds
<1>2. ASSUME NEW m \in Nat, m \in B PROVE m + 1 \in B
  <2>1. Total(c, m + 1) = Total(c, m) + c[m + 1] /\ Total(d, m + 1) = Total(d, m) + d[m + 1]
    BY TotalUnfolds
  <2>2. SUFFICES ASSUME m + 1 <= n
                 PROVE  Total(d, m + 1) = IF m + 1 < k THEN Total(c, m + 1)
                                          ELSE Total(c, m + 1) - c[k] + d[k]
    OBVIOUS
  <2>3. Ints(c, m) /\ Ints(d, m)
    BY <2>2 DEF Ints
  <2>4. Total(c, m) \in Int /\ Total(d, m) \in Int
    BY <2>3, TotalInt
  <2>5. c[k] \in Int /\ d[k] \in Int /\ c[m + 1] \in Int /\ d[m + 1] \in Int
    BY <2>2 DEF Ints
  <2>6. m + 1 # k => c[m + 1] = d[m + 1]
    BY <2>2
  <2>7. Total(d, m) = IF m < k THEN Total(c, m) ELSE Total(c, m) - c[k] + d[k]
    BY <1>2, <2>2
  <2>8. CASE m + 1 = k
    BY <2>1, <2>4, <2>5, <2>7, <2>8
  <2>9. CASE m + 1 # k
    BY <2>1, <2>4, <2>5, <2>6, <2>7, <2>9
  <2> QED BY <2>8, <2>9
<1> HIDE DEF B
<1>3. n \in B
  BY <1>1, <1>2, NumbersClosed
<1> QED BY <1>3 DEF B

\* Smaller terms have a smaller sum.
LEMMA TotalLess ==
  ASSUME NEW c, NEW d, NEW n \in Nat, Ints(c, n), Ints(d, n),
         \A i \in 1 .. n : c[i] <= d[i]
  PROVE  Total(c, n) <= Total(d, n)
<1> DEFINE B == {m \in Nat : m <= n => Total(c, m) <= Total(d, m)}
<1>1. 0 \in B
  BY TotalUnfolds
<1>2. ASSUME NEW m \in Nat, m \in B PROVE m + 1 \in B
  <2>1. Total(c, m + 1) = Total(c, m) + c[m + 1] /\ Total(d, m + 1) = Total(d, m) + d[m + 1]
    BY TotalUnfolds
  <2>2. SUFFICES ASSUME m + 1 <= n PROVE Total(c, m + 1) <= Total(d, m + 1)
    OBVIOUS
  <2>3. Ints(c, m) /\ Ints(d, m)
    BY <2>2 DEF Ints
  <2>4. Total(c, m) \in Int /\ Total(d, m) \in Int
    BY <2>3, TotalInt
  <2> QED BY <1>2, <2>1, <2>2, <2>4 DEF Ints
<1> HIDE DEF B
<1>3. n \in B
  BY <1>1, <1>2, NumbersClosed
<1> QED BY <1>3 DEF B

\* A sum of multiples of q is a multiple of q.
LEMMA TotalMultiple ==
  ASSUME NEW c, NEW n \in Nat, NEW q \in Nat,
         \A i \in 1 .. n : \E e \in Int : c[i] = q * e
  PROVE  \E e \in Int : Total(c, n) = q * e
<1> DEFINE B == {m \in Nat : m <= n => \E e \in Int : Total(c, m) = q * e}
<1>1. 0 \in B
  <2>1. Total(c, 0) = q * 0
    BY TotalUnfolds
  <2> QED BY <2>1
<1>2. ASSUME NEW m \in Nat, m \in B PROVE m + 1 \in B
  <2>1. Total(c, m + 1) = Total(c, m) + c[m + 1]
    BY TotalUnfolds
  <2>2. SUFFICES ASSUME m + 1 <= n PROVE \E e \in Int : Total(c, m + 1) = q * e
    OBVIOUS
  <2>3. PICK e \in Int : Total(c, m) = q * e
    BY <1>2, <2>2
  <2>4. PICK f \in Int : c[m + 1] = q * f
    BY <2>2
  <2>5. q * e + q * f = q * (e + f) /\ e + f \in Int
    OBVIOUS
  <2>6. Total(c, m + 1) = q * (e + f)
    BY ONLY <2>1, <2>3, <2>4, <2>5
  <2> QED BY ONLY <2>5, <2>6
<1> HIDE DEF B
<1>3. n \in B
  BY <1>1, <1>2, NumbersClosed
<1> QED BY <1>3 DEF B

-----------------------------------------------------------------------------
\* Graphs.

Degree(kind) == IF kind = "arg" THEN 0 ELSE Arity(kind)

\* A program: every operation has the operands of its kind, and they exist.
Graph(G) ==
  /\ DOMAIN G \subseteq Nat /\ \E m \in Nat : \A v \in DOMAIN G : v <= m
  /\ G \in [DOMAIN G -> [kind : {"arg", "op", "add"}, operands : Seq(DOMAIN G), block : 0 .. 2]]
  /\ \A u \in DOMAIN G : Len(G[u].operands) = Degree(G[u].kind)

\* Numbers that grow from operands to users.
Potential(G, d) ==
  /\ d \in [DOMAIN G -> Nat] /\ \E m \in Nat : \A v \in DOMAIN G : d[v] <= m
  /\ \A u \in DOMAIN G : \A k \in 1 .. Len(G[u].operands) : d[G[u].operands[k]] < d[u]

\* What the operands of an operation are.
LEMMA OperandFacts ==
  ASSUME NEW G, Graph(G), NEW u \in DOMAIN G
  PROVE  /\ Len(G[u].operands) = Degree(G[u].kind) /\ Len(G[u].operands) \in 0 .. 2
         /\ \A k \in 1 .. Len(G[u].operands) : G[u].operands[k] \in DOMAIN G
         /\ \A o : o \in ToSet(G[u].operands)
                   <=> \E k \in 1 .. Len(G[u].operands) : o = G[u].operands[k]
         /\ ToSet(G[u].operands) \subseteq DOMAIN G
         /\ G[u].operands = <<>> <=> Len(G[u].operands) = 0
<1>1. PICK s \in Seq(DOMAIN G) : s = G[u].operands
  BY DEF Graph
<1>2. G[u].kind \in {"arg", "op", "add"}
  BY DEF Graph
<1>3. Len(s) = Degree(G[u].kind) /\ Len(s) \in 0 .. 2
  <2>1. Len(s) = Degree(G[u].kind)
    BY <1>1 DEF Graph
  <2>2. Degree(G[u].kind) \in 0 .. 2
    BY <1>2 DEF Degree, Arity
  <2> QED BY <2>1, <2>2
<1>4. DOMAIN s = 1 .. Len(s) /\ \A k \in 1 .. Len(s) : s[k] \in DOMAIN G
  OBVIOUS
<1>5. \A o : o \in ToSet(s) <=> \E k \in 1 .. Len(s) : o = s[k]
  BY <1>4 DEF ToSet
<1>6. s = <<>> <=> Len(s) = 0
  OBVIOUS
<1> QED BY <1>1, <1>3, <1>4, <1>5, <1>6

\* A bounded set of numbers has a greatest element.
LEMMA MaxFacts ==
  ASSUME NEW S \in SUBSET Nat, S # {}, NEW m \in Nat, \A x \in S : x <= m
  PROVE  Max(S) \in S /\ \A y \in S : y <= Max(S)
<1> DEFINE T == {m - x : x \in S}
<1>1. T \in SUBSET Nat /\ T # {}
  <2>1. \A x \in S : m - x \in Nat
    OBVIOUS
  <2> QED BY <2>1
<1> HIDE DEF T
<1>2. PICK t \in T : \A y \in T : t <= y
  BY <1>1, LeastNatural
<1> USE DEF T
<1>3. PICK x \in S : t = m - x
  BY <1>2
<1>4. \A y \in S : x >= y
  <2> SUFFICES ASSUME NEW y \in S PROVE x >= y
    OBVIOUS
  <2>1. m - y \in T
    OBVIOUS
  <2>2. m - x <= m - y
    BY <1>2, <1>3, <2>1
  <2> QED BY <2>2
<1>5. Max(S) \in S /\ \A y \in S : Max(S) >= y
  BY <1>4 DEF Max
<1>6. Max(S) \in Nat /\ \A y \in S : y \in Nat
  BY <1>5
<1> QED BY <1>5, <1>6

\* The height above operands of given depths.
Above(G, f, u) == Height({f[o] : o \in ToSet(G[u].operands)})

\* It is above each of them, and the least that is.
LEMMA HeightFacts ==
  ASSUME NEW G, Graph(G), NEW u \in DOMAIN G, NEW f,
         \A k \in 1 .. Len(G[u].operands) : f[G[u].operands[k]] \in Nat
  PROVE  /\ Above(G, f, u) \in Nat
         /\ \A k \in 1 .. Len(G[u].operands) : f[G[u].operands[k]] < Above(G, f, u)
         /\ \A b \in Nat : (\A k \in 1 .. Len(G[u].operands) : f[G[u].operands[k]] < b)
                           => Above(G, f, u) <= b
         /\ Above(G, f, u) = IF G[u].operands = <<>> THEN 0
                             ELSE 1 + Max({f[o] : o \in ToSet(G[u].operands)})
<1>1. PICK s : s = G[u].operands
  OBVIOUS
<1>2. /\ Len(s) \in 0 .. 2 /\ (s = <<>> <=> Len(s) = 0)
      /\ \A o : o \in ToSet(s) <=> \E k \in 1 .. Len(s) : o = s[k]
  BY <1>1, OperandFacts
<1>3. \A k \in 1 .. Len(s) : f[s[k]] \in Nat
  BY <1>1
<1> DEFINE S == {f[o] : o \in ToSet(s)}
<1>4. \A x : x \in S <=> \E k \in 1 .. Len(s) : x = f[s[k]]
  BY <1>2
<1> HIDE DEF S
<1>5. CASE Len(s) = 0
  <2>1. S = {} /\ s = <<>>
    BY <1>2, <1>4, <1>5
  <2>2. Height(S) = 0
    BY <2>1 DEF Height
  <2>3. Above(G, f, u) = 0
    BY <1>1, <2>2 DEF Above, S
  <2> QED BY <1>1, <1>5, <2>1, <2>3
<1>6. CASE Len(s) # 0
  <2>1. S \in SUBSET Nat /\ S # {}
    <3>1. \A x \in S : x \in Nat
      BY <1>3, <1>4
    <3>2. 1 \in 1 .. Len(s)
      BY <1>2, <1>6
    <3>3. f[s[1]] \in S
      BY <1>4, <3>2
    <3> QED BY <3>1, <3>3
  <2>2. \E m \in Nat : \A x \in S : x <= m
    <3>1. CASE Len(s) = 1
      <4>1. f[s[1]] \in Nat /\ \A x \in S : x = f[s[1]]
        BY <1>3, <1>4, <3>1
      <4> QED BY <4>1
    <3>2. CASE Len(s) = 2
      <4>1. f[s[1]] \in Nat /\ f[s[2]] \in Nat /\ \A x \in S : x = f[s[1]] \/ x = f[s[2]]
        BY <1>3, <1>4, <3>2
      <4>2. f[s[1]] + f[s[2]] \in Nat /\ \A x \in S : x <= f[s[1]] + f[s[2]]
        BY <4>1
      <4> QED BY <4>2
    <3> QED BY <1>2, <1>6, <3>1, <3>2
  <2>3. PICK x \in Nat : x = Max(S)
    BY <2>1, <2>2, MaxFacts
  <2>4. x \in S /\ \A y \in S : y <= x
    BY <2>1, <2>2, <2>3, MaxFacts
  <2>5. Height(S) = x + 1
    BY <2>1, <2>3 DEF Height
  <2>6. Above(G, f, u) = x + 1 /\ x + 1 = 1 + x /\ s # <<>>
    BY <1>1, <1>2, <1>6, <2>5 DEF Above, S
  <2>7. \A k \in 1 .. Len(s) : f[s[k]] \in Nat /\ f[s[k]] < x + 1
    BY <1>3, <1>4, <2>4
  <2>8. ASSUME NEW b \in Nat, \A k \in 1 .. Len(s) : f[s[k]] < b PROVE x + 1 <= b
    BY <1>4, <2>4, <2>8
  <2>9. IF s = <<>> THEN Above(G, f, u) = 0 ELSE Above(G, f, u) = 1 + Max(S)
    BY <2>3, <2>6
  <2> QED BY <1>1, <2>6, <2>7, <2>8, <2>9 DEF S
<1> QED BY <1>2, <1>5, <1>6

\* ... and depends on nothing else.
LEMMA AboveSame ==
  ASSUME NEW G, Graph(G), NEW u \in DOMAIN G, NEW f, NEW g,
         \A k \in 1 .. Len(G[u].operands) : f[G[u].operands[k]] = g[G[u].operands[k]]
  PROVE  Above(G, f, u) = Above(G, g, u)
<1>1. \A o \in ToSet(G[u].operands) : f[o] = g[o]
  BY OperandFacts
<1>2. {f[o] : o \in ToSet(G[u].operands)} = {g[o] : o \in ToSet(G[u].operands)}
  BY <1>1
<1> QED BY <1>2 DEF Above

\* A step of a recursion, which reads only where d is less,
ReadsBelow(V, d, T, F) ==
  /\ F \in [V \X [V -> T] -> T]
  /\ \A v \in V : \A g, h \in [V -> T] :
       (\A o \in V : d[o] < d[v] => g[o] = h[o]) => F[<<v, g>>] = F[<<v, h>>]

\* ... and what it defines.
Solves(V, F, f) == \A v \in V : f[v] = F[<<v, f>>]

\* Recursion over numbers that grow has a solution.
LEMMA RecursionExists ==
  ASSUME NEW V, NEW d \in [V -> Nat], NEW m \in Nat, \A v \in V : d[v] <= m,
         NEW T, NEW z \in T, NEW F, ReadsBelow(V, d, T, F)
  PROVE  \E f \in [V -> T] : Solves(V, F, f)
<1> USE DEF ReadsBelow, Solves
<1> DEFINE B == {n \in Nat : \E f \in [V -> T] : \A v \in V : d[v] < n => f[v] = F[<<v, f>>]}
<1>1. 0 \in B
  <2>1. [v \in V |-> z] \in [V -> T]
    OBVIOUS
  <2>2. \A v \in V : ~ (d[v] < 0)
    OBVIOUS
  <2> QED BY ONLY <2>1, <2>2, Zenon
<1>2. ASSUME NEW n \in Nat, n \in B PROVE n + 1 \in B
  <2>1. PICK f \in [V -> T] : \A v \in V : d[v] < n => f[v] = F[<<v, f>>]
    BY <1>2
  <2> DEFINE g == [v \in V |-> IF d[v] < n THEN f[v] ELSE F[<<v, f>>]]
  <2>2. g \in [V -> T]
    OBVIOUS
  <2>3. \A v \in V : d[v] < n + 1 => g[v] = F[<<v, f>>]
    BY <2>1
  <2>4. \A v \in V : d[v] < n => g[v] = f[v]
    OBVIOUS
  <2> HIDE DEF g
  <2>5. ASSUME NEW v \in V, d[v] < n + 1 PROVE g[v] = F[<<v, g>>]
    <3>1. \A o \in V : d[o] < d[v] => g[o] = f[o]
      BY <2>4, <2>5
    <3>2. F[<<v, g>>] = F[<<v, f>>]
      BY <2>2, <3>1
    <3> QED BY <2>3, <2>5, <3>2
  <2> QED BY <2>2, <2>5
<1> HIDE DEF B
<1>3. m + 1 \in B
  <2>1. \A n \in Nat : n \in B
    BY <1>1, <1>2, NumbersClosed
  <2> QED BY <2>1
<1>4. PICK f \in [V -> T] : \A v \in V : d[v] < m + 1 => f[v] = F[<<v, f>>]
  BY <1>3 DEF B
<1>5. \A v \in V : d[v] < m + 1
  OBVIOUS
<1> QED BY <1>4, <1>5

\* What is the same wherever it is the same for the operands is the same.
SameStep(G, f, g) ==
  \A v \in DOMAIN G :
    (\A k \in 1 .. Len(G[v].operands) : f[G[v].operands[k]] = g[G[v].operands[k]])
      => f[v] = g[v]

\* Two functions that take the same steps agree everywhere.
LEMMA Agree ==
  ASSUME NEW G, Graph(G), NEW d, Potential(G, d), NEW f, NEW g, SameStep(G, f, g)
  PROVE  \A v \in DOMAIN G : f[v] = g[v]
<1> USE DEF SameStep
<1> DEFINE B == {n \in Nat : \A v \in DOMAIN G : d[v] < n => f[v] = g[v]}
<1>1. \A v \in DOMAIN G : d[v] \in Nat
  BY DEF Potential
<1>2. 0 \in B
  <2>1. \A v \in DOMAIN G : ~ (d[v] < 0)
    BY <1>1
  <2> QED BY <2>1
<1>3. ASSUME NEW n \in Nat, n \in B PROVE n + 1 \in B
  <2>1. SUFFICES ASSUME NEW v \in DOMAIN G, d[v] < n + 1 PROVE f[v] = g[v]
    OBVIOUS
  <2>2. \A k \in 1 .. Len(G[v].operands) :
          /\ d[G[v].operands[k]] < d[v] /\ G[v].operands[k] \in DOMAIN G
          /\ d[G[v].operands[k]] \in Nat
    BY <1>1, OperandFacts DEF Potential
  <2>3. \A k \in 1 .. Len(G[v].operands) : d[G[v].operands[k]] < n
    BY <1>1, <2>1, <2>2
  <2> QED BY <1>3, <2>2, <2>3
<1> HIDE DEF B
<1>4. \A n \in Nat : n \in B
  BY <1>2, <1>3, NumbersClosed
<1>5. SUFFICES ASSUME NEW v \in DOMAIN G PROVE f[v] = g[v]
  OBVIOUS
<1>6. d[v] + 1 \in Nat /\ d[v] < d[v] + 1
  BY <1>1
<1> QED BY <1>4, <1>6 DEF B

\* A step that reads only the operands
ReadsOperands(G, V, T, F) ==
  /\ F \in [V \X [V -> T] -> T]
  /\ \A v \in V : \A g, h \in [V -> T] :
       (\A k \in 1 .. Len(G[v].operands) : g[G[v].operands[k]] = h[G[v].operands[k]])
         => F[<<v, g>>] = F[<<v, h>>]

\* ... can be repeated to the end.
LEMMA GraphRecursion ==
  ASSUME NEW G, Graph(G), NEW d, Potential(G, d), NEW V, V = DOMAIN G,
         NEW T, NEW z \in T, NEW F, ReadsOperands(G, V, T, F)
  PROVE  \E f \in [V -> T] : Solves(V, F, f)
<1>1. d \in [V -> Nat]
  BY DEF Potential
<1>2. PICK m \in Nat : \A v \in V : d[v] <= m
  BY DEF Potential
<1>3. ASSUME NEW v \in V, NEW g \in [V -> T], NEW h \in [V -> T],
             \A o \in V : d[o] < d[v] => g[o] = h[o]
      PROVE  F[<<v, g>>] = F[<<v, h>>]
  <2>1. \A k \in 1 .. Len(G[v].operands) :
          d[G[v].operands[k]] < d[v] /\ G[v].operands[k] \in V
    BY OperandFacts DEF Potential
  <2>2. \A k \in 1 .. Len(G[v].operands) : g[G[v].operands[k]] = h[G[v].operands[k]]
    BY <1>3, <2>1
  <2> QED BY <2>2 DEF ReadsOperands
<1>4. ReadsBelow(V, d, T, F)
  BY <1>3 DEF ReadsBelow, ReadsOperands
<1> QED BY ONLY <1>1, <1>2, <1>4, z \in T, RecursionExists

\* The depths with a memo.
Depths(G, memo, f) ==
  f = [v \in DOMAIN G |-> IF v \in DOMAIN memo THEN memo[v] ELSE Above(G, f, v)]

\* There are such depths,
LEMMA DepthsExist ==
  ASSUME NEW G, Graph(G), NEW d, Potential(G, d), NEW memo,
         \A v \in DOMAIN memo : memo[v] \in Nat
  PROVE  \E f \in [DOMAIN G -> Nat] : Depths(G, memo, f)
<1> DEFINE V == DOMAIN G
           Val(v, g) == IF v \in DOMAIN memo THEN memo[v] ELSE Above(G, g, v)
           F == [p \in V \X [V -> Nat] |-> Val(p[1], p[2])]
<1>1. \A v \in V : \A g \in [V -> Nat] : F[<<v, g>>] = Val(v, g)
  OBVIOUS
<1>2. \A v \in V : \A g \in [V -> Nat] : Val(v, g) \in Nat
  <2> SUFFICES ASSUME NEW v \in V, NEW g \in [V -> Nat] PROVE Val(v, g) \in Nat
    OBVIOUS
  <2>1. \A k \in 1 .. Len(G[v].operands) : g[G[v].operands[k]] \in Nat
    BY OperandFacts
  <2> QED BY <2>1, HeightFacts
<1>3. ASSUME NEW v \in V, NEW g \in [V -> Nat], NEW h \in [V -> Nat],
             \A k \in 1 .. Len(G[v].operands) : g[G[v].operands[k]] = h[G[v].operands[k]]
      PROVE  F[<<v, g>>] = F[<<v, h>>]
  <2>1. Above(G, g, v) = Above(G, h, v)
    BY <1>3, AboveSame
  <2>2. Val(v, g) = Val(v, h)
    BY <2>1
  <2> QED BY <1>1, <2>2
<1>4. ReadsOperands(G, V, Nat, F)
  <2>1. F \in [V \X [V -> Nat] -> Nat]
    BY <1>2
  <2> HIDE DEF F
  <2> QED BY <1>3, <2>1 DEF ReadsOperands
<1>5. V = DOMAIN G /\ 0 \in Nat
  OBVIOUS
<1> HIDE DEF F, V
<1>6. PICK f \in [V -> Nat] : \A v \in V : f[v] = F[<<v, f>>]
  <2>1. \E f \in [V -> Nat] : Solves(V, F, f)
    BY <1>4, <1>5, GraphRecursion
  <2> QED BY <2>1 DEF Solves
<1> USE DEF V
<1>7. \A v \in V : f[v] = Val(v, f)
  BY <1>1, <1>6
<1>8. f = [v \in V |-> Val(v, f)]
  BY <1>6, <1>7
<1>9. Depths(G, memo, f)
  BY <1>8 DEF Depths
<1> QED BY <1>6, <1>9

\* ... and only one function is them.
LEMMA DepthsUnique ==
  ASSUME NEW G, Graph(G), NEW d, Potential(G, d), NEW memo, NEW f, NEW g,
         Depths(G, memo, f), Depths(G, memo, g)
  PROVE  f = g
<1>1. ASSUME NEW v \in DOMAIN G,
             \A k \in 1 .. Len(G[v].operands) : f[G[v].operands[k]] = g[G[v].operands[k]]
      PROVE  f[v] = g[v]
  <2>1. Above(G, f, v) = Above(G, g, v)
    BY <1>1, AboveSame
  <2>2. f[v] = (IF v \in DOMAIN memo THEN memo[v] ELSE Above(G, f, v))
        /\ g[v] = (IF v \in DOMAIN memo THEN memo[v] ELSE Above(G, g, v))
    BY DEF Depths
  <2> QED BY <2>1, <2>2
<1>2. \A v \in DOMAIN G : f[v] = g[v]
  <2>1. SameStep(G, f, g)
    BY <1>1 DEF SameStep
  <2> QED BY <2>1, Agree
<1>3. f = [v \in DOMAIN G |-> f[v]] /\ g = [v \in DOMAIN G |-> g[v]]
  BY DEF Depths
<1> QED BY <1>2, <1>3

\* getDepth is the depth with the memo.
LEMMA DepthFacts ==
  ASSUME Graph(ir), NEW d, Potential(ir, d), \A v \in DOMAIN depthMemo : depthMemo[v] \in Nat
  PROVE  /\ Depth \in [Live -> Nat]
         /\ \A v \in Live : Depth[v] = IF v \in DOMAIN depthMemo THEN depthMemo[v]
                                       ELSE Above(ir, Depth, v)
<1>1. PICK f \in [DOMAIN ir -> Nat] : Depths(ir, depthMemo, f)
  BY DepthsExist
<1> DEFINE Is(g) == g = [v \in Live |-> IF v \in DOMAIN depthMemo THEN depthMemo[v]
                                        ELSE Height({g[o] : o \in Operands(v)})]
<1>2. \A g : Is(g) <=> Depths(ir, depthMemo, g)
  BY DEF Depths, Above, Live, Operands
<1>3. Depth = CHOOSE g : Is(g)
  BY Zenon DEF Depth
<1>4. Is(Depth)
  <2> HIDE DEF Is
  <2> QED BY <1>1, <1>2, <1>3
<1>5. PICK g : g = Depth
  OBVIOUS
<1>6. Depths(ir, depthMemo, g)
  BY <1>2, <1>4, <1>5
<1>7. g = f
  BY <1>1, <1>6, DepthsUnique
<1>8. \A v \in Live : g[v] = IF v \in DOMAIN depthMemo THEN depthMemo[v] ELSE Above(ir, g, v)
  BY <1>6 DEF Depths, Live
<1>9. g \in [Live -> Nat]
  BY <1>1, <1>7 DEF Live
<1> QED BY ONLY <1>5, <1>8, <1>9

TrueDepths(G) == [v \in DOMAIN G |-> TrueDepth(G, v)]

\* The depth of a definition is the depth without a memo.
LEMMA TrueDepthFacts ==
  ASSUME NEW G, Graph(G), NEW d, Potential(G, d)
  PROVE  /\ TrueDepths(G) \in [DOMAIN G -> Nat]
         /\ \A v \in DOMAIN G : TrueDepths(G)[v] = Above(G, TrueDepths(G), v)
         /\ \A v \in DOMAIN G : TrueDepths(G)[v] = TrueDepth(G, v)
<1> DEFINE Step(g, u) == IF G[u].operands = <<>> THEN 0
                         ELSE 1 + Max({g[o] : o \in ToSet(G[u].operands)})
           Is(g) == g = [u \in DOMAIN G |-> Step(g, u)]
           none == [v \in {} |-> 0]
<1>1. PICK f \in [DOMAIN G -> Nat] : Depths(G, none, f)
  BY DepthsExist
<1>2. \A u \in DOMAIN G : f[u] = Above(G, f, u) /\ f[u] = Step(f, u)
  <2> SUFFICES ASSUME NEW u \in DOMAIN G PROVE f[u] = Above(G, f, u) /\ f[u] = Step(f, u)
    OBVIOUS
  <2>1. \A k \in 1 .. Len(G[u].operands) : f[G[u].operands[k]] \in Nat
    BY OperandFacts
  <2>2. Above(G, f, u) = Step(f, u)
    BY <2>1, HeightFacts
  <2>3. f[u] = Above(G, f, u)
    BY <1>1 DEF Depths
  <2> QED BY <2>2, <2>3
<1>3. Is(f)
  <2> HIDE DEF Step
  <2> QED BY <1>2
<1>4. PICK g : g = (CHOOSE x : Is(x)) /\ Is(g)
  <2> HIDE DEF Is
  <2> QED BY <1>3
<1>5. ASSUME NEW v \in DOMAIN G,
             \A k \in 1 .. Len(G[v].operands) : f[G[v].operands[k]] = g[G[v].operands[k]]
      PROVE  f[v] = g[v]
  <2>1. \A o \in ToSet(G[v].operands) : f[o] = g[o]
    <3> SUFFICES ASSUME NEW o \in ToSet(G[v].operands) PROVE f[o] = g[o]
      OBVIOUS
    <3>1. PICK k \in 1 .. Len(G[v].operands) : o = G[v].operands[k]
      BY OperandFacts
    <3> QED BY <1>5, <3>1
  <2>2. {f[o] : o \in ToSet(G[v].operands)} = {g[o] : o \in ToSet(G[v].operands)}
    BY <2>1
  <2>3. Step(f, v) = Step(g, v)
    BY <2>2
  <2>4. g[v] = Step(g, v)
    <3> HIDE DEF Step
    <3> QED BY <1>4
  <2> QED BY <1>2, <2>3, <2>4
<1>6. \A v \in DOMAIN G : f[v] = g[v]
  <2>1. SameStep(G, f, g)
    BY <1>5 DEF SameStep
  <2> QED BY <2>1, Agree
<1>7. \A v : TrueDepth(G, v) = g[v]
  <2>1. SUFFICES ASSUME NEW v PROVE TrueDepth(G, v) = (CHOOSE x : Is(x))[v]
    BY <1>4
  <2> QED BY Zenon DEF TrueDepth
<1>8. \A v \in DOMAIN G : TrueDepths(G)[v] = f[v] /\ TrueDepth(G, v) = f[v]
  BY <1>6, <1>7 DEF TrueDepths
<1>9. TrueDepths(G) = f
  BY <1>8 DEF TrueDepths
<1> QED BY ONLY <1>1, <1>2, <1>8, <1>9

\* What passes from operands to users holds everywhere.
LEMMA Everywhere ==
  ASSUME NEW G, Graph(G), NEW d, Potential(G, d), NEW B,
         \A v \in DOMAIN G : (\A k \in 1 .. Len(G[v].operands) : G[v].operands[k] \in B) => v \in B
  PROVE  \A v \in DOMAIN G : v \in B
<1> DEFINE f == [v \in DOMAIN G |-> IF v \in B THEN 1 ELSE 0]
           g == [v \in DOMAIN G |-> 1]
<1>1. ASSUME NEW v \in DOMAIN G,
             \A k \in 1 .. Len(G[v].operands) : f[G[v].operands[k]] = g[G[v].operands[k]]
      PROVE  f[v] = g[v]
  <2>1. \A k \in 1 .. Len(G[v].operands) : G[v].operands[k] \in B
    <3> SUFFICES ASSUME NEW k \in 1 .. Len(G[v].operands) PROVE G[v].operands[k] \in B
      OBVIOUS
    <3>1. PICK o : o = G[v].operands[k]
      OBVIOUS
    <3>2. o \in DOMAIN G /\ f[o] = g[o]
      BY <1>1, <3>1, OperandFacts
    <3>3. o \in B
      BY <3>2
    <3> QED BY <3>1, <3>3
  <2> QED BY <2>1
<1>2. SameStep(G, f, g)
  <2> HIDE DEF f, g
  <2> QED BY <1>1 DEF SameStep
<1>3. \A v \in DOMAIN G : f[v] = g[v]
  <2> HIDE DEF f, g
  <2> QED BY <1>2, Agree
<1> QED BY <1>3

\* Numbers that do not fall from operands to users.
Slope(G, l) ==
  /\ l \in [DOMAIN G -> Nat]
  /\ \A u \in DOMAIN G : \A k \in 1 .. Len(G[u].operands) : l[G[u].operands[k]] <= l[u]

\* A potential is a slope.
LEMMA PotentialSlope ==
  ASSUME NEW G, Graph(G), NEW d, Potential(G, d)
  PROVE  Slope(G, d)
<1>1. \A u \in DOMAIN G : \A k \in 1 .. Len(G[u].operands) : d[G[u].operands[k]] \in Nat
  BY OperandFacts DEF Potential
<1> QED BY <1>1 DEF Potential, Slope

\* What the search from a value finds, s[v] for every v.
Found(G, memo, s) ==
  /\ s \in [DOMAIN G -> SUBSET DOMAIN G]
  /\ \A v \in DOMAIN G : s[v] = IF v \in DOMAIN memo THEN {}
                                ELSE {v} \cup UNION {s[o] : o \in ToSet(G[v].operands)}

\* getDepth's search finds it.
LEMMA SearchedIsFound ==
  ASSUME Graph(ir), NEW d, Potential(ir, d)
  PROVE  Found(ir, depthMemo, Searched)
<1> DEFINE V == DOMAIN ir
           T == SUBSET V
           Step(g, v) == IF v \in DOMAIN depthMemo THEN {}
                         ELSE {v} \cup UNION {g[o] : o \in ToSet(ir[v].operands)}
           F == [p \in V \X [V -> T] |-> Step(p[2], p[1])]
           Is(g) == g = [v \in V |-> Step(g, v)]
<1>1. \A v \in V : \A g \in [V -> T] : F[<<v, g>>] = Step(g, v)
  OBVIOUS
<1>2. \A v \in V : \A g \in [V -> T] : Step(g, v) \in T
  <2> SUFFICES ASSUME NEW v \in V, NEW g \in [V -> T] PROVE Step(g, v) \in T
    OBVIOUS
  <2>1. \A o \in ToSet(ir[v].operands) : g[o] \in T
    BY OperandFacts
  <2> QED BY <2>1
<1>3. ASSUME NEW v \in V, NEW g, NEW h,
             \A k \in 1 .. Len(ir[v].operands) : g[ir[v].operands[k]] = h[ir[v].operands[k]]
      PROVE  Step(g, v) = Step(h, v)
  <2>1. \A o \in ToSet(ir[v].operands) : g[o] = h[o]
    <3> SUFFICES ASSUME NEW o \in ToSet(ir[v].operands) PROVE g[o] = h[o]
      OBVIOUS
    <3>1. v \in DOMAIN ir /\ o \in ToSet(ir[v].operands)
      OBVIOUS
    <3>2. PICK k \in 1 .. Len(ir[v].operands) : o = ir[v].operands[k]
      BY ONLY <3>1, Graph(ir), OperandFacts
    <3> QED BY <1>3, <3>2
  <2>2. {g[o] : o \in ToSet(ir[v].operands)} = {h[o] : o \in ToSet(ir[v].operands)}
    BY <2>1
  <2> QED BY <2>2
<1>4. F \in [V \X [V -> T] -> T]
  BY <1>2
<1>5. ReadsOperands(ir, V, T, F)
  <2> HIDE DEF F, Step, T, V
  <2>1. ASSUME NEW v \in V, NEW g \in [V -> T], NEW h \in [V -> T],
               \A k \in 1 .. Len(ir[v].operands) : g[ir[v].operands[k]] = h[ir[v].operands[k]]
        PROVE  F[<<v, g>>] = F[<<v, h>>]
    <3>1. Step(g, v) = Step(h, v)
      BY <1>3, <2>1
    <3> QED BY <1>1, <3>1
  <2> QED BY <1>4, <2>1 DEF ReadsOperands
<1>6. {} \in T
  OBVIOUS
<1>7. PICK f \in [V -> T] : \A v \in V : f[v] = F[<<v, f>>]
  <2> HIDE DEF F, T
  <2>1. \E f \in [V -> T] : Solves(V, F, f)
    BY <1>5, <1>6, GraphRecursion
  <2> QED BY <2>1 DEF Solves
<1>8. Is(f)
  <2> HIDE DEF F, Step
  <2> QED BY <1>1, <1>7
<1>9. Searched = CHOOSE g : Is(g)
  BY Zenon DEF Searched, Live, Operands
<1>10. PICK g : g = Searched /\ Is(g)
  <2> HIDE DEF Is
  <2> QED BY <1>8, <1>9
<1>11. \A v \in V : g[v] = Step(g, v) /\ f[v] = Step(f, v)
  <2> HIDE DEF Step
  <2> QED BY <1>8, <1>10
<1>12. SameStep(ir, f, g)
  <2> HIDE DEF Step, F, T
  <2> QED BY <1>3, <1>11 DEF SameStep
<1>13. \A v \in V : f[v] = g[v]
  BY <1>12, Agree
<1>14. g = f
  <2> HIDE DEF Step, F, T
  <2> QED BY <1>8, <1>10, <1>13
<1>15. Found(ir, depthMemo, f)
  BY <1>7, <1>11 DEF Found
<1> QED BY ONLY <1>10, <1>14, <1>15

\* What is found has no entry, its operands are found or have one, and no
\* slope goes up to it.
LEMMA FoundFacts ==
  ASSUME NEW G, Graph(G), NEW d, Potential(G, d), NEW memo, NEW s, Found(G, memo, s),
         NEW leaf \in DOMAIN G
  PROVE  /\ s[leaf] \subseteq DOMAIN G \ DOMAIN memo
         /\ leaf \in s[leaf] \cup DOMAIN memo
         /\ \A v \in s[leaf] : \A k \in 1 .. Len(G[v].operands) :
              G[v].operands[k] \in s[leaf] \cup DOMAIN memo
         /\ \A l : Slope(G, l) => \A v \in s[leaf] : l[v] <= l[leaf]
<1> DEFINE Good(u) ==
      /\ s[u] \subseteq DOMAIN G \ DOMAIN memo
      /\ u \in s[u] \cup DOMAIN memo
      /\ \A v \in s[u] : \A k \in 1 .. Len(G[v].operands) :
           G[v].operands[k] \in s[u] \cup DOMAIN memo
      /\ \A l : Slope(G, l) => \A v \in s[u] : l[v] <= l[u]
           B == {u \in DOMAIN G : Good(u)}
<1>1. ASSUME NEW u \in DOMAIN G, \A k \in 1 .. Len(G[u].operands) : G[u].operands[k] \in B
      PROVE  u \in B
  <2>1. CASE u \in DOMAIN memo
    BY <2>1 DEF Found
  <2>2. CASE u \notin DOMAIN memo
    <3>1. \A x : x \in s[u] <=> x = u \/ \E k \in 1 .. Len(G[u].operands) : x \in s[G[u].operands[k]]
      <4>1. s[u] = {u} \cup UNION {s[o] : o \in ToSet(G[u].operands)}
        BY <2>2 DEF Found
      <4>2. \A o : o \in ToSet(G[u].operands)
                   <=> \E k \in 1 .. Len(G[u].operands) : o = G[u].operands[k]
        BY OperandFacts
      <4> QED BY <4>1, <4>2
    <3>2. \A k \in 1 .. Len(G[u].operands) : Good(G[u].operands[k]) /\ G[u].operands[k] \in DOMAIN G
      BY <1>1
    <3>3. s[u] \subseteq DOMAIN G \ DOMAIN memo /\ u \in s[u]
      BY <2>2, <3>1, <3>2
    <3>4. ASSUME NEW v \in s[u], NEW k \in 1 .. Len(G[v].operands)
          PROVE  G[v].operands[k] \in s[u] \cup DOMAIN memo
      <4>1. CASE v = u
        <5>1. G[v].operands[k] \in s[G[v].operands[k]] \cup DOMAIN memo
          BY <3>2, <4>1
        <5> QED BY <3>1, <4>1, <5>1
      <4>2. CASE v # u
        <5>1. PICK j \in 1 .. Len(G[u].operands) : v \in s[G[u].operands[j]]
          BY <3>1, <4>2
        <5>2. G[v].operands[k] \in s[G[u].operands[j]] \cup DOMAIN memo
          BY <3>2, <5>1
        <5> QED BY <3>1, <5>2
      <4> QED BY <4>1, <4>2
    <3>5. ASSUME NEW l, Slope(G, l), NEW v \in s[u] PROVE l[v] <= l[u]
      <4>1. l[u] \in Nat /\ l[v] \in Nat
        BY <3>3, <3>5 DEF Slope
      <4>2. CASE v = u
        BY <4>1, <4>2
      <4>3. CASE v # u
        <5>1. PICK j \in 1 .. Len(G[u].operands) : v \in s[G[u].operands[j]]
          BY <3>1, <4>3
        <5>2. PICK o : o = G[u].operands[j]
          OBVIOUS
        <5>3. l[v] <= l[o] /\ l[o] <= l[u] /\ l[o] \in Nat
          BY <3>2, <3>5, <5>1, <5>2 DEF Slope
        <5> QED BY <4>1, <5>3
      <4> QED BY <4>2, <4>3
    <3> QED BY <3>3, <3>4, <3>5
  <2> QED BY <2>1, <2>2
<1> HIDE DEF B
<1>2. \A u \in DOMAIN G : u \in B
  BY <1>1, Everywhere
<1> USE DEF B
<1> QED BY <1>2

-----------------------------------------------------------------------------
\* Meanings.

\* s is the meaning of every value: each atom is itself, an addition adds up.
Meaning(G, A, s) ==
  /\ s \in [DOMAIN G -> [A -> Int]]
  /\ \A u \in DOMAIN G : s[u] =
       IF u \in A THEN [a \in A |-> IF a = u THEN 1 ELSE 0]
       ELSE [a \in A |-> s[G[u].operands[1]][a] + s[G[u].operands[2]][a]]

Atoms(G) == {u \in DOMAIN G : G[u].kind # "add"}

\* Every value has one.
LEMMA MeaningExists ==
  ASSUME NEW G, Graph(G), NEW d, Potential(G, d)
  PROVE  \E s : Meaning(G, Atoms(G), s)
<1> DEFINE V == DOMAIN G
           A == Atoms(G)
           T == [A -> Int]
           Step(g, u) == IF u \in A THEN [a \in A |-> IF a = u THEN 1 ELSE 0]
                         ELSE [a \in A |-> g[G[u].operands[1]][a] + g[G[u].operands[2]][a]]
           F == [p \in V \X [V -> T] |-> Step(p[2], p[1])]
<1>1. \A v \in V : \A g \in [V -> T] : F[<<v, g>>] = Step(g, v)
  OBVIOUS
<1>2. ASSUME NEW v \in V, v \notin A
      PROVE  /\ 1 \in 1 .. Len(G[v].operands) /\ 2 \in 1 .. Len(G[v].operands)
             /\ G[v].operands[1] \in V /\ G[v].operands[2] \in V
  <2>1. Len(G[v].operands) = 2
    BY <1>2, OperandFacts DEF Atoms, Degree, Arity
  <2>2. 1 \in 1 .. Len(G[v].operands) /\ 2 \in 1 .. Len(G[v].operands)
    BY <2>1
  <2> QED BY <2>2, OperandFacts
<1>3. ASSUME NEW v \in V, NEW g \in [V -> T] PROVE Step(g, v) \in T
  <2>1. CASE v \in A
    BY <2>1
  <2>2. CASE v \notin A
    <3>1. PICK x \in T : x = g[G[v].operands[1]]
      BY <1>2, <2>2
    <3>2. PICK y \in T : y = g[G[v].operands[2]]
      BY <1>2, <2>2
    <3>3. [a \in A |-> x[a] + y[a]] \in T
      OBVIOUS
    <3>4. Step(g, v) = [a \in A |-> x[a] + y[a]]
      BY <2>2, <3>1, <3>2
    <3> QED BY <3>3, <3>4
  <2> QED BY <2>1, <2>2
<1>4. ASSUME NEW v \in V, NEW g, NEW h,
             \A k \in 1 .. Len(G[v].operands) : g[G[v].operands[k]] = h[G[v].operands[k]]
      PROVE  Step(g, v) = Step(h, v)
  <2>1. CASE v \in A
    BY <2>1
  <2>2. CASE v \notin A
    <3>1. g[G[v].operands[1]] = h[G[v].operands[1]] /\ g[G[v].operands[2]] = h[G[v].operands[2]]
      BY <1>2, <1>4, <2>2
    <3> QED BY <2>2, <3>1
  <2> QED BY <2>1, <2>2
<1>5. F \in [V \X [V -> T] -> T]
  <2> HIDE DEF Step, T
  <2> QED BY <1>3
<1>6. ReadsOperands(G, V, T, F)
  <2> HIDE DEF F, Step, T
  <2> QED BY <1>1, <1>4, <1>5 DEF ReadsOperands
<1>7. [a \in A |-> 0] \in T
  OBVIOUS
<1>8. PICK f \in [V -> T] : \A v \in V : f[v] = F[<<v, f>>]
  <2> HIDE DEF F, T
  <2>1. \E f \in [V -> T] : Solves(V, F, f)
    BY <1>6, <1>7, GraphRecursion
  <2> QED BY <2>1 DEF Solves
<1>9. \A v \in V : f[v] = Step(f, v)
  <2> HIDE DEF F, Step
  <2> QED BY <1>1, <1>8
<1>10. Meaning(G, A, f)
  BY <1>8, <1>9 DEF Meaning
<1> QED BY <1>10

\* ... and Sum is it.
LEMMA SumIsMeaning ==
  ASSUME NEW G, Graph(G), NEW d, Potential(G, d), NEW s, Meaning(G, Atoms(G), s)
  PROVE  \A v \in DOMAIN G : Sum(G, v) = s[v]
<1> DEFINE A == Atoms(G)
           Step(g, u) == IF u \in A THEN [a \in A |-> IF a = u THEN 1 ELSE 0]
                         ELSE LET x == g[G[u].operands[1]]
                                  y == g[G[u].operands[2]]
                              IN  [a \in A |-> x[a] + y[a]]
           Is(g) == g = [u \in DOMAIN G |-> Step(g, u)]
<1>1. \A u \in DOMAIN G : s[u] = Step(s, u)
  BY DEF Meaning
<1>2. s = [u \in DOMAIN G |-> s[u]]
  BY DEF Meaning
<1>3. Is(s)
  <2> HIDE DEF Step
  <2> QED BY <1>1, <1>2
<1>4. PICK g : g = (CHOOSE x : Is(x)) /\ Is(g)
  <2> HIDE DEF Is
  <2> QED BY <1>3
<1>5. ASSUME NEW v \in DOMAIN G,
             \A k \in 1 .. Len(G[v].operands) : s[G[v].operands[k]] = g[G[v].operands[k]]
      PROVE  s[v] = g[v]
  <2>1. g[v] = Step(g, v)
    <3> HIDE DEF Step
    <3> QED BY <1>4
  <2>2. Step(s, v) = Step(g, v)
    <3>1. CASE v \in A
      BY <3>1
    <3>2. CASE v \notin A
      <4>1. Len(G[v].operands) = 2
        BY <3>2, OperandFacts DEF Atoms, Degree, Arity
      <4>2. 1 \in 1 .. Len(G[v].operands) /\ 2 \in 1 .. Len(G[v].operands)
        BY <4>1
      <4>3. s[G[v].operands[1]] = g[G[v].operands[1]] /\ s[G[v].operands[2]] = g[G[v].operands[2]]
        BY <1>5, <4>2
      <4> QED BY <3>2, <4>3
    <3> QED BY <3>1, <3>2
  <2> HIDE DEF Step
  <2> QED BY <1>1, <2>1, <2>2
<1>6. SameStep(G, s, g)
  BY <1>5 DEF SameStep
<1>7. \A v \in DOMAIN G : s[v] = g[v]
  BY <1>6, Agree
<1>8. \A v : Sum(G, v) = g[v]
  <2>1. SUFFICES ASSUME NEW v PROVE Sum(G, v) = (CHOOSE x : Is(x))[v]
    BY <1>4
  <2> QED BY Zenon DEF Sum, Atoms
<1> QED BY <1>7, <1>8

-----------------------------------------------------------------------------
\* The invariant of the structure.

\* The uses of a value in G.
UsesIn(G, v) ==
  {use \in (DOMAIN G) \X {1, 2} :
     use[2] <= Len(G[use[1]].operands) /\ G[use[1]].operands[use[2]] = v}

\* What uses r, or will when the tree is rewritten: its uses by others than
\* the additions of `inner`, its places on the worklist (the first component
\* is -1), and its places among the leaves that no new addition has consumed
\* (-2).
Tokens(G, inner, wl, lv, open, r) ==
  {use \in UsesIn(G, r) : use[1] \notin inner}
    \cup {<<-1, i>> : i \in {j \in 1 .. Len(wl) : wl[j] = r}}
    \cup {<<-2, i>> : i \in {j \in open : lv[j] = r}}

\* The user is or will be an addition of block b, where the tree is in block rb.
IsNear(G, rb, b, t) ==
  IF t[1] >= 0 THEN G[t[1]].kind = "add" /\ G[t[1]].block = b ELSE rb = b

\* A value of block b that has these uses is the root of its tree.
Loose(G, rb, b, T) ==
  \/ T = {}
  \/ \E e \in T : ~ IsNear(G, rb, b, e)
  \/ \E e, f \in T : e # f

\* The leaves that no addition has consumed.
Open == {i \in 1 .. Len(leaves) : i > seq \/ \E x \in heap : x.seq = i - 1}

TokensOf(r) == Tokens(ir, ToSet(interior), worklist, leaves, Open, r)

\* The program as the pass found it.
OriginalOK ==
  /\ Graph(original) /\ original[Return].kind = "op"
  /\ \A a \in Arg : a \in DOMAIN original /\ original[a].kind = "arg"
  /\ \E n \in Nat \ {0} :
       /\ DOMAIN original = 0 .. n
       /\ \A u \in 0 .. n : \A k \in 1 .. Len(original[u].operands) :
            original[u].operands[k] \in 1 .. (IF u = Return THEN n ELSE u - 1)

\* What is left of it and what is new.
ProgramOK ==
  /\ Graph(ir)
  /\ \A v \in DOMAIN original : original[v].kind # "add" => v \in Live
  /\ \A v \in Live \cap DOMAIN original :
       ir[v].kind = original[v].kind /\ ir[v].block = original[v].block
  /\ \A v \in Live \ DOMAIN original : ir[v].kind = "add"
  /\ pc = "walk" => ir = original

\* No number is given to an operation twice.
NumbersOK ==
  \E v \in Live : /\ \A u \in DOMAIN original : u <= v
                  /\ pc = "erase" => v \notin ToSet(interior)

InChain == pc \in {"gather", "rank", "erase"}

RootsOK ==
  /\ roots \subseteq DOMAIN original \ {Return}
  /\ \A r \in roots : original[r].kind = "add"
  /\ pc = "walk" => roots = {}
  /\ InChain => roots # {}
  /\ pc \in {"next", "gather"} =>
       \A r \in roots : r \in Live /\ Loose(ir, 0, original[r].block, UsesIn(ir, r))
  /\ pc \in {"gather", "rank"} => Root \in Live
  /\ InChain =>
       \A r \in roots \ {Root} :
         /\ r \in Live /\ r \notin ToSet(interior)
         /\ Loose(ir, original[Root].block, original[r].block, TokensOf(r))

\* Users come before the additions they use.
InteriorOK ==
  /\ interior \in Seq(Live)
  /\ pc \in {"gather", "rank"} => Len(interior) >= 1 /\ interior[1] = Root
  /\ InChain =>
       /\ \A i, j \in 1 .. Len(interior) : interior[i] = interior[j] => i = j
       /\ \A j \in 1 .. Len(interior) :
            /\ ir[interior[j]].kind = "add"
            /\ (pc # "erase" => j > 1) =>
                 \A use \in UsesIn(ir, interior[j]) : \E i \in 1 .. j - 1 : use[1] = interior[i]

LeavesOK ==
  /\ leaves \in Seq(Live)
  /\ InChain => \A i \in 1 .. Len(leaves) : leaves[i] \notin ToSet(interior)

GatherOK ==
  /\ worklist \in Seq(Live)
  /\ pc # "gather" => worklist = <<>>
  /\ pc = "gather" =>
       /\ seq = 0 /\ heap = {}
       /\ Len(worklist) + Len(leaves) = Len(interior) + 1
       /\ \A i \in 1 .. Len(worklist) :
            \E j \in 1 .. Len(interior), k \in {1, 2} : <<interior[j], k>> \in UsesIn(ir, worklist[i])
       /\ \A j \in 2 .. Len(interior) : IsInterior(interior[j])
       /\ \A i \in 1 .. Len(leaves) : ~ IsInterior(leaves[i])
       /\ \A v \in Live \ {Root} : HasOneUse(v) =>
            /\ v \in ToSet(interior) => TokensOf(v) = {}
            /\ \A e, f \in TokensOf(v) : e = f

\* The queue's nodes are told apart by seq.
Nodes(heapOf, n, V) ==
  /\ IsFiniteSet(heapOf) /\ n \in Nat
  /\ heapOf \subseteq [value : V, rank : Nat, seq : 0 .. n - 1]
  /\ \A x, y \in heapOf : x.seq = y.seq => x = y

HeapOK ==
  /\ Nodes(heap, seq, Live)
  /\ pc \in {"rank", "erase"} => \A x \in heap : x.value \notin ToSet(interior)
  /\ pc = "erase" => seq >= Len(leaves) /\ \A x \in heap : x.seq >= Len(leaves)
  /\ pc = "rank" =>
       /\ Len(leaves) >= 3 /\ Len(leaves) = Len(interior) + 1
       /\ Cardinality(heap) = IF seq <= Len(leaves) THEN seq ELSE 2 * Len(leaves) - seq
       /\ \A x \in heap : IF x.seq < Len(leaves) THEN x.value = leaves[x.seq + 1]
                          ELSE x.value \notin DOMAIN original \cup ToSet(leaves)
       /\ seq > Len(leaves) => \E x \in heap : x.seq = seq - 1

CountOK ==
  Cardinality(Adds(ir)) = Cardinality(Adds(original)) +
    (CASE pc = "rank" /\ seq > Len(leaves) -> seq - Len(leaves)
       [] pc = "erase" -> Len(interior)
       [] OTHER -> 0)

StateOK == inOrder \in BOOLEAN /\ pc \in {"walk", "next", "gather", "rank", "erase"}

Structure ==
  /\ StateOK /\ OriginalOK /\ ProgramOK /\ NumbersOK /\ RootsOK
  /\ InteriorOK /\ LeavesOK /\ GatherOK /\ HeapOK /\ CountOK

-----------------------------------------------------------------------------
\* Uses and roots.

\* Membership of UsesIn, spelt out.
LEMMA UsesFacts ==
  ASSUME NEW G, NEW v
  PROVE  /\ \A u, k : <<u, k>> \in UsesIn(G, v)
                      <=> /\ u \in DOMAIN G /\ k \in {1, 2} /\ k <= Len(G[u].operands)
                          /\ G[u].operands[k] = v
         /\ \A t \in UsesIn(G, v) : t = <<t[1], t[2]>>
  BY DEF UsesIn

\* ... of a program.
LEMMA UsesOfGraph ==
  ASSUME NEW G, Graph(G), NEW v
  PROVE  /\ \A u, k : <<u, k>> \in UsesIn(G, v)
                      <=> u \in DOMAIN G /\ k \in 1 .. Len(G[u].operands) /\ G[u].operands[k] = v
         /\ \A t \in UsesIn(G, v) : t = <<t[1], t[2]>> /\ t[1] \in DOMAIN G /\ t[1] \in Nat
         /\ IsFiniteSet(UsesIn(G, v))
<1>1. \A u \in DOMAIN G : Len(G[u].operands) \in 0 .. 2
  BY OperandFacts
<1>2. \A u, k : <<u, k>> \in UsesIn(G, v)
                <=> u \in DOMAIN G /\ k \in 1 .. Len(G[u].operands) /\ G[u].operands[k] = v
  <2> SUFFICES ASSUME NEW u, NEW k
               PROVE  <<u, k>> \in UsesIn(G, v) <=>
                      u \in DOMAIN G /\ k \in 1 .. Len(G[u].operands) /\ G[u].operands[k] = v
    OBVIOUS
  <2>1. CASE u \notin DOMAIN G
    BY <2>1, UsesFacts
  <2>2. CASE u \in DOMAIN G
    <3>1. PICK n \in 0 .. 2 : n = Len(G[u].operands)
      BY <1>1, <2>2
    <3>2. k \in {1, 2} /\ k <= n <=> k \in 1 .. n
      <4>1. ASSUME k \in 1 .. n PROVE k \in {1, 2} /\ k <= n
        <5>1. k \in Int /\ 1 <= k /\ k <= n /\ n <= 2
          BY <4>1
        <5> QED BY <5>1
      <4>2. CASE k \in {1, 2}
        BY <4>2
      <4> QED BY <4>1, <4>2
    <3> QED BY <2>2, <3>1, <3>2, UsesFacts
  <2> QED BY <2>1, <2>2
<1>3. \A t \in UsesIn(G, v) : t = <<t[1], t[2]>> /\ t[1] \in DOMAIN G
  BY DEF UsesIn
<1>4. IsFiniteSet(UsesIn(G, v))
  <2>1. PICK m \in Nat : \A u \in DOMAIN G : u <= m
    BY DEF Graph
  <2>2. DOMAIN G \in SUBSET (0 .. m)
    BY <2>1 DEF Graph
  <2>3. IsFiniteSet(0 .. m) /\ IsFiniteSet(1 .. 2)
    <3>1. 0 \in Int /\ 1 \in Int /\ 2 \in Int /\ m \in Int
      OBVIOUS
    <3> QED BY <3>1, FS_Interval
  <2>4. IsFiniteSet((0 .. m) \X (1 .. 2))
    BY <2>3, FS_Product
  <2>5. UsesIn(G, v) \in SUBSET ((0 .. m) \X (1 .. 2))
    BY <2>2 DEF UsesIn
  <2> QED BY <2>4, <2>5, FS_Subset
<1>5. DOMAIN G \subseteq Nat
  BY DEF Graph
<1> QED BY <1>2, <1>3, <1>4, <1>5

\* One use is one element.
LEMMA OneUse ==
  ASSUME Graph(ir), NEW v
  PROVE  /\ Uses(v) = UsesIn(ir, v)
         /\ HasOneUse(v) <=> \E e : UsesIn(ir, v) = {e}
<1>1. Uses(v) = UsesIn(ir, v)
  BY DEF Uses, UsesIn, Live
<1>2. IsFiniteSet(UsesIn(ir, v))
  BY UsesOfGraph
<1> QED BY <1>1, <1>2, FS_Singleton DEF HasOneUse

\* isUniformAdd and the test on the users make a root.
LEMMA RootIsLoose ==
  ASSUME Graph(ir), NEW v
  PROVE  IsRoot(v) <=> ir[v].kind = "add" /\ Loose(ir, 0, ir[v].block, UsesIn(ir, v))
<1> DEFINE T == UsesIn(ir, v)
           Local == \A u \in Users(v) : IsUniformAdd(u) /\ ir[u].block = ir[v].block
<1>1. Uses(v) = T /\ (HasOneUse(v) <=> \E e : T = {e})
  BY OneUse
<1>2. \A u : u \in Users(v) <=> \E t \in T : u = t[1]
  BY <1>1 DEF Users
<1>3. \A t \in T : t[1] \in Nat
  BY UsesOfGraph
<1> HIDE DEF T
<1>4. \A t \in T : IsNear(ir, 0, ir[v].block, t)
                   <=> IsUniformAdd(t[1]) /\ ir[t[1]].block = ir[v].block
  BY <1>3 DEF IsNear, IsUniformAdd
<1>5. Local <=> \A t \in T : IsNear(ir, 0, ir[v].block, t)
  BY <1>2, <1>4
<1>6. (\E e : T = {e}) <=> T # {} /\ ~ \E e, f \in T : e # f
  OBVIOUS
<1>7. Loose(ir, 0, ir[v].block, T) <=> ~ ((\E e : T = {e}) /\ Local)
  BY <1>5, <1>6 DEF Loose
<1>8. IsRoot(v) <=> IsUniformAdd(v) /\ ~ (HasOneUse(v) /\ Local)
  BY DEF IsRoot
<1> QED BY <1>1, <1>7, <1>8 DEF T, IsUniformAdd

\* A bijection that keeps what is near keeps roots.
Moves(G, H, rb, b, T, S, m) ==
  /\ m \in [T -> S]
  /\ \A e, f \in T : m[e] = m[f] => e = f
  /\ \A e \in S : \E f \in T : m[f] = e
  /\ \A e \in T : IsNear(G, rb, b, e) <=> IsNear(H, rb, b, m[e])

\* Moved one to one, tokens tell roots from interiors as before.
LEMMA MovedLoose ==
  ASSUME NEW G, NEW H, NEW rb, NEW b, NEW T, NEW S, NEW m, Moves(G, H, rb, b, T, S, m)
  PROVE  /\ Loose(G, rb, b, T) => Loose(H, rb, b, S)
         /\ T = {} => S = {}
         /\ (\A e, f \in T : e = f) => \A e, f \in S : e = f
<1>1. ASSUME Loose(G, rb, b, T) PROVE Loose(H, rb, b, S)
  <2>1. CASE T = {}
    <3>1. S = {}
      BY <2>1 DEF Moves
    <3> QED BY <3>1 DEF Loose
  <2>2. CASE \E e \in T : ~ IsNear(G, rb, b, e)
    <3>1. PICK e \in T : ~ IsNear(G, rb, b, e)
      BY <2>2
    <3>2. m[e] \in S /\ ~ IsNear(H, rb, b, m[e])
      BY <3>1 DEF Moves
    <3> QED BY <3>2 DEF Loose
  <2>3. CASE \E e, f \in T : e # f
    <3>1. PICK e \in T, f \in T : e # f
      BY <2>3
    <3>2. m[e] \in S /\ m[f] \in S /\ m[e] # m[f]
      BY <3>1 DEF Moves
    <3> QED BY <3>2 DEF Loose
  <2> QED BY <1>1, <2>1, <2>2, <2>3 DEF Loose
<1>2. T = {} => S = {}
  BY DEF Moves
<1>3. ASSUME \A e, f \in T : e = f PROVE \A e, f \in S : e = f
  BY <1>3 DEF Moves
<1> QED BY <1>1, <1>2, <1>3

\* Membership of Tokens, spelt out.
LEMMA TokenFacts ==
  ASSUME NEW G, NEW inner, NEW wl, NEW lv, NEW open, NEW r
  PROVE  \A t : t \in Tokens(G, inner, wl, lv, open, r) <=>
           \/ t \in UsesIn(G, r) /\ t[1] \notin inner
           \/ \E i \in 1 .. Len(wl) : t = <<-1, i>> /\ wl[i] = r
           \/ \E i \in open : t = <<-2, i>> /\ lv[i] = r
  BY DEF Tokens

-----------------------------------------------------------------------------
\* The rewritings of a program.

\* A new addition.
WithAdd(G, s, x, y, b) ==
  [u \in DOMAIN G \cup {s} |-> IF u = s THEN [kind |-> "add", operands |-> <<x, y>>, block |-> b]
                               ELSE G[u]]

Added(G, H, s, x, y, b) ==
  /\ Graph(H) /\ DOMAIN H = DOMAIN G \cup {s}
  /\ \A u \in DOMAIN G : H[u] = G[u]
  /\ H[s].kind = "add" /\ H[s].block = b /\ Len(H[s].operands) = 2
  /\ H[s].operands[1] = x /\ H[s].operands[2] = y
  /\ \A v : \A u, k : <<u, k>> \in UsesIn(H, v) <=>
       \/ <<u, k>> \in UsesIn(G, v)
       \/ u = s /\ k = 1 /\ x = v
       \/ u = s /\ k = 2 /\ y = v

\* A new addition of existing values makes a program with its two uses more.
LEMMA WithAddFacts ==
  ASSUME NEW G, Graph(G), NEW s \in Nat \ DOMAIN G, NEW x \in DOMAIN G, NEW y \in DOMAIN G,
         NEW b \in 0 .. 2
  PROVE  Added(G, WithAdd(G, s, x, y, b), s, x, y, b)
<1> USE DEF Added
<1> DEFINE H == WithAdd(G, s, x, y, b)
<1> DEFINE new == [kind |-> "add", operands |-> <<x, y>>, block |-> b]
           V == DOMAIN G \cup {s}
<1>1. H = [u \in V |-> IF u = s THEN new ELSE G[u]]
  BY DEF WithAdd
<1>2. DOMAIN H = V /\ H[s] = new /\ \A u \in DOMAIN G : H[u] = G[u]
  <2> HIDE DEF new
  <2> QED BY <1>1
<1>3. /\ new.kind = "add" /\ new.block = b /\ new.operands = <<x, y>>
      /\ Len(<<x, y>>) = 2 /\ <<x, y>>[1] = x /\ <<x, y>>[2] = y
  OBVIOUS
<1>4. V \subseteq Nat /\ \E m \in Nat : \A v \in V : v <= m
  <2>1. PICK m \in Nat : \A v \in DOMAIN G : v <= m
    BY DEF Graph
  <2>2. m + s \in Nat /\ \A v \in V : v <= m + s
    BY <2>1 DEF Graph
  <2>3. V \subseteq Nat
    BY DEF Graph
  <2> QED BY <2>2, <2>3
<1> DEFINE R == [kind : {"arg", "op", "add"}, operands : Seq(V), block : 0 .. 2]
<1>5. \A u \in V : H[u] \in R
  <2>1. new \in R
    <3>1. <<x, y>> \in Seq(V)
      OBVIOUS
    <3> QED BY <3>1
  <2>2. \A u \in DOMAIN G : G[u] \in R
    <3> SUFFICES ASSUME NEW u \in DOMAIN G PROVE G[u] \in R
      OBVIOUS
    <3>1. G[u] \in [kind : {"arg", "op", "add"}, operands : Seq(DOMAIN G), block : 0 .. 2]
      BY DEF Graph
    <3>2. DOMAIN G \subseteq V
      OBVIOUS
    <3>3. \A q \in Seq(DOMAIN G) : q \in Seq(V)
      BY <3>2
    <3>4. PICK c, q, e : c \in {"arg", "op", "add"} /\ q \in Seq(DOMAIN G) /\ e \in 0 .. 2
                         /\ G[u] = [kind |-> c, operands |-> q, block |-> e]
      BY <3>1
    <3>5. q \in Seq(V)
      BY <3>3, <3>4
    <3> HIDE DEF V
    <3> QED BY <3>4, <3>5
  <2> HIDE DEF new, R
  <2> QED BY <1>2, <2>1, <2>2
<1>6. \A u \in V : Len(H[u].operands) = Degree(H[u].kind)
  <2>1. Degree("add") = 2
    BY DEF Degree, Arity
  <2> HIDE DEF new
  <2> QED BY <1>2, <1>3, <2>1 DEF Graph
<1>7. H \in [V -> R]
  <2> HIDE DEF R, new
  <2> QED BY <1>1, <1>2, <1>5
<1>8. Graph(H)
  <2>1. PICK W : W = DOMAIN H
    OBVIOUS
  <2>2. W = V
    BY <1>2, <2>1
  <2> QED BY <1>2, <1>4, <1>6, <1>7, <2>2 DEF Graph
<1>9. \A v : \A u, k : <<u, k>> \in UsesIn(H, v) <=>
              \/ <<u, k>> \in UsesIn(G, v)
              \/ u = s /\ k = 1 /\ x = v
              \/ u = s /\ k = 2 /\ y = v
  <2> SUFFICES ASSUME NEW v, NEW u, NEW k
               PROVE  <<u, k>> \in UsesIn(H, v) <=>
                        \/ <<u, k>> \in UsesIn(G, v)
                        \/ u = s /\ k = 1 /\ x = v
                        \/ u = s /\ k = 2 /\ y = v
    OBVIOUS
  <2>1. <<u, k>> \in UsesIn(H, v) <=> /\ u \in DOMAIN H /\ k \in {1, 2}
                                      /\ k <= Len(H[u].operands) /\ H[u].operands[k] = v
    BY UsesFacts
  <2>2. <<u, k>> \in UsesIn(G, v) <=> /\ u \in DOMAIN G /\ k \in {1, 2}
                                      /\ k <= Len(G[u].operands) /\ G[u].operands[k] = v
    BY UsesFacts
  <2> HIDE DEF new
  <2>3. CASE u = s
    <3>1. Len(H[u].operands) = 2 /\ H[u].operands[1] = x /\ H[u].operands[2] = y
      BY <1>2, <1>3, <2>3
    <3> QED BY <1>2, <2>1, <2>2, <2>3, <3>1
  <2>4. CASE u # s
    BY <1>2, <2>1, <2>2, <2>4
  <2> QED BY <2>3, <2>4
<1> HIDE DEF new
<1> QED BY <1>2, <1>3, <1>8, <1>9

\* An operation that is gone.
Erased(G, H, x) ==
  /\ Graph(H) /\ DOMAIN H = DOMAIN G \ {x}
  /\ \A u \in DOMAIN H : H[u] = G[u]
  /\ \A v : \A u, k : <<u, k>> \in UsesIn(H, v) <=> <<u, k>> \in UsesIn(G, v) /\ u # x

\* A value that only it uses can go.
LEMMA WithoutFacts ==
  ASSUME NEW G, Graph(G), NEW x, UsesIn(G, x) \subseteq {x} \X {1, 2}
  PROVE  Erased(G, Without(G, {x}), x)
<1> USE DEF Erased
<1> DEFINE H == Without(G, {x})
<1> DEFINE V == DOMAIN G \ {x}
<1>1. DOMAIN H = V /\ H = [u \in V |-> G[u]]
  BY DEF Without
<1>2. \A u \in V : H[u] = G[u] /\ u \in DOMAIN G
  BY <1>1
<1>3. V \subseteq Nat /\ \E m \in Nat : \A v \in V : v <= m
  BY DEF Graph
<1> DEFINE R == [kind : {"arg", "op", "add"}, operands : Seq(V), block : 0 .. 2]
<1>4. \A u \in V : H[u] \in R
  <2> SUFFICES ASSUME NEW u \in V PROVE G[u] \in R
    BY <1>2
  <2>1. G[u] \in [kind : {"arg", "op", "add"}, operands : Seq(DOMAIN G), block : 0 .. 2]
    BY DEF Graph
  <2>2. PICK c, q, e : c \in {"arg", "op", "add"} /\ q \in Seq(DOMAIN G) /\ e \in 0 .. 2
                       /\ G[u] = [kind |-> c, operands |-> q, block |-> e]
    BY <2>1
  <2>3. ASSUME NEW k \in 1 .. Len(q) PROVE q[k] \in V
    <3>1. q[k] \in DOMAIN G
      BY <2>2
    <3>2. q[k] # x
      <4>1. <<u, k>> \in UsesIn(G, q[k])
        BY <2>2, UsesOfGraph
      <4>2. u # x
        OBVIOUS
      <4>3. <<u, k>> \notin {x} \X {1, 2}
        BY <4>2
      <4> QED BY <4>1, <4>3
    <3> QED BY <3>1, <3>2
  <2>4. q \in Seq(V)
    BY <2>2, <2>3
  <2> HIDE DEF V
  <2> QED BY <2>2, <2>4
<1>5. H \in [V -> R]
  <2> HIDE DEF R
  <2> QED BY <1>1, <1>4
<1>6. \A u \in V : Len(H[u].operands) = Degree(H[u].kind)
  BY <1>2 DEF Graph
<1>7. Graph(H)
  <2>1. PICK W : W = DOMAIN H
    OBVIOUS
  <2>2. W = V
    BY <1>1, <2>1
  <2> QED BY <1>1, <1>3, <1>5, <1>6, <2>2 DEF Graph
<1>8. ASSUME NEW v, NEW u, NEW k
      PROVE  <<u, k>> \in UsesIn(H, v) <=> <<u, k>> \in UsesIn(G, v) /\ u # x
  <2>1. <<u, k>> \in UsesIn(H, v) <=> /\ u \in DOMAIN H /\ k \in {1, 2}
                                      /\ k <= Len(H[u].operands) /\ H[u].operands[k] = v
    BY UsesFacts
  <2>2. <<u, k>> \in UsesIn(G, v) <=> /\ u \in DOMAIN G /\ k \in {1, 2}
                                      /\ k <= Len(G[u].operands) /\ G[u].operands[k] = v
    BY UsesFacts
  <2> QED BY <1>1, <1>2, <2>1, <2>2
<1> QED BY <1>1, <1>2, <1>7, <1>8

\* A value put in the place of another, whose operation is gone.
ReplacedIn(G, old, new) ==
  [u \in DOMAIN G \ {old} |->
     [G[u] EXCEPT !.operands =
        [k \in DOMAIN G[u].operands |->
           IF G[u].operands[k] = old THEN new ELSE G[u].operands[k]]]]

Rewired(G, H, old, new) ==
  /\ Graph(H) /\ DOMAIN H = DOMAIN G \ {old}
  /\ \A u \in DOMAIN H :
       /\ H[u].kind = G[u].kind /\ H[u].block = G[u].block
       /\ Len(H[u].operands) = Len(G[u].operands)
       /\ \A k \in 1 .. Len(G[u].operands) :
            H[u].operands[k] = IF G[u].operands[k] = old THEN new ELSE G[u].operands[k]
  /\ \A v : \A u, k : <<u, k>> \in UsesIn(H, v) <=>
       /\ u # old /\ v # old
       /\ <<u, k>> \in UsesIn(G, v) \/ (v = new /\ <<u, k>> \in UsesIn(G, old))

\* What replaceAllUsesWith and the erasure of the operation do to the uses.
LEMMA ReplacedFacts ==
  ASSUME NEW G, Graph(G), NEW old, NEW new \in DOMAIN G \ {old}
  PROVE  Rewired(G, ReplacedIn(G, old, new), old, new)
<1> DEFINE H == ReplacedIn(G, old, new)
<1> DEFINE V == DOMAIN G \ {old}
           S(q) == [k \in DOMAIN q |-> IF q[k] = old THEN new ELSE q[k]]
<1>1. H = [u \in V |-> [G[u] EXCEPT !.operands = S(G[u].operands)]]
  BY DEF ReplacedIn
<1>2. DOMAIN H = V
  BY <1>1
<1> DEFINE R == [kind : {"arg", "op", "add"}, operands : Seq(V), block : 0 .. 2]
<1>3. ASSUME NEW u \in V
      PROVE  /\ H[u] \in R /\ H[u].kind = G[u].kind /\ H[u].block = G[u].block
             /\ Len(H[u].operands) = Len(G[u].operands)
             /\ \A k \in 1 .. Len(G[u].operands) :
                  H[u].operands[k] = IF G[u].operands[k] = old THEN new ELSE G[u].operands[k]
  <2>1. G[u] \in [kind : {"arg", "op", "add"}, operands : Seq(DOMAIN G), block : 0 .. 2]
    BY DEF Graph
  <2>2. PICK c, q, e : c \in {"arg", "op", "add"} /\ q \in Seq(DOMAIN G) /\ e \in 0 .. 2
                       /\ G[u] = [kind |-> c, operands |-> q, block |-> e]
    BY <2>1
  <2>3. PICK r : r = S(q)
    OBVIOUS
  <2>4. H[u] = [kind |-> c, operands |-> r, block |-> e]
    <3> HIDE DEF S
    <3>1. H[u] = [G[u] EXCEPT !.operands = S(G[u].operands)]
      BY <1>1
    <3>2. G[u].operands = q
      BY <2>2
    <3>3. H[u] = [G[u] EXCEPT !.operands = r]
      BY <2>3, <3>1, <3>2
    <3> QED BY ONLY <2>2, <3>3
  <2>5. r \in Seq(V) /\ Len(r) = Len(q) /\ \A k \in 1 .. Len(q) : r[k] = IF q[k] = old THEN new ELSE q[k]
    <3>1. DOMAIN q = 1 .. Len(q) /\ Len(q) \in Nat /\ \A k \in 1 .. Len(q) : q[k] \in DOMAIN G
      BY <2>2
    <3>2. r = [k \in 1 .. Len(q) |-> IF q[k] = old THEN new ELSE q[k]]
      BY <2>3, <3>1
    <3>3. \A k \in 1 .. Len(q) : r[k] \in V
      BY <3>1, <3>2
    <3> HIDE DEF V
    <3> QED BY <3>1, <3>2, <3>3
  <2>6. H[u] \in R
    <3> HIDE DEF V
    <3> QED BY <2>2, <2>4, <2>5
  <2> QED BY ONLY <2>2, <2>4, <2>5, <2>6
<1>4. V \subseteq Nat /\ \E m \in Nat : \A v \in V : v <= m
  BY DEF Graph
<1>5. H \in [V -> R]
  <2> HIDE DEF R
  <2>1. H = [u \in V |-> H[u]]
    BY <1>1
  <2> QED BY <1>3, <2>1
<1>6. \A u \in V : Len(H[u].operands) = Degree(H[u].kind)
  BY <1>3 DEF Graph
<1>7. Graph(H)
  <2>1. PICK W : W = DOMAIN H
    OBVIOUS
  <2>2. W = V
    BY <1>2, <2>1
  <2> QED BY <1>2, <1>4, <1>5, <1>6, <2>2 DEF Graph
<1>8. ASSUME NEW v, NEW u, NEW k
      PROVE  <<u, k>> \in UsesIn(H, v) <=>
              /\ u # old /\ v # old
              /\ <<u, k>> \in UsesIn(G, v) \/ (v = new /\ <<u, k>> \in UsesIn(G, old))
  <2>1. /\ <<u, k>> \in UsesIn(H, v)
           <=> u \in DOMAIN H /\ k \in 1 .. Len(H[u].operands) /\ H[u].operands[k] = v
        /\ <<u, k>> \in UsesIn(G, v)
           <=> u \in DOMAIN G /\ k \in 1 .. Len(G[u].operands) /\ G[u].operands[k] = v
        /\ <<u, k>> \in UsesIn(G, old)
           <=> u \in DOMAIN G /\ k \in 1 .. Len(G[u].operands) /\ G[u].operands[k] = old
    BY <1>7, UsesOfGraph
  <2>2. CASE u \in V
    BY <1>2, <1>3, <2>1, <2>2
  <2>3. CASE u \notin V
    BY <1>2, <2>1, <2>3
  <2> QED BY <2>2, <2>3
<1> HIDE DEF R, S
<1> QED BY <1>2, <1>3, <1>7, <1>8 DEF Rewired

-----------------------------------------------------------------------------
\* The root whose turn it is.

\* It is a root, and is listed before the others.
LEMMA RootFacts ==
  ASSUME Graph(original), roots \subseteq DOMAIN original, roots # {}
  PROVE  /\ Root \in roots
         /\ \A q \in roots : q # Root => ListedBefore(Root, q)
<1> DEFINE First(r) == r \in roots /\ \A q \in roots : q # r => ListedBefore(r, q)
<1>1. roots \in SUBSET Nat /\ \A r \in roots : original[r].block \in 0 .. 2
  BY DEF Graph
<1>2. ASSUME inOrder PROVE \E r : First(r)
  <2>1. PICK r \in roots : \A q \in roots : r <= q
    BY <1>1, LeastNatural
  <2> QED BY <1>1, <1>2, <2>1 DEF ListedBefore
<1>3. ASSUME ~ inOrder PROVE \E r : First(r)
  <2> DEFINE T == {2 - original[r].block : r \in roots}
  <2>1. T \in SUBSET Nat /\ T # {}
    BY <1>1
  <2>2. PICK t \in T : \A y \in T : t <= y
    <3> HIDE DEF T
    <3> QED BY <2>1, LeastNatural
  <2>3. PICK p \in roots : t = 2 - original[p].block
    BY <2>2
  <2>4. \A q \in roots : 2 - original[p].block <= 2 - original[q].block
    BY <2>2, <2>3
  <2>5. \A q \in roots : original[p].block >= original[q].block
    BY <1>1, <2>4
  <2> DEFINE S == {q \in roots : original[q].block = original[p].block}
  <2>6. S \in SUBSET Nat /\ S # {}
    BY <1>1
  <2>7. PICK r \in S : \A y \in S : r <= y
    <3> HIDE DEF S
    <3> QED BY <2>6, LeastNatural
  <2>8. ASSUME NEW q \in roots, q # r PROVE ListedBefore(r, q)
    <3>1. CASE q \in S
      BY <1>1, <2>7, <2>8, <3>1 DEF ListedBefore
    <3>2. CASE q \notin S
      <4>1. original[r].block = original[p].block /\ original[q].block # original[p].block
        BY <3>2
      <4>2. original[r].block > original[q].block
        BY <1>1, <2>5, <4>1
      <4> QED BY <1>3, <4>1, <4>2 DEF ListedBefore
    <3> QED BY <3>1, <3>2
  <2> QED BY <2>8
<1>4. \E r : First(r)
  BY <1>2, <1>3
<1>5. Root = CHOOSE r \in roots : \A q \in roots : q # r => ListedBefore(r, q)
  BY DEF Root
<1> QED BY <1>4, <1>5

\* It stays the same while the walk's order does.
LEMMA SameRoot ==
  ASSUME roots' = roots, inOrder' = inOrder, original' = original
  PROVE  Root' = Root
<1>1. \A u, v : ListedBefore(u, v)' <=> ListedBefore(u, v)
  BY DEF ListedBefore
<1> QED BY <1>1 DEF Root

-----------------------------------------------------------------------------
\* Stacks and lists.

\* The operands of an addition go onto the stack, the first one on top.
LEMMA ReversedPair ==
  ASSUME NEW s, NEW V, s \in Seq(V), Len(s) = 2
  PROVE  Reverse(s) = <<s[2], s[1]>>
<1>1. Reverse(s) = [i \in 1 .. Len(s) |-> s[(Len(s) - i) + 1]]
  BY DEF Reverse
<1>2. Reverse(s) = [i \in 1 .. 2 |-> s[3 - i]]
  BY <1>1
<1> QED BY <1>2

\* A stack of n members of V, its top and what is below it.
Stack(V, w, n, below, top) ==
  /\ n \in Nat \ {0} /\ n = Len(w) /\ top = w[n] /\ top \in V
  /\ below \in Seq(V) /\ Len(below) = n - 1
  /\ \A i \in 1 .. n - 1 : below[i] = w[i]

\* What the worklist is after pop_back.
LEMMA StackFacts ==
  ASSUME NEW V, NEW w \in Seq(V), w # <<>>
  PROVE  Stack(V, w, Len(w), Front(w), Last(w))
<1> DEFINE n == Len(w)
<1>1. n \in Nat \ {0} /\ Last(w) = w[n] /\ w[n] \in V
  BY DEF Last
<1>2. Front(w) = [i \in 1 .. n - 1 |-> w[i]]
  BY DEF Front
<1>3. \A i \in 1 .. n - 1 : w[i] \in V
  OBVIOUS
<1>4. n - 1 \in Nat
  BY <1>1
<1>5. Front(w) \in Seq(V) /\ Len(Front(w)) = n - 1
  <2>1. PICK g : g = [i \in 1 .. n - 1 |-> w[i]]
    OBVIOUS
  <2>2. g \in Seq(V) /\ Len(g) = n - 1
    BY <1>3, <1>4, <2>1
  <2> QED BY <1>2, <2>1, <2>2
<1> QED BY <1>1, <1>2, <1>5 DEF Stack

\* Two more at the end.
LEMMA PushTwo ==
  ASSUME NEW V, NEW w \in Seq(V), NEW x \in V, NEW y \in V, NEW n, n = Len(w)
  PROVE  /\ w \o <<x, y>> \in Seq(V) /\ Len(w \o <<x, y>>) = n + 2
         /\ \A i \in 1 .. n : (w \o <<x, y>>)[i] = w[i]
         /\ (w \o <<x, y>>)[n + 1] = x /\ (w \o <<x, y>>)[n + 2] = y
  OBVIOUS

\* One more at the end.
LEMMA AppendFacts ==
  ASSUME NEW V, NEW w \in Seq(V), NEW x \in V, NEW n, n = Len(w)
  PROVE  /\ Append(w, x) \in Seq(V) /\ Len(Append(w, x)) = n + 1 /\ n \in Nat
         /\ \A i \in 1 .. n : Append(w, x)[i] = w[i]
         /\ Append(w, x)[n + 1] = x
         /\ ToSet(Append(w, x)) = ToSet(w) \cup {x}
<1>1. /\ Append(w, x) \in Seq(V) /\ Len(Append(w, x)) = n + 1 /\ n \in Nat
      /\ \A i \in 1 .. n : Append(w, x)[i] = w[i]
      /\ Append(w, x)[n + 1] = x
  OBVIOUS
<1>2. DOMAIN w = 1 .. n /\ DOMAIN Append(w, x) = 1 .. n + 1
  OBVIOUS
<1>3. ToSet(Append(w, x)) = ToSet(w) \cup {x}
  <2>1. PICK z : z = Append(w, x)
    OBVIOUS
  <2>2. 1 .. n + 1 = 1 .. n \cup {n + 1}
    BY <1>1
  <2> QED BY ONLY <1>1, <1>2, <2>1, <2>2 DEF ToSet
<1> QED BY <1>1, <1>3

\* All but the first.
LEMMA TailFacts ==
  ASSUME NEW V, NEW w \in Seq(V), w # <<>>, NEW n, n = Len(w)
  PROVE  /\ n \in Nat \ {0} /\ Head(w) = w[1] /\ w[1] \in V
         /\ Tail(w) \in Seq(V) /\ Len(Tail(w)) = n - 1
         /\ \A i \in 1 .. n - 1 : Tail(w)[i] = w[i + 1]
  OBVIOUS

\* The members of a list.
LEMMA ToSetFacts ==
  ASSUME NEW V, NEW w \in Seq(V)
  PROVE  /\ DOMAIN w = 1 .. Len(w) /\ Len(w) \in Nat
         /\ \A x : x \in ToSet(w) <=> \E i \in 1 .. Len(w) : w[i] = x
         /\ \A i \in 1 .. Len(w) : w[i] \in V
         /\ ToSet(w) \subseteq V
  BY DEF ToSet

\* A list of members of V that are in W is a list of members of W.
LEMMA NarrowSeq ==
  ASSUME NEW V, NEW W, NEW w \in Seq(V), \A i \in 1 .. Len(w) : w[i] \in W
  PROVE  w \in Seq(W)
  OBVIOUS

-----------------------------------------------------------------------------
\* The queue.

\* The fields of a node.
LEMMA NodeFacts ==
  ASSUME NEW h, NEW n, NEW V, Nodes(h, n, V), NEW x \in h
  PROVE  /\ x.value \in V /\ x.rank \in Nat /\ x.seq \in 0 .. n - 1 /\ n \in Nat
         /\ x = Node(x.value, x.rank, x.seq)
  BY DEF Nodes, Node

\* The top is a node, and no node has a smaller rank.
LEMMA LeastFacts ==
  ASSUME NEW h, NEW n, NEW V, Nodes(h, n, V), h # {}
  PROVE  Least(h) \in h /\ \A x \in h : Least(h).rank <= x.rank
<1>1. \A x \in h : x.rank \in Nat /\ x.seq \in Nat
  <2> SUFFICES ASSUME NEW x \in h PROVE x.rank \in Nat /\ x.seq \in Nat
    OBVIOUS
  <2>1. x.rank \in Nat /\ x.seq \in 0 .. n - 1 /\ n \in Nat
    BY NodeFacts
  <2> QED BY <2>1
<1> DEFINE T == {x.rank : x \in h}
<1>2. PICK t \in T : \A y \in T : t <= y
  <2>1. T \in SUBSET Nat /\ T # {}
    BY <1>1
  <2> HIDE DEF T
  <2> QED BY <2>1, LeastNatural
<1>3. PICK p \in h : t = p.rank
  BY <1>2
<1>4. \A x \in h : p.rank <= x.rank
  BY <1>2, <1>3
<1> DEFINE S == {x.seq : x \in {y \in h : y.rank = p.rank}}
<1>5. PICK s \in S : \A y \in S : s <= y
  <2>1. S \in SUBSET Nat /\ S # {}
    BY <1>1
  <2> HIDE DEF S
  <2> QED BY <2>1, LeastNatural
<1>6. PICK a \in h : a.rank = p.rank /\ s = a.seq
  BY <1>5
<1>7. \A x \in h : x.rank = p.rank => a.seq <= x.seq
  BY <1>5, <1>6
<1> DEFINE First(z) == \A x \in h : z.rank < x.rank \/ (z.rank = x.rank /\ z.seq <= x.seq)
<1>8. First(a)
  BY <1>1, <1>4, <1>6, <1>7
<1>9. Least(h) = CHOOSE z \in h : First(z)
  BY DEF Least
<1>10. Least(h) \in h /\ First(Least(h))
  <2> HIDE DEF First
  <2> QED BY <1>6, <1>8, <1>9
<1> QED BY <1>1, <1>10

\* Less of the queue is a queue,
LEMMA NodesWithout ==
  ASSUME NEW h, NEW n, NEW V, Nodes(h, n, V), NEW a \in h
  PROVE  /\ Nodes(h \ {a}, n, V) /\ Cardinality(h) \in Nat
         /\ Cardinality(h \ {a}) = Cardinality(h) - 1
         /\ (Cardinality(h) = 1 => h = {a})
<1>1. IsFiniteSet(h)
  BY DEF Nodes
<1>2. IsFiniteSet(h \ {a}) /\ Cardinality(h \ {a}) = Cardinality(h) - 1 /\ Cardinality(h) \in Nat
  BY <1>1, FS_RemoveElement, FS_CardinalityType
<1>3. Cardinality(h) = 1 => h = {a}
  BY <1>1, FS_Singleton
<1> QED BY <1>2, <1>3 DEF Nodes

\* ... and so is a queue with a node of the next number.
LEMMA NodesWith ==
  ASSUME NEW h, NEW n, NEW V, Nodes(h, n, V), NEW W, V \subseteq W,
         NEW v \in W, NEW r \in Nat
  PROVE  /\ Nodes(h \cup {Node(v, r, n)}, n + 1, W)
         /\ Cardinality(h \cup {Node(v, r, n)}) = Cardinality(h) + 1
<1>1. IsFiniteSet(h) /\ n \in Nat
  BY DEF Nodes
<1>2. PICK c : c = Node(v, r, n)
  OBVIOUS
<1>3. c.value = v /\ c.rank = r /\ c.seq = n /\ c \in [value : W, rank : Nat, seq : 0 .. n]
  BY <1>1, <1>2 DEF Node
<1>4. \A x \in h : x.seq \in 0 .. n - 1
  BY DEF Nodes
<1>5. c \notin h
  BY <1>1, <1>3, <1>4
<1>6. IsFiniteSet(h \cup {c}) /\ Cardinality(h \cup {c}) = Cardinality(h) + 1
  BY <1>1, <1>5, FS_AddElement
<1>7. ASSUME NEW x \in h PROVE x \in [value : W, rank : Nat, seq : 0 .. n]
  <2>1. x \in [value : V, rank : Nat, seq : 0 .. n - 1]
    BY DEF Nodes
  <2>2. x.value \in W /\ x.seq \in 0 .. n
    BY <2>1, <1>1
  <2> QED BY <2>1, <2>2
<1>8. \A x, y \in h \cup {c} : x.seq = y.seq => x = y
  <2> SUFFICES ASSUME NEW x \in h \cup {c}, NEW y \in h \cup {c}, x.seq = y.seq PROVE x = y
    OBVIOUS
  <2>1. CASE x \in h /\ y \in h
    BY <2>1 DEF Nodes
  <2>2. CASE x = c /\ y \in h
    BY <2>2, <1>1, <1>3, <1>4
  <2>3. CASE x \in h /\ y = c
    BY <2>3, <1>1, <1>3, <1>4
  <2> QED BY <2>1, <2>2, <2>3
<1>9. (n + 1) - 1 = n /\ n + 1 \in Nat
  BY <1>1
<1>10. h \cup {c} \subseteq [value : W, rank : Nat, seq : 0 .. (n + 1) - 1]
  BY <1>3, <1>7, <1>9
<1> QED BY <1>2, <1>6, <1>8, <1>9, <1>10 DEF Nodes

\* The two of a combination.
LEMMA TwoLeast ==
  ASSUME NEW h, NEW n, NEW V, Nodes(h, n, V), Cardinality(h) > 1,
         NEW a, NEW b, a = Least(h), b = Least(h \ {a})
  PROVE  /\ a \in h /\ b \in h /\ a # b /\ a.seq # b.seq
         /\ a.rank <= b.rank /\ \A x \in h \ {a} : b.rank <= x.rank
         /\ Nodes(h \ {a, b}, n, V) /\ Cardinality(h \ {a, b}) = Cardinality(h) - 2
<1>1. IsFiniteSet(h) /\ h # {}
  BY FS_EmptySet DEF Nodes
<1>2. a \in h /\ \A x \in h : a.rank <= x.rank
  BY <1>1, LeastFacts
<1>3. Nodes(h \ {a}, n, V) /\ Cardinality(h \ {a}) = Cardinality(h) - 1 /\ Cardinality(h) \in Nat
  BY <1>2, NodesWithout
<1>4. h \ {a} # {}
  <2>1. Cardinality(h \ {a}) # 0
    BY <1>3
  <2>2. PICK z : z = h \ {a}
    OBVIOUS
  <2>3. z # {}
    <3>1. Cardinality({}) = 0
      BY Zenon, FS_EmptySet
    <3>2. Cardinality(z) # 0
      BY <2>1, <2>2
    <3> QED BY ONLY <3>1, <3>2
  <2> QED BY <2>2, <2>3
<1>5. b \in h \ {a} /\ \A x \in h \ {a} : b.rank <= x.rank
  BY <1>3, <1>4, LeastFacts
<1>6. /\ Nodes((h \ {a}) \ {b}, n, V)
      /\ Cardinality((h \ {a}) \ {b}) = Cardinality(h \ {a}) - 1
  BY <1>3, <1>5, NodesWithout
<1>7. (h \ {a}) \ {b} = h \ {a, b}
  OBVIOUS
<1>8. a.seq # b.seq
  BY <1>2, <1>5 DEF Nodes
<1>9. Nodes(h \ {a, b}, n, V) /\ Cardinality(h \ {a, b}) = Cardinality(h) - 2
  <2>1. PICK w : w = (h \ {a}) \ {b}
    OBVIOUS
  <2>2. w = h \ {a, b}
    BY <1>7, <2>1
  <2>3. Nodes(w, n, V) /\ Cardinality(w) = Cardinality(h) - 2
    BY <1>3, <1>6, <2>1
  <2> QED BY <2>2, <2>3, Zenon
<1> QED BY ONLY <1>2, <1>5, <1>8, <1>9

\* The one node that is left.
LEMMA OneLeast ==
  ASSUME NEW h, NEW n, NEW V, Nodes(h, n, V), Cardinality(h) = 1
  PROVE  Least(h) \in h /\ h = {Least(h)}
<1>1. IsFiniteSet(h) /\ h # {}
  BY FS_EmptySet DEF Nodes
<1>2. Least(h) \in h
  BY <1>1, LeastFacts
<1> QED BY <1>2, NodesWithout

\* The number of a new operation.
LEMMA FreshNumber ==
  ASSUME NEW G, Graph(G), DOMAIN G # {}
  PROVE  /\ Max(DOMAIN G) + 1 \in Nat \ DOMAIN G
         /\ \A v \in DOMAIN G : v < Max(DOMAIN G) + 1
<1>1. PICK m \in Nat : \A v \in DOMAIN G : v <= m
  BY DEF Graph
<1>2. DOMAIN G \in SUBSET Nat
  BY DEF Graph
<1>3. Max(DOMAIN G) \in DOMAIN G /\ \A v \in DOMAIN G : v <= Max(DOMAIN G)
  BY <1>1, <1>2, MaxFacts
<1> QED BY <1>2, <1>3

\* Adds under the three rewritings.
LEMMA AddsFinite ==
  ASSUME NEW G, Graph(G)
  PROVE  IsFiniteSet(Adds(G))
<1>1. PICK m \in Nat : \A v \in DOMAIN G : v <= m
  BY DEF Graph
<1>2. Adds(G) \in SUBSET Nat /\ \A v \in Adds(G) : v <= m
  BY <1>1 DEF Graph, Adds
<1> QED BY <1>2, FS_BoundedSetOfNaturals

-----------------------------------------------------------------------------
\* The structure is kept, action by action.

\* The programs are graphs in the order of their numbers.
LEMMA ProgramFacts ==
  ASSUME NEW f \in Functions, NEW P, P = Program(f.body, f.split)
  PROVE  /\ Graph(P) /\ P[Return].kind = "op"
         /\ \A a \in Arg : a \in DOMAIN P /\ P[a].kind = "arg"
         /\ \E n \in Nat \ {0} :
              /\ DOMAIN P = 0 .. n
              /\ \A u \in 0 .. n : \A k \in 1 .. Len(P[u].operands) :
                   P[u].operands[k] \in 1 .. (IF u = Return THEN n ELSE u - 1)
<1> DEFINE L == Len(f.body)
           n == NumArgs + L
<1>1. /\ f.body \in Seq([kind : {"add", "op"}, operands : Seq(Nat)])
      /\ \A i \in DOMAIN f.body :
           /\ Len(f.body[i].operands) = Arity(f.body[i].kind)
           /\ ToSet(f.body[i].operands) \subseteq 1 .. NumArgs + i - 1
      /\ f.split \in Nat
  BY BodyAssumption
<1>2. L \in Nat /\ DOMAIN f.body = 1 .. L /\ n \in Nat \ {0} /\ NumArgs \in Nat \ {0}
  BY <1>1, SizeAssumption
<1> HIDE DEF n
<1>3. DOMAIN P = 0 .. n
  BY DEF Program, n
<1>4. P[0] = [kind |-> "op", operands |-> <<n>>, block |-> 2]
  <2>1. 0 \in 0 .. n
    BY <1>2
  <2>2. DOMAIN P = 0 .. n /\ P = Program(f.body, f.split)
    BY <1>3
  <2> QED BY <2>1 DEF Program, n, Return, Arg
<1>5. \A v \in 1 .. NumArgs : P[v] = [kind |-> "arg", operands |-> <<>>, block |-> 0]
  <2>1. \A v \in 1 .. NumArgs : v \in 0 .. n /\ v # 0
    BY <1>2 DEF n
  <2> QED BY <1>2, <2>1 DEF Program, Return, Arg, n
<1>6. \A v \in NumArgs + 1 .. n :
        P[v] = [kind |-> f.body[v - NumArgs].kind, operands |-> f.body[v - NumArgs].operands,
                block |-> IF v - NumArgs <= f.split THEN 1 ELSE 2]
  <2>1. \A v \in NumArgs + 1 .. n : v \in 0 .. n /\ v # 0 /\ v \notin 1 .. NumArgs
    BY <1>2 DEF n
  <2> QED BY <1>2, <2>1 DEF Program, Return, Arg, n
<1>7. 0 .. n = {0} \cup 1 .. NumArgs \cup NumArgs + 1 .. n
  BY <1>2 DEF n
<1> DEFINE R == [kind : {"arg", "op", "add"}, operands : Seq(0 .. n), block : 0 .. 2]
           Good(v) == /\ P[v] \in R /\ Len(P[v].operands) = Degree(P[v].kind)
                      /\ \A k \in 1 .. Len(P[v].operands) :
                           P[v].operands[k] \in 1 .. (IF v = Return THEN n ELSE v - 1)
<1>8. Good(0)
  <2>1. PICK s : s = <<n>>
    OBVIOUS
  <2>2. Len(s) = 1 /\ s[1] = n /\ s \in Seq(0 .. n)
    BY <1>2, <2>1
  <2>3. P[0] = [kind |-> "op", operands |-> s, block |-> 2]
    BY <1>4, <2>1
  <2>4. \A k \in 1 .. Len(s) : s[k] \in 1 .. n
    <3>1. \A k \in 1 .. Len(s) : k = 1
      BY <2>2
    <3> QED BY <1>2, <2>2, <3>1
  <2>5. P[0] \in R
    BY <2>2, <2>3
  <2>6. Degree("op") = 1
    BY DEF Degree, Arity
  <2>7. P[0].kind = "op" /\ P[0].operands = s
    BY <2>3
  <2> HIDE DEF R
  <2> QED BY ONLY <2>2, <2>4, <2>5, <2>6, <2>7 DEF Return, Good
<1>9. ASSUME NEW v \in 1 .. NumArgs PROVE Good(v)
  <2>1. PICK s : s = <<>>
    OBVIOUS
  <2>2. Len(s) = 0 /\ s \in Seq(0 .. n)
    BY <2>1
  <2>3. P[v] = [kind |-> "arg", operands |-> s, block |-> 0]
    BY <1>5, <2>1
  <2>4. \A k \in 1 .. Len(s) : FALSE
    BY <2>2
  <2> QED BY <2>2, <2>3, <2>4 DEF Degree
<1>10. ASSUME NEW v \in NumArgs + 1 .. n PROVE Good(v)
  <2>1. PICK i : i = v - NumArgs
    OBVIOUS
  <2>2. i \in 1 .. L /\ NumArgs + i = v /\ v \in Nat /\ v # 0 /\ v - 1 \in Nat /\ v <= n
    BY <1>2, <2>1 DEF n
  <2>3. f.body[i] \in [kind : {"add", "op"}, operands : Seq(Nat)]
    <3>1. PICK bd, T : bd = f.body /\ T = [kind : {"add", "op"}, operands : Seq(Nat)]
      OBVIOUS
    <3>2. bd \in Seq(T) /\ i \in 1 .. Len(bd)
      BY <1>1, <2>2, <3>1
    <3> QED BY ONLY <3>1, <3>2, ToSetFacts
  <2>4. PICK c, s : c \in {"add", "op"} /\ s \in Seq(Nat)
                    /\ f.body[i] = [kind |-> c, operands |-> s]
    BY <2>3
  <2>5. Len(s) = Arity(c) /\ ToSet(s) \subseteq 1 .. v - 1
    <3>1. i \in DOMAIN f.body
      BY <1>2, <2>2
    <3>2. /\ Len(f.body[i].operands) = Arity(f.body[i].kind)
          /\ ToSet(f.body[i].operands) \subseteq 1 .. NumArgs + i - 1
      BY <1>1, <3>1
    <3>3. NumArgs + i - 1 = v - 1
      BY <1>2, <2>2
    <3>4. f.body[i].operands = s /\ f.body[i].kind = c
      BY <2>4
    <3> QED BY ONLY <3>2, <3>3, <3>4
  <2>6. \A k \in 1 .. Len(s) : s[k] \in 1 .. v - 1
    BY <2>4, <2>5, ToSetFacts
  <2>7. s \in Seq(0 .. n)
    <3>1. \A k \in 1 .. Len(s) : s[k] \in 0 .. n
      BY <1>2, <2>2, <2>6
    <3> QED BY ONLY <2>4, <3>1, NarrowSeq
  <2>8. PICK e \in {1, 2} : P[v] = [kind |-> c, operands |-> s, block |-> e]
    BY <1>6, <2>1, <2>4
  <2>9. P[v] \in R
    BY <2>4, <2>7, <2>8
  <2>10. Len(s) = Degree(c)
    BY <2>4, <2>5 DEF Degree
  <2> QED BY <2>2, <2>6, <2>8, <2>9, <2>10 DEF Return
<1>11. \A v \in 0 .. n : Good(v)
  <2> HIDE DEF Good
  <2> QED BY <1>7, <1>8, <1>9, <1>10
<1>12. Graph(P)
  <2>1. P = [v \in 0 .. n |-> P[v]]
    BY <1>3 DEF Program, n
  <2>2. P \in [0 .. n -> R]
    <3> HIDE DEF R
    <3> QED BY <1>11, <2>1
  <2>3. 0 .. n \subseteq Nat /\ \A v \in 0 .. n : v <= n
    OBVIOUS
  <2>4. PICK W : W = DOMAIN P
    OBVIOUS
  <2>5. W = 0 .. n
    BY <1>3, <2>4
  <2> QED BY <1>2, <1>3, <1>11, <2>2, <2>3, <2>5 DEF Graph
<1>13. \A a \in Arg : a \in DOMAIN P /\ P[a].kind = "arg"
  BY <1>2, <1>3, <1>5 DEF Arg, n
<1>14. P[Return].kind = "op"
  BY <1>4 DEF Return
<1> HIDE DEF R
<1> QED BY <1>2, <1>3, <1>11, <1>12, <1>13, <1>14

\* The structure holds of every function the pass is given.
LEMMA InitStructure == Init => Structure
<1> SUFFICES ASSUME Init PROVE Structure
  OBVIOUS
<1>1. PICK f \in Functions : ir = Program(f.body, f.split) /\ inOrder = f.inOrder
  BY DEF Init
<1>2. /\ original = ir /\ roots = {} /\ worklist = <<>> /\ leaves = <<>> /\ interior = <<>>
      /\ seq = 0 /\ heap = {} /\ pc = "walk"
  BY DEF Init
<1>3. OriginalOK
  BY <1>1, <1>2, ProgramFacts DEF OriginalOK
<1>4. StateOK
  BY <1>1, <1>2, BodyAssumption DEF StateOK
<1>5. ProgramOK
  BY <1>2, <1>3 DEF ProgramOK, OriginalOK, Live
<1>6. NumbersOK
  <2>1. PICK n \in Nat \ {0} : DOMAIN original = 0 .. n
    BY <1>3 DEF OriginalOK
  <2>2. n \in Live /\ \A u \in DOMAIN original : u <= n
    BY <1>2, <2>1 DEF Live
  <2> QED BY <1>2, <2>2 DEF NumbersOK
<1>7. RootsOK
  BY <1>2 DEF RootsOK, InChain
<1>8. InteriorOK /\ LeavesOK /\ GatherOK
  <2>1. <<>> \in Seq(Live)
    OBVIOUS
  <2> QED BY <1>2, <2>1 DEF InteriorOK, LeavesOK, GatherOK, InChain
<1>9. HeapOK
  <2>1. Nodes({}, 0, Live)
    BY FS_EmptySet DEF Nodes
  <2> QED BY <1>2, <2>1 DEF HeapOK
<1>10. CountOK
  <2>1. Cardinality(Adds(ir)) \in Nat
    BY <1>3, <1>2, AddsFinite, FS_CardinalityType DEF OriginalOK
  <2> QED BY <1>2, <2>1 DEF CountOK
<1> QED BY <1>3, <1>4, <1>5, <1>6, <1>7, <1>8, <1>9, <1>10 DEF Structure

\* The walk finds the roots: no root is the interior of another's tree.
LEMMA CollectRootsStructure == Structure /\ CollectRoots => Structure'
<1> SUFFICES ASSUME Structure, CollectRoots PROVE Structure'
  OBVIOUS
<1>1. /\ pc = "walk" /\ pc' = "next" /\ roots' = {v \in Live : IsRoot(v)}
      /\ inOrder' = inOrder /\ ir' = ir /\ worklist' = worklist /\ leaves' = leaves
      /\ interior' = interior /\ seq' = seq /\ heap' = heap /\ original' = original
  BY DEF CollectRoots, tree
<1>2. Live' = Live
  BY <1>1 DEF Live
<1>3. ir = original /\ Graph(ir)
  BY <1>1 DEF Structure, ProgramOK
<1>4. StateOK' /\ OriginalOK' /\ ProgramOK' /\ NumbersOK'
  BY <1>1, <1>2, <1>3 DEF Structure, StateOK, OriginalOK, ProgramOK, NumbersOK
<1>5. \A r \in roots' : /\ r \in Live /\ ir[r].kind = "add"
                        /\ Loose(ir, 0, ir[r].block, UsesIn(ir, r))
  BY <1>1, <1>3, RootIsLoose
<1>6. \A r \in roots' : r # Return
  BY <1>3, <1>5 DEF Structure, OriginalOK
<1>7. RootsOK'
  <2>1. (roots \subseteq DOMAIN original \ {Return} /\ \A r \in roots : original[r].kind = "add")'
    BY <1>1, <1>3, <1>5, <1>6 DEF Live
  <2>2. \A r \in roots' : r \in Live' /\ Loose(ir', 0, original'[r].block, UsesIn(ir', r))
    BY <1>1, <1>2, <1>3, <1>5
  <2> QED BY <1>1, <2>1, <2>2 DEF RootsOK, InChain
<1>8. InteriorOK' /\ LeavesOK' /\ GatherOK' /\ HeapOK'
  BY <1>1, <1>2 DEF Structure, InteriorOK, LeavesOK, GatherOK, HeapOK, InChain
<1>9. CountOK'
  BY <1>1 DEF Structure, CountOK
<1> QED BY <1>4, <1>7, <1>8, <1>9 DEF Structure

\* What is so before the next root is taken.
LEMMA ChainFacts ==
  ASSUME Structure, pc \in {"next", "gather", "rank", "erase"}, roots # {}
  PROVE  /\ Root \in roots /\ Graph(ir) /\ Graph(original) /\ roots \subseteq DOMAIN original \ {Return}
         /\ \A r \in roots : r \in DOMAIN original /\ original[r].kind = "add"
         /\ \A r \in roots : r \in Live => ir[r].kind = "add" /\ ir[r].block = original[r].block
         /\ original[Root].block \in 0 .. 2
<1>1. Graph(ir) /\ Graph(original) /\ roots \subseteq DOMAIN original \ {Return}
  BY DEF Structure, ProgramOK, OriginalOK, RootsOK
<1>2. Root \in roots
  BY <1>1, RootFacts
<1>3. \A r \in roots : r \in DOMAIN original /\ original[r].kind = "add"
  BY <1>1 DEF Structure, RootsOK
<1>4. \A r \in roots : r \in Live => ir[r].kind = "add" /\ ir[r].block = original[r].block
  BY <1>3 DEF Structure, ProgramOK
<1>5. original[Root].block \in 0 .. 2
  BY <1>1, <1>2, <1>3 DEF Graph
<1> QED BY <1>1, <1>2, <1>3, <1>4, <1>5

-----------------------------------------------------------------------------
\* How the tokens of a value move.

\* The uses by an addition become places on the worklist.
Visits(G, p, inner, n, wl, wl2, rb) ==
  /\ Graph(G) /\ p \in DOMAIN G /\ G[p].kind = "add" /\ rb = G[p].block
  /\ p \notin inner /\ n \in Nat /\ Len(wl) = n
  /\ Len(wl2) = n + 2 /\ (\A i \in 1 .. n : wl2[i] = wl[i])
  /\ wl2[n + 1] = G[p].operands[2] /\ wl2[n + 2] = G[p].operands[1]

\* When an addition joins the interior, its operands' uses become places on the
\* worklist.
LEMMA VisitMoves ==
  ASSUME NEW G, NEW p, NEW inner, NEW n, NEW wl, NEW wl2, NEW rb,
         Visits(G, p, inner, n, wl, wl2, rb), NEW lv, NEW open, NEW r, NEW b
  PROVE  \E m : Moves(G, G, rb, b, Tokens(G, inner, wl, lv, open, r),
                      Tokens(G, inner \cup {p}, wl2, lv, open, r), m)
<1> USE DEF Visits
<1> DEFINE T == Tokens(G, inner, wl, lv, open, r)
           S == Tokens(G, inner \cup {p}, wl2, lv, open, r)
           m == [t \in T |-> IF t[1] = p THEN <<-1, (n + 3) - t[2]>> ELSE t]
<1>1. p \in Nat /\ Len(G[p].operands) = 2
  BY OperandFacts DEF Graph, Degree, Arity
<1>2. \A t : t \in T <=> \/ t \in UsesIn(G, r) /\ t[1] \notin inner
                         \/ \E i \in 1 .. n : t = <<-1, i>> /\ wl[i] = r
                         \/ \E i \in open : t = <<-2, i>> /\ lv[i] = r
  BY TokenFacts
<1>3. \A t : t \in S <=> \/ t \in UsesIn(G, r) /\ t[1] \notin inner \cup {p}
                         \/ \E i \in 1 .. n + 2 : t = <<-1, i>> /\ wl2[i] = r
                         \/ \E i \in open : t = <<-2, i>> /\ lv[i] = r
  BY TokenFacts
<1>4. \A t \in UsesIn(G, r) : t = <<t[1], t[2]>> /\ t[1] \in Nat
  BY UsesOfGraph
<1>5. \A k : <<p, k>> \in UsesIn(G, r) <=> k \in {1, 2} /\ G[p].operands[k] = r
  <2>1. \A k : k \in 1 .. 2 <=> k \in {1, 2}
    OBVIOUS
  <2> QED BY <1>1, <2>1, UsesOfGraph
<1>6. \A t \in T : \/ t[1] = p /\ t = <<p, t[2]>> /\ t[2] \in {1, 2} /\ G[p].operands[t[2]] = r
                   \/ t[1] # p /\ t[1] \in Nat /\ t \in UsesIn(G, r) /\ t[1] \notin inner
                   \/ t[1] # p /\ \E i \in 1 .. n : t = <<-1, i>> /\ wl[i] = r
                   \/ t[1] # p /\ \E i \in open : t = <<-2, i>> /\ lv[i] = r
  <2> SUFFICES ASSUME NEW t \in T
               PROVE \/ t[1] = p /\ t = <<p, t[2]>> /\ t[2] \in {1, 2} /\ G[p].operands[t[2]] = r
                     \/ t[1] # p /\ t[1] \in Nat /\ t \in UsesIn(G, r) /\ t[1] \notin inner
                     \/ t[1] # p /\ \E i \in 1 .. n : t = <<-1, i>> /\ wl[i] = r
                     \/ t[1] # p /\ \E i \in open : t = <<-2, i>> /\ lv[i] = r
    OBVIOUS
  <2> HIDE DEF T
  <2>1. CASE t \in UsesIn(G, r) /\ t[1] \notin inner
    BY <1>4, <1>5, <2>1
  <2>2. CASE \E i \in 1 .. n : t = <<-1, i>> /\ wl[i] = r
    BY <1>1, <2>2
  <2>3. CASE \E i \in open : t = <<-2, i>> /\ lv[i] = r
    BY <1>1, <2>3
  <2> QED BY <1>2, <2>1, <2>2, <2>3
<1>7. \A t \in T : m[t] = IF t[1] = p THEN <<-1, (n + 3) - t[2]>> ELSE t
  OBVIOUS
<1>8. m \in [T -> S]
  <2> SUFFICES ASSUME NEW t \in T PROVE m[t] \in S
    OBVIOUS
  <2> HIDE DEF T, S, m
  <2>1. CASE t[1] = p
    <3>1. t[2] \in {1, 2} /\ G[p].operands[t[2]] = r
      BY <1>1, <1>6, <2>1
    <3>2. (n + 3) - t[2] \in 1 .. n + 2 /\ wl2[(n + 3) - t[2]] = r
      <4>1. CASE t[2] = 1
        BY <3>1, <4>1
      <4>2. CASE t[2] = 2
        BY <3>1, <4>2
      <4> QED BY <3>1, <4>1, <4>2
    <3> QED BY <1>3, <1>7, <2>1, <3>2
  <2>2. CASE t[1] # p
    <3>1. m[t] = t
      BY <1>7, <2>2
    <3>2. CASE \E i \in 1 .. n : t = <<-1, i>> /\ wl[i] = r
      BY <1>3, <3>1, <3>2
    <3> QED BY <1>3, <1>6, <2>2, <3>1, <3>2
  <2> QED BY <2>1, <2>2
<1>9. ASSUME NEW e \in T, NEW f \in T, m[e] = m[f] PROVE e = f
  <2> HIDE DEF T, S, m
  <2>1. CASE e[1] = p /\ f[1] = p
    <3>1. m[e] = <<-1, (n + 3) - e[2]>> /\ m[f] = <<-1, (n + 3) - f[2]>>
      BY <1>7, <2>1
    <3>2. (n + 3) - e[2] = (n + 3) - f[2]
      <4>1. PICK x, y : x = (n + 3) - e[2] /\ y = (n + 3) - f[2]
        OBVIOUS
      <4>2. <<-1, x>> = <<-1, y>>
        BY <1>9, <3>1, <4>1
      <4> QED BY <4>1, <4>2
    <3>3. e[2] \in {1, 2} /\ e = <<p, e[2]>> /\ f[2] \in {1, 2} /\ f = <<p, f[2]>>
      BY <1>6, <2>1
    <3>4. e[2] = f[2]
      BY <3>2, <3>3
    <3> QED BY <3>3, <3>4
  <2>2. ASSUME NEW x \in T, NEW y \in T, x[1] = p, y[1] # p PROVE m[x] # m[y]
    <3>1. m[y] = y /\ m[x] = <<-1, (n + 3) - x[2]>>
      BY <1>7, <2>2
    <3>2. x[2] \in {1, 2}
      BY <1>6, <2>2
    <3>3. (n + 3) - x[2] \in {n + 1, n + 2}
      BY <3>2
    <3>4. y[1] = -1 => y[2] \in 1 .. n
      BY <1>6, <2>2
    <3> QED BY <3>1, <3>3, <3>4
  <2>3. CASE e[1] # p /\ f[1] # p
    BY <1>7, <1>9, <2>3
  <2> QED BY <1>9, <2>1, <2>2, <2>3
<1>10. ASSUME NEW e \in S PROVE \E f \in T : m[f] = e
  <2> HIDE DEF T, S, m
  <2>1. CASE e \in UsesIn(G, r) /\ e[1] \notin inner \cup {p}
    BY <1>2, <1>7, <2>1
  <2>2. CASE \E i \in open : e = <<-2, i>> /\ lv[i] = r
    <3>1. e \in T /\ e[1] = -2
      BY <1>2, <2>2
    <3>2. e[1] # p
      BY <1>1, <3>1
    <3>3. m[e] = e
      BY <1>7, <3>1, <3>2
    <3> QED BY <3>1, <3>3
  <2>3. CASE \E i \in 1 .. n + 2 : e = <<-1, i>> /\ wl2[i] = r
    <3>1. PICK i \in 1 .. n + 2 : e = <<-1, i>> /\ wl2[i] = r
      BY <2>3
    <3>2. CASE i \in 1 .. n
      <4>1. e \in T /\ e[1] = -1
        BY <1>2, <3>1, <3>2
      <4>2. e[1] # p
        BY <1>1, <4>1
      <4>3. m[e] = e
        BY <1>7, <4>1, <4>2
      <4> QED BY <4>1, <4>3
    <3>3. ASSUME NEW k \in {1, 2}, i = (n + 3) - k PROVE \E f \in T : m[f] = e
      <4>1. G[p].operands[k] = r
        <5>1. CASE k = 1
          BY <3>1, <3>3, <5>1
        <5>2. CASE k = 2
          BY <3>1, <3>3, <5>2
        <5> QED BY <5>1, <5>2
      <4>2. PICK f : f = <<p, k>>
        OBVIOUS
      <4>3. f \in T /\ f[1] = p /\ f[2] = k
        BY <1>2, <1>5, <4>1, <4>2
      <4> QED BY <1>7, <3>1, <3>3, <4>3
    <3>4. i \in 1 .. n \/ i = (n + 3) - 1 \/ i = (n + 3) - 2
      BY <3>1
    <3> QED BY <3>2, <3>3, <3>4
  <2> QED BY <1>3, <2>1, <2>2, <2>3
<1>11. ASSUME NEW e \in T PROVE IsNear(G, rb, b, e) <=> IsNear(G, rb, b, m[e])
  <2> HIDE DEF T, S, m
  <2>1. CASE e[1] = p
    <3>1. m[e] = <<-1, (n + 3) - e[2]>>
      BY <1>7, <2>1
    <3>2. m[e][1] = -1
      BY <3>1
    <3> QED BY <1>1, <2>1, <3>2 DEF IsNear
  <2>2. CASE e[1] # p
    BY <1>7, <2>2
  <2> QED BY <2>1, <2>2
<1> HIDE DEF m
<1> QED BY <1>8, <1>9, <1>10, <1>11 DEF Moves

\* A place on the worklist becomes one among the leaves.
Leaves(G, n, wl, wl2, k, lv, lv2) ==
  /\ Graph(G) /\ n \in Nat /\ Len(wl) = n + 1
  /\ Len(wl2) = n /\ (\A i \in 1 .. n : wl2[i] = wl[i])
  /\ k \in Nat /\ (\A i \in 1 .. k : lv2[i] = lv[i]) /\ lv2[k + 1] = wl[n + 1]

\* When a leaf is found, its place on the worklist becomes one among the leaves.
LEMMA LeafMoves ==
  ASSUME NEW G, NEW n, NEW wl, NEW wl2, NEW k, NEW lv, NEW lv2, Leaves(G, n, wl, wl2, k, lv, lv2),
         NEW inner, NEW r, NEW b, NEW rb
  PROVE  \E m : Moves(G, G, rb, b, Tokens(G, inner, wl, lv, 1 .. k, r),
                      Tokens(G, inner, wl2, lv2, 1 .. k + 1, r), m)
<1> USE DEF Leaves
<1> DEFINE T == Tokens(G, inner, wl, lv, 1 .. k, r)
           S == Tokens(G, inner, wl2, lv2, 1 .. k + 1, r)
           m == [t \in T |-> IF t = <<-1, n + 1>> THEN <<-2, k + 1>> ELSE t]
<1>1. \A t : t \in T <=> \/ t \in UsesIn(G, r) /\ t[1] \notin inner
                         \/ \E i \in 1 .. n + 1 : t = <<-1, i>> /\ wl[i] = r
                         \/ \E i \in 1 .. k : t = <<-2, i>> /\ lv[i] = r
  BY TokenFacts
<1>2. \A t : t \in S <=> \/ t \in UsesIn(G, r) /\ t[1] \notin inner
                         \/ \E i \in 1 .. n : t = <<-1, i>> /\ wl2[i] = r
                         \/ \E i \in 1 .. k + 1 : t = <<-2, i>> /\ lv2[i] = r
  BY TokenFacts
<1>3. \A t \in UsesIn(G, r) : t[1] \in Nat
  BY UsesOfGraph
<1>4. \A t \in T : m[t] = IF t = <<-1, n + 1>> THEN <<-2, k + 1>> ELSE t
  OBVIOUS
<1>5. m \in [T -> S]
  <2> SUFFICES ASSUME NEW t \in T PROVE m[t] \in S
    OBVIOUS
  <2> HIDE DEF T, S, m
  <2>1. CASE t = <<-1, n + 1>>
    <3>1. wl[n + 1] = r
      BY <1>1, <1>3, <2>1
    <3> QED BY <1>2, <1>4, <2>1, <3>1
  <2>2. CASE t # <<-1, n + 1>>
    <3>1. m[t] = t
      BY <1>4, <2>2
    <3>2. CASE \E i \in 1 .. n + 1 : t = <<-1, i>> /\ wl[i] = r
      BY <1>2, <2>2, <3>1, <3>2
    <3>3. CASE \E i \in 1 .. k : t = <<-2, i>> /\ lv[i] = r
      BY <1>2, <3>1, <3>3
    <3> QED BY <1>1, <1>2, <3>1, <3>2, <3>3
  <2> QED BY <2>1, <2>2
<1>6. \A t \in T : t # <<-2, k + 1>>
  <2> HIDE DEF T
  <2> QED BY <1>1, <1>3
<1>7. ASSUME NEW e \in T, NEW f \in T, m[e] = m[f] PROVE e = f
  <2> HIDE DEF T, S, m
  <2> QED BY <1>4, <1>6, <1>7
<1>8. ASSUME NEW e \in S PROVE \E f \in T : m[f] = e
  <2> HIDE DEF T, S, m
  <2>1. CASE e \in UsesIn(G, r) /\ e[1] \notin inner
    BY <1>1, <1>3, <1>4, <2>1
  <2>2. CASE \E i \in 1 .. n : e = <<-1, i>> /\ wl2[i] = r
    <3>1. PICK i \in 1 .. n : e = <<-1, i>> /\ wl2[i] = r
      BY <2>2
    <3>2. i # n + 1 /\ i \in 1 .. n + 1 /\ wl[i] = r
      BY <3>1
    <3>3. e \in T /\ e # <<-1, n + 1>>
      BY <1>1, <3>1, <3>2
    <3>4. m[e] = e
      BY <1>4, <3>3
    <3> QED BY <3>3, <3>4
  <2>3. CASE \E i \in 1 .. k + 1 : e = <<-2, i>> /\ lv2[i] = r
    <3>1. PICK i \in 1 .. k + 1 : e = <<-2, i>> /\ lv2[i] = r
      BY <2>3
    <3>2. CASE i \in 1 .. k
      BY <1>1, <1>4, <3>1, <3>2
    <3>3. CASE i = k + 1
      <4>1. PICK f : f = <<-1, n + 1>>
        OBVIOUS
      <4>2. f \in T
        BY <1>1, <3>1, <3>3, <4>1
      <4> QED BY <1>4, <3>1, <3>3, <4>1, <4>2
    <3> QED BY <3>1, <3>2, <3>3
  <2> QED BY <1>2, <2>1, <2>2, <2>3
<1>9. ASSUME NEW e \in T PROVE IsNear(G, rb, b, e) <=> IsNear(G, rb, b, m[e])
  <2> HIDE DEF T, S, m
  <2>1. CASE e = <<-1, n + 1>>
    <3>1. m[e][1] = -2 /\ e[1] = -1
      BY <1>4, <2>1
    <3> QED BY <3>1 DEF IsNear
  <2>2. CASE e # <<-1, n + 1>>
    BY <1>4, <2>2
  <2> QED BY <2>1, <2>2
<1> HIDE DEF m
<1> QED BY <1>5, <1>7, <1>8, <1>9 DEF Moves

\* What stays the same while the program does.
LEMMA SameProgram ==
  ASSUME ir' = ir
  PROVE  /\ Live' = Live
         /\ \A v : HasOneUse(v)' <=> HasOneUse(v)
         /\ Root' = Root => \A v : IsInterior(v)' <=> IsInterior(v)
  BY DEF Live, HasOneUse, Uses, IsInterior, IsUniformAdd

\* Which block the tree is in matters for no token of the program.
LEMMA LooseUses ==
  ASSUME NEW G, Graph(G), NEW v, NEW b, NEW rb, NEW rc
  PROVE  Loose(G, rb, b, UsesIn(G, v)) => Loose(G, rc, b, UsesIn(G, v))
<1>1. \A e \in UsesIn(G, v) : IsNear(G, rb, b, e) <=> IsNear(G, rc, b, e)
  BY UsesOfGraph DEF IsNear
<1> QED BY <1>1 DEF Loose

\* The tokens before a tree is gathered.
LEMMA NoTokens ==
  ASSUME NEW G, NEW wl, Len(wl) = 0, NEW lv, NEW r
  PROVE  Tokens(G, {}, wl, lv, {}, r) = UsesIn(G, r)
<1>1. \A i \in 1 .. Len(wl) : FALSE
  OBVIOUS
<1> QED BY <1>1 DEF Tokens

\* The operands of an addition.
LEMMA AddOperands ==
  ASSUME NEW G, Graph(G), NEW p \in DOMAIN G, G[p].kind = "add", NEW s, s = G[p].operands
  PROVE  /\ Len(s) = 2 /\ s \in Seq(DOMAIN G) /\ s[1] \in DOMAIN G /\ s[2] \in DOMAIN G
         /\ Reverse(s) = <<s[2], s[1]>>
         /\ \A k : k \in {1, 2} => <<p, k>> \in UsesIn(G, s[k])
<1>1. Len(s) = 2 /\ s \in Seq(DOMAIN G)
  BY OperandFacts DEF Graph, Degree, Arity
<1>2. Reverse(s) = <<s[2], s[1]>>
  BY <1>1, ReversedPair
<1>3. s[1] \in DOMAIN G /\ s[2] \in DOMAIN G
  BY <1>1
<1>4. \A k : k \in {1, 2} => <<p, k>> \in UsesIn(G, s[k])
  BY <1>1, UsesFacts
<1> QED BY <1>1, <1>2, <1>3, <1>4

\* A root is popped, with its operands on the worklist.
LEMMA NextRootStructure == Structure /\ NextRoot => Structure'
<1> SUFFICES ASSUME Structure, NextRoot PROVE Structure'
  OBVIOUS
<1>1. /\ pc = "next" /\ pc' = "gather" /\ roots # {}
      /\ interior' = <<Root>> /\ worklist' = Reverse(ir[Root].operands)
      /\ leaves' = <<>> /\ seq' = 0 /\ heap' = {}
      /\ inOrder' = inOrder /\ ir' = ir /\ roots' = roots /\ original' = original
  BY DEF NextRoot
<1>2. /\ Root \in roots /\ Graph(ir) /\ Graph(original) /\ roots \subseteq DOMAIN original \ {Return}
      /\ \A r \in roots : r \in DOMAIN original /\ original[r].kind = "add"
      /\ \A r \in roots : r \in Live => ir[r].kind = "add" /\ ir[r].block = original[r].block
  BY <1>1, ChainFacts
<1>3. \A r \in roots : r \in Live /\ Loose(ir, 0, original[r].block, UsesIn(ir, r))
  BY <1>1 DEF Structure, RootsOK
<1>4. Live' = Live /\ Root' = Root
  BY <1>1, SameProgram, SameRoot
<1>5. PICK s : s = ir[Root].operands
  OBVIOUS
<1>6. /\ Len(s) = 2 /\ s[1] \in Live /\ s[2] \in Live /\ Reverse(s) = <<s[2], s[1]>>
      /\ \A k : k \in {1, 2} => <<Root, k>> \in UsesIn(ir, s[k])
  BY <1>2, <1>3, <1>5, AddOperands DEF Live
<1>7. PICK w : w = <<s[2], s[1]>>
  OBVIOUS
<1>8. worklist' = w /\ w \in Seq(Live) /\ Len(w) = 2 /\ w[1] = s[2] /\ w[2] = s[1]
  BY <1>1, <1>5, <1>6, <1>7
<1>9. PICK one : one = <<Root>>
  OBVIOUS
<1>10. interior' = one /\ one \in Seq(Live) /\ Len(one) = 1 /\ one[1] = Root /\ ToSet(one) = {Root}
  <2>1. one \in Seq(Live) /\ Len(one) = 1 /\ one[1] = Root
    BY <1>2, <1>3, <1>9
  <2>2. ToSet(one) = {Root}
    BY <2>1 DEF ToSet
  <2> QED BY <1>1, <1>9, <2>1, <2>2
<1>11. PICK none : none = <<>>
  OBVIOUS
<1>12. leaves' = none /\ none \in Seq(Live) /\ Len(none) = 0
  BY <1>1, <1>11
<1>13. Open' = {}
  <2>1. \A i \in 1 .. Len(none) : FALSE
    BY <1>12
  <2> QED BY <1>12, <2>1 DEF Open
<1>14. \A r : TokensOf(r)' = Tokens(ir, {Root}, w, none, {}, r)
  <2>1. ToSet(interior)' = {Root}
    BY <1>10
  <2> QED BY <1>1, <1>8, <1>12, <1>13, <2>1 DEF TokensOf
<1>15. PICK rb : rb = original[Root].block
  OBVIOUS
<1>16. ASSUME NEW r, NEW b
       PROVE  \E m : Moves(ir, ir, rb, b, UsesIn(ir, r), TokensOf(r)', m)
  <2>1. Root \in DOMAIN ir /\ ir[Root].kind = "add" /\ ir[Root].block = rb
    BY <1>2, <1>3, <1>15 DEF Live
  <2>2. PICK e : e = {}
    OBVIOUS
  <2>3. Tokens(ir, e, none, none, {}, r) = UsesIn(ir, r)
    BY <1>12, <2>2, NoTokens
  <2>4. e \cup {Root} = {Root} /\ Root \notin e
    BY <2>2
  <2>5. /\ 0 \in Nat /\ Len(none) = 0 /\ Len(w) = 0 + 2 /\ \A i \in 1 .. 0 : w[i] = none[i]
        /\ w[0 + 1] = ir[Root].operands[2] /\ w[0 + 2] = ir[Root].operands[1]
    BY <1>5, <1>8, <1>12
  <2>6. \E m : Moves(ir, ir, rb, b, Tokens(ir, e, none, none, {}, r),
                     Tokens(ir, e \cup {Root}, w, none, {}, r), m)
    <3>1. Visits(ir, Root, e, 0, none, w, rb)
      BY <1>2, <2>1, <2>4, <2>5 DEF Visits
    <3> QED BY ONLY <3>1, VisitMoves
  <2> QED BY <1>14, <2>3, <2>4, <2>6
<1>17. StateOK' /\ OriginalOK' /\ ProgramOK'
  BY <1>1, <1>4 DEF Structure, StateOK, OriginalOK, ProgramOK
<1>18. NumbersOK'
  BY <1>1, <1>4 DEF Structure, NumbersOK
<1>19. RootsOK'
  <2>1. (/\ roots \subseteq DOMAIN original \ {Return}
         /\ \A r \in roots : original[r].kind = "add")'
    BY <1>1, <1>2
  <2>2. \A r \in roots' : r \in Live' /\ Loose(ir', 0, original'[r].block, UsesIn(ir', r))
    BY <1>1, <1>3, <1>4
  <2>3. Root' \in Live'
    BY <1>2, <1>3, <1>4
  <2>4. ASSUME NEW r \in roots \ {Root}
        PROVE  Loose(ir', original'[Root'].block, original'[r].block, TokensOf(r)')
    <3>1. PICK b : b = original[r].block
      OBVIOUS
    <3>2. Loose(ir, rb, b, UsesIn(ir, r))
      BY <1>2, <1>3, <3>1, LooseUses
    <3>3. PICK m : Moves(ir, ir, rb, b, UsesIn(ir, r), TokensOf(r)', m)
      BY <1>16
    <3>4. Loose(ir, rb, b, TokensOf(r)')
      BY <3>2, <3>3, MovedLoose
    <3> QED BY <1>1, <1>4, <1>15, <3>1, <3>4
  <2>5. \A r \in roots' \ {Root'} : r \in Live' /\ r \notin ToSet(interior)'
    BY <1>1, <1>3, <1>4, <1>10
  <2>6. \A r \in roots' \ {Root'} : Loose(ir', original'[Root'].block, original'[r].block, TokensOf(r)')
    BY <1>1, <1>4, <2>4
  <2> QED BY <1>1, <2>1, <2>2, <2>3, <2>5, <2>6 DEF RootsOK, InChain
<1>20. InteriorOK'
  <2>1. (\A i, j \in 1 .. Len(interior) : interior[i] = interior[j] => i = j)'
    BY <1>10
  <2>2. \A j \in 1 .. Len(interior') : j = 1
    BY <1>10
  <2>3. ir'[Root].kind = "add"
    BY <1>1, <1>2, <1>3
  <2>4. (interior \in Seq(Live) /\ Len(interior) >= 1 /\ interior[1] = Root)'
    BY <1>4, <1>10
  <2>5. \A j \in 1 .. Len(interior') : ir'[interior'[j]].kind = "add" /\ ~ (j > 1)
    BY <1>10, <2>2, <2>3
  <2> QED BY <1>1, <2>1, <2>4, <2>5 DEF InteriorOK, InChain
<1>21. LeavesOK'
  <2>1. \A i \in 1 .. Len(none) : FALSE
    BY <1>12
  <2> QED BY <1>4, <1>12, <2>1 DEF LeavesOK
<1>22. GatherOK'
  <2>1. Len(worklist') + Len(leaves') = Len(interior') + 1
    BY <1>8, <1>10, <1>12
  <2>2. ASSUME NEW i \in 1 .. Len(w)
        PROVE  \E j \in 1 .. Len(one), k \in {1, 2} : <<one[j], k>> \in UsesIn(ir, w[i])
    <3>1. i \in 1 .. 2
      BY <1>8
    <3>2. <<one[1], 3 - i>> \in UsesIn(ir, w[i]) /\ 3 - i \in {1, 2}
      <4>1. CASE i = 1
        BY <1>6, <1>8, <1>10, <4>1
      <4>2. CASE i = 2
        BY <1>6, <1>8, <1>10, <4>2
      <4> QED BY <3>1, <4>1, <4>2
    <3> QED BY <1>10, <3>2
  <2>3. (\A j \in 2 .. Len(interior) : IsInterior(interior[j]))'
    BY <1>10
  <2>4. \A i \in 1 .. Len(none) : FALSE
    BY <1>12
  <2>5. ASSUME NEW v \in Live \ {Root}, HasOneUse(v)
        PROVE  v \notin ToSet(interior') /\ \A e, f \in TokensOf(v)' : e = f
    <3>1. v \notin ToSet(interior')
      BY <1>10, <2>5
    <3>2. \A e, f \in UsesIn(ir, v) : e = f
      BY <1>2, <2>5, OneUse
    <3>3. PICK m : Moves(ir, ir, rb, 0, UsesIn(ir, v), TokensOf(v)', m)
      BY <1>16
    <3>4. \A e, f \in TokensOf(v)' : e = f
      BY <3>2, <3>3, MovedLoose
    <3> QED BY <3>1, <3>4
  <2>6. \A v : HasOneUse(v)' <=> HasOneUse(v)
    BY <1>1, SameProgram
  <2>7. \A v \in Live' \ {Root'} : HasOneUse(v)' =>
           v \notin ToSet(interior)' /\ \A e, f \in TokensOf(v)' : e = f
    BY <1>4, <2>5, <2>6
  <2>8. (\A i \in 1 .. Len(leaves) : ~ IsInterior(leaves[i]))'
    BY <1>12, <2>4
  <2>9. (\A i \in 1 .. Len(worklist) :
            \E j \in 1 .. Len(interior), k \in {1, 2} : <<interior[j], k>> \in UsesIn(ir, worklist[i]))'
    BY <1>1, <1>8, <1>10, <2>2
  <2>10. (worklist \in Seq(Live))'
    BY <1>4, <1>8
  <2> QED BY <1>1, <2>1, <2>3, <2>7, <2>8, <2>9, <2>10 DEF GatherOK
<1>23. HeapOK'
  <2>1. Nodes({}, 0, Live)
    BY FS_EmptySet DEF Nodes
  <2> QED BY <1>1, <1>4, <2>1 DEF HeapOK
<1>24. CountOK'
  BY <1>1 DEF Structure, CountOK
<1> QED BY <1>17, <1>18, <1>19, <1>20, <1>21, <1>22, <1>23, <1>24 DEF Structure

\* What is so while a tree is gathered.
LEMMA GatherFacts ==
  ASSUME Structure, pc = "gather"
  PROVE  /\ Root \in roots /\ Root \in Live /\ Graph(ir)
         /\ worklist \in Seq(Live) /\ leaves \in Seq(Live) /\ interior \in Seq(Live)
         /\ Len(worklist) \in Nat /\ Len(leaves) \in Nat /\ Len(interior) \in Nat \ {0}
         /\ interior[1] = Root /\ seq = 0 /\ heap = {} /\ Open = 1 .. Len(leaves)
         /\ Len(worklist) + Len(leaves) = Len(interior) + 1
         /\ \A v : TokensOf(v) = Tokens(ir, ToSet(interior), worklist, leaves, 1 .. Len(leaves), v)
         /\ \A v : v \in ToSet(interior) <=> \E j \in 1 .. Len(interior) : interior[j] = v
         /\ \A r \in roots : r \in Live /\ ir[r].kind = "add" /\ ir[r].block = original[r].block
         /\ \A r \in roots : Loose(ir, 0, ir[r].block, UsesIn(ir, r))
<1>1. Root \in roots /\ Root \in Live /\ Graph(ir)
  BY ChainFacts DEF Structure, RootsOK, InChain
<1>2. /\ worklist \in Seq(Live) /\ leaves \in Seq(Live) /\ interior \in Seq(Live)
      /\ interior[1] = Root /\ seq = 0 /\ heap = {} /\ Len(interior) >= 1
      /\ Len(worklist) + Len(leaves) = Len(interior) + 1
  BY DEF Structure, GatherOK, LeavesOK, InteriorOK
<1>3. Len(worklist) \in Nat /\ Len(leaves) \in Nat /\ Len(interior) \in Nat \ {0}
  BY <1>2
<1>4. Open = 1 .. Len(leaves)
  <2>1. \A i \in 1 .. Len(leaves) : i > seq
    BY <1>2
  <2> QED BY <2>1 DEF Open
<1>5. \A v : TokensOf(v) = Tokens(ir, ToSet(interior), worklist, leaves, 1 .. Len(leaves), v)
  BY <1>4 DEF TokensOf
<1>6. \A v : v \in ToSet(interior) <=> \E j \in 1 .. Len(interior) : interior[j] = v
  BY <1>2, ToSetFacts
<1>7. \A r \in roots : r \in Live /\ Loose(ir, 0, original[r].block, UsesIn(ir, r))
  BY DEF Structure, RootsOK
<1>8. \A r \in roots : ir[r].kind = "add" /\ ir[r].block = original[r].block
  BY <1>1, <1>7, ChainFacts
<1> QED BY <1>1, <1>2, <1>3, <1>4, <1>5, <1>6, <1>7, <1>8

\* The interior is made of additions of the tree's block.
LEMMA InteriorFacts ==
  ASSUME Structure, pc = "gather", NEW j \in 1 .. Len(interior)
  PROVE  /\ interior[j] \in Live /\ ir[interior[j]].kind = "add"
         /\ ir[interior[j]].block = ir[Root].block
         /\ j # 1 => IsInterior(interior[j])
<1>1. interior[j] \in Live /\ interior[1] = Root
  BY GatherFacts
<1>2. ir[interior[j]].kind = "add"
  BY DEF Structure, InteriorOK, InChain
<1>3. j # 1 => IsInterior(interior[j])
  <2>1. j # 1 => j \in 2 .. Len(interior)
    BY GatherFacts
  <2> QED BY <2>1 DEF Structure, GatherOK
<1>4. ir[interior[j]].block = ir[Root].block
  <2>1. CASE j = 1
    BY <1>1, <2>1
  <2>2. CASE j # 1
    BY <1>3, <2>2 DEF IsInterior
  <2> QED BY <2>1, <2>2
<1> QED BY <1>1, <1>2, <1>3, <1>4

\* The addition on top of the stack that joins the interior is used there
\* only, and is no root.
LEMMA TopFacts ==
  ASSUME Structure, pc = "gather", worklist # <<>>, NEW v, v = Last(worklist)
  PROVE  /\ v \in Live /\ v = worklist[Len(worklist)] /\ Len(worklist) \in Nat \ {0}
         /\ <<-1, Len(worklist)>> \in TokensOf(v)
         /\ IsInterior(v) =>
              /\ v \notin roots /\ v \notin ToSet(interior) /\ v # Root
              /\ ir[v].kind = "add" /\ ir[v].block = ir[Root].block
              /\ \E j \in 1 .. Len(interior), k \in {1, 2} : UsesIn(ir, v) = {<<interior[j], k>>}
<1>1. v \in Live /\ v = worklist[Len(worklist)] /\ Len(worklist) \in Nat \ {0}
  <2>1. worklist \in Seq(Live)
    BY GatherFacts
  <2>2. PICK n : n = Len(worklist)
    OBVIOUS
  <2>3. n \in Nat \ {0} /\ Last(worklist) = worklist[n] /\ worklist[n] \in Live
    <3>1. Stack(Live, worklist, Len(worklist), Front(worklist), Last(worklist))
      BY <2>1, StackFacts
    <3> QED BY <2>2, <3>1 DEF Stack
  <2> QED BY <2>2, <2>3
<1>2. <<-1, Len(worklist)>> \in TokensOf(v)
  <2>1. Len(worklist) \in 1 .. Len(worklist)
    BY <1>1
  <2> QED BY <1>1, <2>1, GatherFacts, TokenFacts
<1>3. ASSUME IsInterior(v)
      PROVE  /\ v \notin roots /\ v \notin ToSet(interior) /\ v # Root
             /\ ir[v].kind = "add" /\ ir[v].block = ir[Root].block
             /\ \E j \in 1 .. Len(interior), k \in {1, 2} : UsesIn(ir, v) = {<<interior[j], k>>}
  <2>1. HasOneUse(v) /\ ir[v].kind = "add" /\ ir[v].block = ir[Root].block
    BY <1>3 DEF IsInterior, IsUniformAdd
  <2>2. PICK e : UsesIn(ir, v) = {e}
    BY <2>1, GatherFacts, OneUse
  <2>3. PICK j \in 1 .. Len(interior), k \in {1, 2} : <<interior[j], k>> \in UsesIn(ir, v)
    <3>1. Len(worklist) \in 1 .. Len(worklist)
      BY <1>1
    <3> QED BY <1>1, <3>1 DEF Structure, GatherOK
  <2>4. UsesIn(ir, v) = {<<interior[j], k>>}
    BY <2>2, <2>3
  <2>5. v \notin roots
    <3>1. ASSUME v \in roots PROVE FALSE
      <4>1. Loose(ir, 0, ir[v].block, UsesIn(ir, v))
        BY <3>1, GatherFacts
      <4>2. PICK t : t = <<interior[j], k>>
        OBVIOUS
      <4>3. t[1] = interior[j] /\ t[1] \in Nat /\ UsesIn(ir, v) = {t}
        <5>1. interior[j] \in Nat
          BY InteriorFacts, GatherFacts DEF Graph, Live
        <5> QED BY <2>4, <4>2, <5>1
      <4>4. ir[t[1]].kind = "add" /\ ir[t[1]].block = ir[v].block
        BY <2>1, <4>3, InteriorFacts
      <4>5. IsNear(ir, 0, ir[v].block, t)
        BY <4>3, <4>4 DEF IsNear
      <4> QED BY <4>1, <4>3, <4>5 DEF Loose
    <3> QED BY <3>1
  <2>6. v # Root
    BY <2>5, GatherFacts
  <2>7. v \notin ToSet(interior)
    BY <1>1, <1>2, <2>1, <2>6 DEF Structure, GatherOK
  <2> QED BY <2>1, <2>4, <2>5, <2>6, <2>7
<1> QED BY <1>1, <1>2, <1>3

\* The tokens of other values after it has joined.
LEMMA JoinMoves ==
  ASSUME Structure, pc = "gather", worklist # <<>>, NEW v, v = Last(worklist), IsInterior(v),
         NEW w, w = Front(worklist) \o Reverse(ir[v].operands),
         NEW r, r # v, NEW b, NEW rb, rb = ir[Root].block
  PROVE  \E m : Moves(ir, ir, rb, b, TokensOf(r),
                      Tokens(ir, ToSet(interior) \cup {v}, w, leaves, 1 .. Len(leaves), r), m)
<1>1. PICK p : p = Len(worklist) - 1
  OBVIOUS
<1>2. p \in Nat /\ worklist[p + 1] = v /\ Len(worklist) = p + 1
  BY <1>1, TopFacts
<1>3. PICK f : f = Front(worklist)
  OBVIOUS
<1>4. f \in Seq(Live) /\ Len(f) = p /\ \A i \in 1 .. p : f[i] = worklist[i]
  <2>1. worklist \in Seq(Live)
    BY GatherFacts
  <2>2. PICK n : n = Len(worklist)
    OBVIOUS
  <2>3. Front(worklist) \in Seq(Live) /\ Len(Front(worklist)) = n - 1
        /\ \A i \in 1 .. n - 1 : Front(worklist)[i] = worklist[i]
    <3>1. Stack(Live, worklist, Len(worklist), Front(worklist), Last(worklist))
      BY <2>1, StackFacts
    <3> QED BY <2>2, <3>1 DEF Stack
  <2> QED BY ONLY <1>1, <1>3, <2>2, <2>3
<1>5. PICK s : s = ir[v].operands
  OBVIOUS
<1>6. /\ Graph(ir) /\ v \in DOMAIN ir /\ ir[v].kind = "add" /\ ir[v].block = rb
      /\ v \notin ToSet(interior)
  BY GatherFacts, TopFacts DEF Live
<1>7. s[1] \in Live /\ s[2] \in Live /\ Reverse(s) = <<s[2], s[1]>>
  BY <1>5, <1>6, AddOperands DEF Live
<1>8. w = f \o <<s[2], s[1]>>
  BY <1>3, <1>5, <1>7
<1>9. Len(w) = p + 2 /\ (\A i \in 1 .. p : w[i] = f[i]) /\ w[p + 1] = s[2] /\ w[p + 2] = s[1]
  BY <1>4, <1>7, <1>8, PushTwo
<1>10. TokensOf(r) = Tokens(ir, ToSet(interior), f, leaves, 1 .. Len(leaves), r)
  <2>1. \A i : i \in 1 .. p + 1 /\ worklist[i] = r <=> i \in 1 .. p /\ f[i] = r
    BY <1>2, <1>4
  <2>2. {j \in 1 .. Len(worklist) : worklist[j] = r} = {j \in 1 .. Len(f) : f[j] = r}
    BY <1>2, <1>4, <2>1
  <2>3. TokensOf(r) = Tokens(ir, ToSet(interior), worklist, leaves, 1 .. Len(leaves), r)
    BY GatherFacts
  <2> QED BY <2>2, <2>3, Zenon DEF Tokens
<1>11. \E m : Moves(ir, ir, rb, b, Tokens(ir, ToSet(interior), f, leaves, 1 .. Len(leaves), r),
                   Tokens(ir, ToSet(interior) \cup {v}, w, leaves, 1 .. Len(leaves), r), m)
  <2>1. w[p + 1] = ir[v].operands[2] /\ w[p + 2] = ir[v].operands[1]
    BY <1>5, <1>9
  <2>2. PICK inn, op : inn = ToSet(interior) /\ op = 1 .. Len(leaves)
    OBVIOUS
  <2>3. v \notin inn
    BY <1>6, <2>2
  <2>4. \E m : Moves(ir, ir, rb, b, Tokens(ir, inn, f, leaves, op, r),
                     Tokens(ir, inn \cup {v}, w, leaves, op, r), m)
    <3>1. Visits(ir, v, inn, p, f, w, rb)
      BY ONLY <1>2, <1>4, <1>6, <1>9, <2>1, <2>3 DEF Visits
    <3> QED BY ONLY <3>1, VisitMoves
  <2> QED BY <2>2, <2>4
<1> QED BY <1>10, <1>11

\* ... and its own, of which none is left.
LEMMA JoinedTokens ==
  ASSUME Structure, pc = "gather", worklist # <<>>, NEW v, v = Last(worklist), IsInterior(v),
         NEW w, w = Front(worklist) \o Reverse(ir[v].operands)
  PROVE  Tokens(ir, ToSet(interior) \cup {v}, w, leaves, 1 .. Len(leaves), v) = {}
<1> DEFINE S == Tokens(ir, ToSet(interior) \cup {v}, w, leaves, 1 .. Len(leaves), v)
<1>1. PICK p : p = Len(worklist) - 1
  OBVIOUS
<1>2. p \in Nat /\ worklist[p + 1] = v /\ Len(worklist) = p + 1
  BY <1>1, TopFacts
<1>3. /\ Graph(ir) /\ v \in DOMAIN ir /\ v \in Live /\ ir[v].kind = "add" /\ v # Root
      /\ v \notin ToSet(interior) /\ HasOneUse(v)
  BY GatherFacts, TopFacts DEF Live, IsInterior
<1>4. PICK j \in 1 .. Len(interior), k \in {1, 2} : UsesIn(ir, v) = {<<interior[j], k>>}
  BY TopFacts
<1>5. interior[j] \in ToSet(interior)
  BY GatherFacts
<1>6. \A e, f \in TokensOf(v) : e = f
  BY <1>3 DEF Structure, GatherOK
<1>7. \A t : t \in TokensOf(v) <=>
           \/ t \in UsesIn(ir, v) /\ t[1] \notin ToSet(interior)
           \/ \E i \in 1 .. p + 1 : t = <<-1, i>> /\ worklist[i] = v
           \/ \E i \in 1 .. Len(leaves) : t = <<-2, i>> /\ leaves[i] = v
  <2>1. TokensOf(v) = Tokens(ir, ToSet(interior), worklist, leaves, 1 .. Len(leaves), v)
    BY GatherFacts
  <2>2. PICK inn, op : inn = ToSet(interior) /\ op = 1 .. Len(leaves)
    OBVIOUS
  <2>3. \A t : t \in Tokens(ir, inn, worklist, leaves, op, v) <=>
           \/ t \in UsesIn(ir, v) /\ t[1] \notin inn
           \/ \E i \in 1 .. Len(worklist) : t = <<-1, i>> /\ worklist[i] = v
           \/ \E i \in op : t = <<-2, i>> /\ leaves[i] = v
    BY TokenFacts
  <2> QED BY ONLY <1>2, <2>1, <2>2, <2>3
<1>8. \A t \in TokensOf(v) : t = <<-1, p + 1>>
  BY <1>2, <1>6, TopFacts
<1>9. \A i \in 1 .. Len(leaves) : leaves[i] # v
  <2>1. \A i \in 1 .. Len(leaves) : <<-2, i>> # <<-1, p + 1>>
    OBVIOUS
  <2> QED BY <1>7, <1>8, <2>1
<1>10. \A i \in 1 .. p : worklist[i] # v
  <2>1. \A i \in 1 .. p : i \in 1 .. p + 1 /\ <<-1, i>> # <<-1, p + 1>>
    BY <1>2
  <2> QED BY <1>7, <1>8, <2>1
<1>11. PICK s : s = ir[v].operands
  OBVIOUS
<1>12. /\ s[1] \in Live /\ s[2] \in Live /\ Reverse(s) = <<s[2], s[1]>>
       /\ \A i : i \in {1, 2} => <<v, i>> \in UsesIn(ir, s[i])
  BY <1>3, <1>11, AddOperands DEF Live
<1>13. s[1] # v /\ s[2] # v
  <2>1. ASSUME NEW i \in {1, 2}, s[i] = v PROVE FALSE
    <3>1. <<v, i>> \in UsesIn(ir, v)
      BY <1>12, <2>1
    <3>2. <<v, i>> = <<interior[j], k>>
      BY <1>4, <3>1
    <3>3. v = interior[j]
      BY <3>2
    <3> QED BY <1>3, <1>5, <3>3
  <2> QED BY <2>1
<1>14. PICK f : f = Front(worklist)
  OBVIOUS
<1>15. f \in Seq(Live) /\ Len(f) = p /\ \A i \in 1 .. p : f[i] = worklist[i]
  <2>1. worklist \in Seq(Live)
    BY GatherFacts
  <2>2. PICK n : n = Len(worklist)
    OBVIOUS
  <2>3. Front(worklist) \in Seq(Live) /\ Len(Front(worklist)) = n - 1
        /\ \A i \in 1 .. n - 1 : Front(worklist)[i] = worklist[i]
    <3>1. Stack(Live, worklist, Len(worklist), Front(worklist), Last(worklist))
      BY <2>1, StackFacts
    <3> QED BY <2>2, <3>1 DEF Stack
  <2> QED BY ONLY <1>1, <1>14, <2>2, <2>3
<1>16. w = f \o <<s[2], s[1]>>
  BY <1>11, <1>12, <1>14
<1>17. Len(w) = p + 2 /\ (\A i \in 1 .. p : w[i] = f[i]) /\ w[p + 1] = s[2] /\ w[p + 2] = s[1]
  BY <1>12, <1>15, <1>16, PushTwo
<1>18. \A i \in 1 .. Len(w) : w[i] # v
  <2> SUFFICES ASSUME NEW i \in 1 .. Len(w) PROVE w[i] # v
    OBVIOUS
  <2>1. i \in 1 .. p \/ i = p + 1 \/ i = p + 2
    BY <1>2, <1>17
  <2> QED BY <1>10, <1>13, <1>15, <1>17, <2>1
<1>19. \A t : t \in S <=>
           \/ t \in UsesIn(ir, v) /\ t[1] \notin ToSet(interior) \cup {v}
           \/ \E i \in 1 .. Len(w) : t = <<-1, i>> /\ w[i] = v
           \/ \E i \in 1 .. Len(leaves) : t = <<-2, i>> /\ leaves[i] = v
  BY ONLY TRUE DEF Tokens
<1>20. \A t \in UsesIn(ir, v) : t[1] \in ToSet(interior)
  <2>1. PICK t : t = <<interior[j], k>>
    OBVIOUS
  <2>2. t[1] = interior[j] /\ UsesIn(ir, v) = {t}
    BY <1>4, <2>1
  <2> QED BY <1>5, <2>2
<1> HIDE DEF S
<1>21. \A t : t \notin S
  BY <1>9, <1>18, <1>19, <1>20
<1>22. S = {}
  BY <1>21
<1> QED BY <1>22 DEF S

\* An addition of one use joins the interior.
LEMMA VisitInteriorStructure == Structure /\ VisitInterior => Structure'
<1> SUFFICES ASSUME Structure, VisitInterior PROVE Structure'
  OBVIOUS
<1>1. /\ pc = "gather" /\ pc' = "gather" /\ worklist # <<>>
      /\ leaves' = leaves /\ seq' = seq /\ heap' = heap
      /\ inOrder' = inOrder /\ ir' = ir /\ roots' = roots /\ original' = original
  BY DEF VisitInterior
<1>2. PICK v : v = Last(worklist)
  OBVIOUS
<1>3. /\ IsInterior(v) /\ interior' = Append(interior, v)
      /\ worklist' = Front(worklist) \o Reverse(ir[v].operands)
  BY <1>2 DEF VisitInterior
<1>4. Live' = Live /\ Root' = Root
  BY <1>1, SameProgram, SameRoot
<1>5. PICK p, n, k : p = Len(worklist) - 1 /\ n = Len(interior) /\ k = Len(leaves)
  OBVIOUS
<1>6. /\ p \in Nat /\ n \in Nat \ {0} /\ k \in Nat /\ Len(worklist) = p + 1 /\ p + 1 + k = n + 1
      /\ worklist \in Seq(Live) /\ leaves \in Seq(Live) /\ interior \in Seq(Live)
      /\ Graph(ir) /\ Root \in roots /\ Root \in Live /\ interior[1] = Root
      /\ seq = 0 /\ heap = {} /\ Open = 1 .. k
  <2>1. Len(worklist) \in Nat \ {0}
    BY <1>1, <1>2, TopFacts
  <2> QED BY <1>1, <1>5, <2>1, GatherFacts
<1>7. /\ v \in Live /\ v \notin roots /\ v \notin ToSet(interior) /\ v # Root
      /\ ir[v].kind = "add" /\ ir[v].block = ir[Root].block
  BY <1>1, <1>2, <1>3, TopFacts
<1>8. PICK i0 \in 1 .. n, k0 \in {1, 2} : UsesIn(ir, v) = {<<interior[i0], k0>>}
  BY <1>1, <1>2, <1>3, <1>5, TopFacts
<1>9. /\ interior' \in Seq(Live) /\ Len(interior') = n + 1
      /\ (\A i \in 1 .. n : interior'[i] = interior[i]) /\ interior'[n + 1] = v
      /\ ToSet(interior') = ToSet(interior) \cup {v}
  BY <1>3, <1>5, <1>6, <1>7, AppendFacts
<1>10. PICK s : s = ir[v].operands
  OBVIOUS
<1>11. /\ s[1] \in Live /\ s[2] \in Live /\ Reverse(s) = <<s[2], s[1]>>
       /\ \A i : i \in {1, 2} => <<v, i>> \in UsesIn(ir, s[i])
  BY <1>6, <1>7, <1>10, AddOperands DEF Live
<1>12. PICK w : w = Front(worklist) \o Reverse(ir[v].operands)
  OBVIOUS
<1>13. /\ w \in Seq(Live) /\ Len(w) = p + 2 /\ (\A i \in 1 .. p : w[i] = worklist[i])
       /\ w[p + 1] = s[2] /\ w[p + 2] = s[1] /\ worklist' = w
  <2>1. Stack(Live, worklist, Len(worklist), Front(worklist), Last(worklist))
    BY <1>1, <1>6, StackFacts
  <2>2. PICK f : f = Front(worklist)
    OBVIOUS
  <2>3. f \in Seq(Live) /\ Len(f) = p /\ \A i \in 1 .. p : f[i] = worklist[i]
    BY <1>5, <2>1, <2>2 DEF Stack
  <2>4. w = f \o <<s[2], s[1]>>
    BY <1>10, <1>11, <1>12, <2>2
  <2>5. /\ w \in Seq(Live) /\ Len(w) = p + 2 /\ (\A i \in 1 .. p : w[i] = f[i])
        /\ w[p + 1] = s[2] /\ w[p + 2] = s[1]
    BY <1>11, <2>3, <2>4, PushTwo
  <2> QED BY <1>3, <1>12, <2>3, <2>5
<1>14. Open' = 1 .. k /\ Open' = 1 .. Len(leaves)
  <2>1. \A i \in 1 .. Len(leaves) : i > seq
    BY <1>6
  <2> QED BY <1>1, <1>5, <2>1 DEF Open
<1>15. \A r : TokensOf(r)' = Tokens(ir, ToSet(interior) \cup {v}, w, leaves, 1 .. Len(leaves), r)
  BY <1>1, <1>9, <1>13, <1>14 DEF TokensOf
<1>16. PICK rb : rb = ir[Root].block
  OBVIOUS
<1>17. ASSUME NEW r, r # v, NEW b PROVE \E m : Moves(ir, ir, rb, b, TokensOf(r), TokensOf(r)', m)
  <2>1. \E m : Moves(ir, ir, rb, b, TokensOf(r),
                     Tokens(ir, ToSet(interior) \cup {v}, w, leaves, 1 .. Len(leaves), r), m)
    BY <1>1, <1>2, <1>3, <1>12, <1>16, <1>17, JoinMoves
  <2> QED BY <1>15, <2>1
<1>18. TokensOf(v)' = {}
  BY <1>1, <1>2, <1>3, <1>12, <1>15, JoinedTokens
<1>19. StateOK' /\ OriginalOK' /\ ProgramOK' /\ HeapOK' /\ CountOK'
  BY <1>1, <1>4 DEF Structure, StateOK, OriginalOK, ProgramOK, HeapOK, CountOK
<1>20. NumbersOK'
  BY <1>1, <1>4 DEF Structure, NumbersOK
<1>21. RootsOK'
  <2>1. ASSUME NEW r \in roots \ {Root}
        PROVE  /\ r \notin ToSet(interior')
               /\ Loose(ir', original'[Root'].block, original'[r].block, TokensOf(r)')
    <3>1. r \notin ToSet(interior) /\ r # v /\ Loose(ir, original[Root].block, original[r].block, TokensOf(r))
      BY <1>1, <1>7 DEF Structure, RootsOK, InChain
    <3>2. rb = original[Root].block
      BY <1>1, <1>6, <1>16, GatherFacts
    <3>3. PICK b : b = original[r].block
      OBVIOUS
    <3>4. PICK m : Moves(ir, ir, rb, b, TokensOf(r), TokensOf(r)', m)
      BY <1>17, <3>1
    <3>5. Loose(ir, rb, b, TokensOf(r)')
      BY <3>1, <3>2, <3>3, <3>4, MovedLoose
    <3> QED BY <1>1, <1>4, <1>9, <3>1, <3>2, <3>3, <3>5
  <2>2. \A r \in roots' \ {Root'} : /\ r \notin ToSet(interior)'
           /\ Loose(ir', original'[Root'].block, original'[r].block, TokensOf(r)')
    BY <1>1, <1>4, <2>1
  <2> QED BY <1>1, <1>4, <2>2 DEF Structure, RootsOK, InChain
<1>22. InteriorOK'
  <2>1. ASSUME NEW i \in 1 .. n + 1, NEW j \in 1 .. n + 1, interior'[i] = interior'[j]
        PROVE  i = j
    <3>1. \A x \in 1 .. n : interior[x] # v
      BY <1>1, <1>5, <1>7, GatherFacts
    <3>2. \A x, y \in 1 .. n : interior[x] = interior[y] => x = y
      BY <1>1, <1>5 DEF Structure, InteriorOK, InChain
    <3>3. (i \in 1 .. n \/ i = n + 1) /\ (j \in 1 .. n \/ j = n + 1)
      BY <1>6
    <3> QED BY <1>9, <2>1, <3>1, <3>2, <3>3
  <2>2. ASSUME NEW j \in 1 .. n + 1
        PROVE  /\ ir[interior'[j]].kind = "add"
               /\ j > 1 => \A use \in UsesIn(ir, interior'[j]) :
                             \E i \in 1 .. j - 1 : use[1] = interior'[i]
    <3>1. CASE j \in 1 .. n
      <4>1. \A i \in 1 .. j - 1 : i \in 1 .. n
        BY <1>6, <3>1
      <4>2. ir[interior[j]].kind = "add"
        BY <1>1, <1>5, <3>1, InteriorFacts
      <4>3. j > 1 => \A use \in UsesIn(ir, interior[j]) :
                       \E i \in 1 .. j - 1 : use[1] = interior[i]
        BY <1>1, <1>5, <3>1 DEF Structure, InteriorOK, InChain
      <4> QED BY <1>9, <3>1, <4>1, <4>2, <4>3
    <3>2. CASE j = n + 1
      <4>1. PICK t : t = <<interior[i0], k0>>
        OBVIOUS
      <4>2. UsesIn(ir, v) = {t} /\ t[1] = interior'[i0] /\ i0 \in 1 .. j - 1
        BY <1>6, <1>8, <1>9, <3>2, <4>1
      <4>3. interior'[j] = v
        BY <1>9, <3>2
      <4>4. \A use \in UsesIn(ir, v) : \E i \in 1 .. j - 1 : use[1] = interior'[i]
        BY <4>2
      <4> QED BY ONLY <1>7, <4>3, <4>4, Zenon
    <3>3. j \in 1 .. n \/ j = n + 1
      <4>1. n \in Nat
        BY <1>6
      <4> QED BY ONLY <4>1, j \in 1 .. n + 1
    <3> QED BY <3>1, <3>2, <3>3
  <2>3. interior'[1] = Root
    BY <1>6, <1>9
  <2>4. (interior \in Seq(Live) /\ Len(interior) >= 1 /\ interior[1] = Root)'
    BY <1>4, <1>6, <1>9, <2>3
  <2>5. (\A i, j \in 1 .. Len(interior) : interior[i] = interior[j] => i = j)'
    BY <1>9, <2>1
  <2>6. \A j \in 1 .. Len(interior') :
          /\ ir'[interior'[j]].kind = "add"
          /\ j > 1 => \A use \in UsesIn(ir', interior'[j]) :
                        \E i \in 1 .. j - 1 : use[1] = interior'[i]
    BY <1>1, <1>9, <2>2
  <2> QED BY <1>1, <2>4, <2>5, <2>6 DEF InteriorOK, InChain
<1>23. ASSUME NEW i \in 1 .. k PROVE leaves[i] \notin ToSet(interior') /\ ~ IsInterior(leaves[i])
  <2>1. leaves[i] \notin ToSet(interior) /\ ~ IsInterior(leaves[i])
    BY <1>1, <1>5 DEF Structure, LeavesOK, GatherOK, InChain
  <2> QED BY <1>3, <1>9, <2>1
<1>24. LeavesOK'
  <2>1. (leaves \in Seq(Live))'
    BY <1>1, <1>4, <1>6
  <2>2. \A i \in 1 .. Len(leaves') : leaves'[i] \notin ToSet(interior')
    BY <1>1, <1>5, <1>23
  <2> QED BY ONLY <2>1, <2>2 DEF LeavesOK
<1>25. GatherOK'
  <2>1. Len(worklist') + Len(leaves') = Len(interior') + 1
    <3>1. /\ Len(worklist') = p + 2 /\ Len(leaves') = k /\ Len(interior') = n + 1
          /\ p \in Nat /\ k \in Nat /\ n \in Nat /\ p + 1 + k = n + 1
      BY <1>1, <1>5, <1>6, <1>9, <1>13
    <3> QED BY ONLY <3>1
  <2>2. ASSUME NEW i \in 1 .. p + 2
        PROVE  \E j \in 1 .. n + 1, e \in {1, 2} : <<interior'[j], e>> \in UsesIn(ir, w[i])
    <3>1. CASE i \in 1 .. p
      <4>1. i \in 1 .. Len(worklist)
        BY <1>6, <3>1
      <4>2. PICK j \in 1 .. n, e \in {1, 2} : <<interior[j], e>> \in UsesIn(ir, worklist[i])
        BY <1>1, <1>5, <4>1 DEF Structure, GatherOK
      <4>3. j \in 1 .. n + 1
        BY <1>6
      <4> QED BY <1>9, <1>13, <3>1, <4>2, <4>3
    <3>2. CASE i = p + 1
      BY <1>6, <1>9, <1>11, <1>13, <3>2
    <3>3. CASE i = p + 2
      <4>1. <<v, 1>> \in UsesIn(ir, w[i])
        BY <1>11, <1>13, <3>3
      <4>2. n + 1 \in 1 .. n + 1 /\ interior'[n + 1] = v
        BY <1>6, <1>9
      <4>3. <<interior'[n + 1], 1>> \in UsesIn(ir, w[i])
        BY <4>1, <4>2
      <4> QED BY <4>2, <4>3
    <3>4. i \in 1 .. p \/ i = p + 1 \/ i = p + 2
      <4>1. p \in Nat
        BY <1>6
      <4> QED BY ONLY <4>1, i \in 1 .. p + 2
    <3> QED BY <3>1, <3>2, <3>3, <3>4
  <2>3. ASSUME NEW j \in 2 .. n + 1 PROVE IsInterior(interior'[j])
    <3>1. CASE j = n + 1
      BY <1>3, <1>9, <3>1
    <3>2. CASE j # n + 1
      <4>1. j \in 1 .. n /\ j # 1
        BY <1>6, <3>2
      <4> QED BY <1>1, <1>5, <1>9, <4>1, InteriorFacts
    <3> QED BY <3>1, <3>2
  <2>4. ASSUME NEW u \in Live \ {Root}, HasOneUse(u)
        PROVE  /\ u \in ToSet(interior') => TokensOf(u)' = {}
               /\ \A e, f \in TokensOf(u)' : e = f
    <3>1. CASE u = v
      BY <1>18, <3>1
    <3>2. CASE u # v
      <4>1. /\ u \in ToSet(interior) => TokensOf(u) = {}
            /\ \A e, f \in TokensOf(u) : e = f
        BY <1>1, <2>4 DEF Structure, GatherOK
      <4>2. PICK m : Moves(ir, ir, rb, 0, TokensOf(u), TokensOf(u)', m)
        BY <1>17, <3>2
      <4>3. /\ TokensOf(u) = {} => TokensOf(u)' = {}
            /\ \A e, f \in TokensOf(u)' : e = f
        BY <4>1, <4>2, MovedLoose
      <4> QED BY <1>9, <3>2, <4>1, <4>3
    <3> QED BY <3>1, <3>2
  <2>5. \A u : (HasOneUse(u)' <=> HasOneUse(u)) /\ (IsInterior(u)' <=> IsInterior(u))
    BY <1>1, <1>4, SameProgram
  <2>6. \A u \in Live' \ {Root'} : HasOneUse(u)' =>
          /\ u \in ToSet(interior)' => TokensOf(u)' = {}
          /\ \A e, f \in TokensOf(u)' : e = f
    BY <1>4, <2>4, <2>5
  <2>7. (\A j \in 2 .. Len(interior) : IsInterior(interior[j]))'
    BY <1>9, <2>3, <2>5
  <2>8. (\A i \in 1 .. Len(leaves) : ~ IsInterior(leaves[i]))'
    BY <1>1, <1>5, <1>23, <2>5
  <2>9. (\A i \in 1 .. Len(worklist) :
            \E j \in 1 .. Len(interior), e \in {1, 2} : <<interior[j], e>> \in UsesIn(ir, worklist[i]))'
    BY <1>1, <1>9, <1>13, <2>2
  <2>10. (worklist \in Seq(Live))'
    BY <1>4, <1>13
  <2>11. seq' = 0 /\ heap' = {}
    BY <1>1, <1>6
  <2> QED BY <1>1, <2>1, <2>6, <2>7, <2>8, <2>9, <2>10, <2>11 DEF GatherOK
<1> QED BY <1>19, <1>20, <1>21, <1>22, <1>24, <1>25 DEF Structure

\* A leaf is kept.  That the root is no leaf of its own tree is for the depths
\* to show.
LEMMA VisitLeafStructure ==
  Structure /\ VisitLeaf /\ Last(worklist) # Root => Structure'
<1> SUFFICES ASSUME Structure, VisitLeaf, Last(worklist) # Root PROVE Structure'
  OBVIOUS
<1>1. /\ pc = "gather" /\ pc' = "gather" /\ worklist # <<>>
      /\ interior' = interior /\ seq' = seq /\ heap' = heap
      /\ inOrder' = inOrder /\ ir' = ir /\ roots' = roots /\ original' = original
  BY DEF VisitLeaf
<1>2. PICK v : v = Last(worklist)
  OBVIOUS
<1>3. ~ IsInterior(v) /\ leaves' = Append(leaves, v) /\ worklist' = Front(worklist) /\ v # Root
  BY <1>2 DEF VisitLeaf
<1>4. Live' = Live /\ Root' = Root
  BY <1>1, SameProgram, SameRoot
<1>5. PICK p, n, k : p = Len(worklist) - 1 /\ n = Len(interior) /\ k = Len(leaves)
  OBVIOUS
<1>6. /\ p \in Nat /\ n \in Nat \ {0} /\ k \in Nat /\ Len(worklist) = p + 1 /\ p + 1 + k = n + 1
      /\ worklist \in Seq(Live) /\ leaves \in Seq(Live) /\ interior \in Seq(Live)
      /\ Graph(ir) /\ Root \in roots /\ Root \in Live /\ interior[1] = Root
      /\ seq = 0 /\ heap = {} /\ Open = 1 .. k
  <2>1. Len(worklist) \in Nat \ {0}
    BY <1>1, <1>2, TopFacts
  <2> QED BY <1>1, <1>5, <2>1, GatherFacts
<1>7. v \in Live /\ worklist[p + 1] = v
  BY <1>1, <1>2, <1>6, TopFacts
<1>8. /\ leaves' \in Seq(Live) /\ Len(leaves') = k + 1
      /\ (\A i \in 1 .. k : leaves'[i] = leaves[i]) /\ leaves'[k + 1] = v
  BY <1>3, <1>5, <1>6, <1>7, AppendFacts
<1>9. worklist' \in Seq(Live) /\ Len(worklist') = p /\ \A i \in 1 .. p : worklist'[i] = worklist[i]
  <2>1. Stack(Live, worklist, Len(worklist), Front(worklist), Last(worklist))
    BY <1>1, <1>6, StackFacts
  <2> QED BY <1>3, <1>5, <2>1 DEF Stack
<1>10. Open' = 1 .. k + 1
  <2>1. \A i \in 1 .. k + 1 : i > seq
    BY <1>6
  <2> QED BY <1>1, <1>8, <2>1 DEF Open
<1>11. PICK rb : rb = ir[Root].block
  OBVIOUS
<1>12. ASSUME NEW r, NEW b PROVE \E m : Moves(ir, ir, rb, b, TokensOf(r), TokensOf(r)', m)
  <2>1. TokensOf(r) = Tokens(ir, ToSet(interior), worklist, leaves, 1 .. k, r)
    BY <1>6 DEF TokensOf
  <2>2. TokensOf(r)' = Tokens(ir, ToSet(interior), worklist', leaves', 1 .. k + 1, r)
    BY <1>1, <1>10 DEF TokensOf
  <2>3. PICK wl, lv : wl = worklist' /\ lv = leaves'
    OBVIOUS
  <2>4. Leaves(ir, p, worklist, wl, k, leaves, lv)
    BY <1>6, <1>7, <1>8, <1>9, <2>3 DEF Leaves
  <2>5. \E m : Moves(ir, ir, rb, b, Tokens(ir, ToSet(interior), worklist, leaves, 1 .. k, r),
                     Tokens(ir, ToSet(interior), wl, lv, 1 .. k + 1, r), m)
    BY ONLY <2>4, LeafMoves
  <2> QED BY <2>1, <2>2, <2>3, <2>5
<1>13. StateOK' /\ OriginalOK' /\ ProgramOK' /\ HeapOK' /\ CountOK'
  <2>1. HeapOK'
    BY <1>1, <1>4, <1>6 DEF Structure, HeapOK
  <2> QED BY <1>1, <1>4, <2>1 DEF Structure, StateOK, OriginalOK, ProgramOK, CountOK
<1>14. NumbersOK' /\ InteriorOK'
  BY <1>1, <1>4 DEF Structure, NumbersOK, InteriorOK, InChain
<1>15. RootsOK'
  <2>1. ASSUME NEW r \in roots \ {Root}
        PROVE  Loose(ir', original'[Root'].block, original'[r].block, TokensOf(r)')
    <3>1. Loose(ir, original[Root].block, original[r].block, TokensOf(r))
      BY <1>1 DEF Structure, RootsOK, InChain
    <3>2. rb = original[Root].block
      BY <1>1, <1>6, <1>11, GatherFacts
    <3>3. PICK b : b = original[r].block
      OBVIOUS
    <3>4. PICK m : Moves(ir, ir, rb, b, TokensOf(r), TokensOf(r)', m)
      BY <1>12
    <3>5. Loose(ir, rb, b, TokensOf(r)')
      BY <3>1, <3>2, <3>3, <3>4, MovedLoose
    <3> QED BY <1>1, <1>4, <3>2, <3>3, <3>5
  <2>2. \A r \in roots' \ {Root'} :
           Loose(ir', original'[Root'].block, original'[r].block, TokensOf(r)')
    BY <1>1, <1>4, <2>1
  <2> QED BY <1>1, <1>4, <2>2 DEF Structure, RootsOK, InChain
<1>16. v \notin ToSet(interior)
  <2>1. ASSUME NEW j \in 1 .. n PROVE interior[j] # v
    <3>1. j # 1 => IsInterior(interior[j])
      BY <1>1, <1>5, InteriorFacts
    <3> QED BY <1>3, <1>6, <3>1
  <2> QED BY <1>1, <1>5, <2>1, GatherFacts
<1>17. ASSUME NEW i \in 1 .. k + 1
       PROVE  leaves'[i] \notin ToSet(interior) /\ ~ IsInterior(leaves'[i])
  <2>1. CASE i = k + 1
    BY <1>3, <1>8, <1>16, <2>1
  <2>2. CASE i # k + 1
    <3>1. i \in 1 .. k
      BY <1>6, <2>2
    <3>2. leaves[i] \notin ToSet(interior) /\ ~ IsInterior(leaves[i])
      BY <1>1, <1>5, <3>1 DEF Structure, LeavesOK, GatherOK, InChain
    <3> QED BY <1>8, <3>1, <3>2
  <2> QED BY <2>1, <2>2
<1>18. LeavesOK'
  BY <1>1, <1>4, <1>8, <1>17 DEF LeavesOK
<1>19. GatherOK'
  <2>1. Len(worklist') + Len(leaves') = Len(interior') + 1
    BY <1>1, <1>5, <1>6, <1>8, <1>9
  <2>2. ASSUME NEW i \in 1 .. p
        PROVE  \E j \in 1 .. n, e \in {1, 2} : <<interior[j], e>> \in UsesIn(ir, worklist'[i])
    <3>1. i \in 1 .. Len(worklist)
      BY <1>6
    <3> QED BY <1>1, <1>5, <1>9, <3>1 DEF Structure, GatherOK
  <2>3. ASSUME NEW u \in Live \ {Root}, HasOneUse(u)
        PROVE  /\ u \in ToSet(interior') => TokensOf(u)' = {}
               /\ \A e, f \in TokensOf(u)' : e = f
    <3>1. /\ u \in ToSet(interior) => TokensOf(u) = {}
          /\ \A e, f \in TokensOf(u) : e = f
      BY <1>1, <2>3 DEF Structure, GatherOK
    <3>2. PICK m : Moves(ir, ir, rb, 0, TokensOf(u), TokensOf(u)', m)
      BY <1>12
    <3>3. /\ TokensOf(u) = {} => TokensOf(u)' = {}
          /\ \A e, f \in TokensOf(u)' : e = f
      BY <3>1, <3>2, MovedLoose
    <3> QED BY <1>1, <3>1, <3>3
  <2>4. \A u : (HasOneUse(u)' <=> HasOneUse(u)) /\ (IsInterior(u)' <=> IsInterior(u))
    BY <1>1, <1>4, SameProgram
  <2>5. \A u \in Live' \ {Root'} : HasOneUse(u)' =>
          /\ u \in ToSet(interior)' => TokensOf(u)' = {}
          /\ \A e, f \in TokensOf(u)' : e = f
    BY <1>4, <2>3, <2>4
  <2>6. (\A j \in 2 .. Len(interior) : IsInterior(interior[j]))'
    BY <1>1, <2>4 DEF Structure, GatherOK
  <2>7. (\A i \in 1 .. Len(leaves) : ~ IsInterior(leaves[i]))'
    BY <1>8, <1>17, <2>4
  <2>8. (\A i \in 1 .. Len(worklist) :
            \E j \in 1 .. Len(interior), e \in {1, 2} : <<interior[j], e>> \in UsesIn(ir, worklist[i]))'
    BY <1>1, <1>5, <1>9, <2>2
  <2>9. (worklist \in Seq(Live))' /\ seq' = 0 /\ heap' = {}
    BY <1>1, <1>4, <1>6, <1>9
  <2> QED BY <1>1, <2>1, <2>5, <2>6, <2>7, <2>8, <2>9 DEF GatherOK
<1> QED BY <1>13, <1>14, <1>15, <1>18, <1>19 DEF Structure

\* A tree of two leaves is left as it is.
LEMMA TooSmallStructure == Structure /\ TooSmall => Structure'
<1> SUFFICES ASSUME Structure, TooSmall PROVE Structure'
  OBVIOUS
<1>1. /\ pc = "gather" /\ pc' = "next" /\ worklist = <<>> /\ roots' = roots \ {Root}
      /\ worklist' = worklist /\ leaves' = leaves /\ interior' = interior
      /\ seq' = seq /\ heap' = heap
      /\ inOrder' = inOrder /\ ir' = ir /\ original' = original
  BY DEF TooSmall, tree
<1>2. Live' = Live
  BY <1>1, SameProgram
<1>3. StateOK' /\ OriginalOK' /\ ProgramOK' /\ NumbersOK' /\ HeapOK' /\ CountOK'
  <2>1. HeapOK'
    BY <1>1, <1>2 DEF Structure, HeapOK
  <2> QED BY <1>1, <1>2, <2>1 DEF Structure, StateOK, OriginalOK, ProgramOK, NumbersOK, CountOK
<1>4. RootsOK'
  BY <1>1, <1>2 DEF Structure, RootsOK, InChain
<1>5. InteriorOK' /\ LeavesOK' /\ GatherOK'
  BY <1>1, <1>2 DEF Structure, InteriorOK, LeavesOK, GatherOK, InChain
<1> QED BY <1>3, <1>4, <1>5 DEF Structure

\* The leaves are complete: one more than the interior.
LEMMA StartRankingStructure == Structure /\ StartRanking => Structure'
<1> SUFFICES ASSUME Structure, StartRanking PROVE Structure'
  OBVIOUS
<1>1. /\ pc = "gather" /\ pc' = "rank" /\ worklist = <<>> /\ Len(leaves) >= 3
      /\ worklist' = worklist /\ leaves' = leaves /\ interior' = interior
      /\ seq' = seq /\ heap' = heap
      /\ inOrder' = inOrder /\ ir' = ir /\ roots' = roots /\ original' = original
  BY DEF StartRanking, tree
<1>2. Live' = Live /\ Root' = Root
  BY <1>1, SameProgram, SameRoot
<1>3. seq = 0 /\ heap = {} /\ Len(leaves) = Len(interior) + 1 /\ Len(leaves) \in Nat
  <2>1. Len(worklist) = 0
    BY <1>1
  <2> QED BY <1>1, <2>1, GatherFacts
<1>4. StateOK' /\ OriginalOK' /\ ProgramOK' /\ NumbersOK'
  BY <1>1, <1>2 DEF Structure, StateOK, OriginalOK, ProgramOK, NumbersOK
<1>5. CountOK'
  <2>1. ~ (seq > Len(leaves))
    BY <1>3
  <2> QED BY <1>1, <2>1 DEF Structure, CountOK
<1>6. RootsOK'
  <2>1. \A r : TokensOf(r)' = TokensOf(r)
    BY <1>1 DEF TokensOf, Open
  <2> QED BY <1>1, <1>2, <2>1 DEF Structure, RootsOK, InChain
<1>7. InteriorOK' /\ LeavesOK' /\ GatherOK'
  BY <1>1, <1>2 DEF Structure, InteriorOK, LeavesOK, GatherOK, InChain
<1>8. HeapOK'
  <2>1. Cardinality({}) = 0
    BY Zenon, FS_EmptySet
  <2>2. Nodes(heap, seq, Live)
    BY DEF Structure, HeapOK
  <2>3. Cardinality(heap) = IF seq <= Len(leaves) THEN seq ELSE 2 * Len(leaves) - seq
    <3>1. Cardinality(heap) = 0
      BY ONLY <1>3, <2>1, Zenon
    <3> QED BY <1>3, <3>1
  <2> QED BY <1>1, <1>2, <1>3, <2>2, <2>3 DEF HeapOK
<1> QED BY <1>4, <1>5, <1>6, <1>7, <1>8 DEF Structure

\* What is so while the leaves are ranked and combined.
LEMMA RankFacts ==
  ASSUME Structure, pc = "rank"
  PROVE  /\ Root \in roots /\ Root \in Live /\ Graph(ir) /\ Graph(original)
         /\ Root \in DOMAIN original
         /\ ir[Root].kind = "add" /\ ir[Root].block = original[Root].block
         /\ ir[Root].block \in 0 .. 2
         /\ worklist = <<>> /\ leaves \in Seq(Live) /\ interior \in Seq(Live)
         /\ Len(leaves) \in Nat /\ Len(interior) \in Nat \ {0} /\ seq \in Nat
         /\ Len(leaves) >= 3 /\ Len(leaves) = Len(interior) + 1
         /\ Nodes(heap, seq, Live)
         /\ Cardinality(heap) = IF seq <= Len(leaves) THEN seq ELSE 2 * Len(leaves) - seq
         /\ interior[1] = Root
         /\ \A v : v \in ToSet(interior) <=> \E j \in 1 .. Len(interior) : interior[j] = v
         /\ \A i \in 1 .. Len(leaves) : leaves[i] \in Live /\ leaves[i] \notin ToSet(interior)
         /\ \A x \in heap : x.value \in Live /\ x.value \notin ToSet(interior)
<1>1. Root \in roots /\ Root \in Live /\ Graph(ir) /\ Graph(original) /\ Root \in DOMAIN original
      /\ ir[Root].kind = "add" /\ ir[Root].block = original[Root].block
  BY ChainFacts DEF Structure, RootsOK, InChain
<1>2. ir[Root].block \in 0 .. 2
  BY <1>1 DEF Graph
<1>3. /\ worklist = <<>> /\ leaves \in Seq(Live) /\ interior \in Seq(Live) /\ interior[1] = Root
      /\ Len(interior) >= 1
      /\ \A i \in 1 .. Len(leaves) : leaves[i] \notin ToSet(interior)
  BY DEF Structure, GatherOK, LeavesOK, InteriorOK, InChain
<1>4. /\ Nodes(heap, seq, Live) /\ Len(leaves) >= 3 /\ Len(leaves) = Len(interior) + 1
      /\ Cardinality(heap) = IF seq <= Len(leaves) THEN seq ELSE 2 * Len(leaves) - seq
      /\ \A x \in heap : x.value \notin ToSet(interior)
  BY DEF Structure, HeapOK
<1>5. seq \in Nat /\ \A x \in heap : x.value \in Live
  BY <1>4 DEF Nodes
<1>6. \A v : v \in ToSet(interior) <=> \E j \in 1 .. Len(interior) : interior[j] = v
  BY <1>3, ToSetFacts
<1>7. \A i \in 1 .. Len(leaves) : leaves[i] \in Live
  BY <1>3
<1>8. Len(leaves) \in Nat /\ Len(interior) \in Nat \ {0}
  BY <1>3
<1> QED BY <1>1, <1>2, <1>3, <1>4, <1>5, <1>6, <1>7, <1>8

\* A leaf is queued.  That its depth is a number is for the depths to show.
LEMMA RankLeafStructure ==
  ASSUME Structure, RankLeaf, Depth[leaves[seq + 1]] \in Nat
  PROVE  Structure'
<1>1. /\ pc = "rank" /\ pc' = "rank" /\ seq < Len(leaves) /\ seq' = seq + 1
      /\ heap' = heap \cup {Node(leaves[seq + 1], Depth[leaves[seq + 1]], seq)}
      /\ worklist' = worklist /\ leaves' = leaves /\ interior' = interior
      /\ inOrder' = inOrder /\ ir' = ir /\ roots' = roots /\ original' = original
  BY DEF RankLeaf
<1>2. Live' = Live /\ Root' = Root
  BY <1>1, SameProgram, SameRoot
<1>3. /\ Nodes(heap, seq, Live) /\ seq \in Nat /\ Len(leaves) \in Nat /\ Cardinality(heap) = seq
      /\ Len(leaves) >= 3 /\ Len(leaves) = Len(interior) + 1
  BY <1>1, RankFacts
<1>4. PICK leaf, c, d : leaf = leaves[seq + 1] /\ d = Depth[leaf] /\ c = Node(leaf, d, seq)
  OBVIOUS
<1>5. seq + 1 \in 1 .. Len(leaves) /\ d \in Nat
  BY <1>1, <1>3, <1>4
<1>6. leaf \in Live /\ leaf \notin ToSet(interior)
  BY <1>1, <1>4, <1>5, RankFacts
<1>7. heap' = heap \cup {c} /\ c.value = leaf /\ c.seq = seq
  BY <1>1, <1>4 DEF Node
<1>8. Nodes(heap', seq', Live) /\ Cardinality(heap') = seq + 1
  BY <1>1, <1>3, <1>4, <1>5, <1>6, <1>7, NodesWith
<1>9. Open' = Open
  <2>1. ASSUME NEW i \in 1 .. Len(leaves)
        PROVE  (i > seq + 1 \/ \E x \in heap' : x.seq = i - 1)
               <=> (i > seq \/ \E x \in heap : x.seq = i - 1)
    <3>1. (\E x \in heap' : x.seq = i - 1) <=> (\E x \in heap : x.seq = i - 1) \/ seq = i - 1
      BY <1>7
    <3>2. i > seq <=> i > seq + 1 \/ seq = i - 1
      BY <1>3
    <3> QED BY <3>1, <3>2, <1>7
  <2> QED BY <1>1, <2>1 DEF Open
<1>10. StateOK' /\ OriginalOK' /\ ProgramOK' /\ NumbersOK'
  BY <1>1, <1>2 DEF Structure, StateOK, OriginalOK, ProgramOK, NumbersOK
<1>11. CountOK'
  <2>1. ~ (seq > Len(leaves)) /\ ~ (seq' > Len(leaves'))
    BY <1>1, <1>3
  <2> QED BY <1>1, <2>1 DEF Structure, CountOK
<1>12. RootsOK'
  <2>1. \A r : TokensOf(r)' = TokensOf(r)
    BY <1>1, <1>9 DEF TokensOf
  <2> QED BY <1>1, <1>2, <2>1 DEF Structure, RootsOK, InChain
<1>13. InteriorOK' /\ LeavesOK' /\ GatherOK'
  BY <1>1, <1>2 DEF Structure, InteriorOK, LeavesOK, GatherOK, InChain
<1>14. HeapOK'
  <2>1. \A x \in heap : x.seq < Len(leaves) /\ x.value = leaves[x.seq + 1]
    <3> SUFFICES ASSUME NEW x \in heap PROVE x.seq < Len(leaves) /\ x.value = leaves[x.seq + 1]
      OBVIOUS
    <3>1. x.seq \in 0 .. seq - 1
      BY <1>3, NodeFacts
    <3>2. x.seq < Len(leaves)
      BY <1>1, <1>3, <3>1
    <3> QED BY <1>1, <3>2 DEF Structure, HeapOK
  <2>2. \A x \in heap' : x.seq < Len(leaves) /\ x.value = leaves[x.seq + 1]
    BY <1>1, <1>4, <1>7, <2>1
  <2>3. \A x \in heap' : x.value \notin ToSet(interior)
    BY <1>1, <1>6, <1>7, RankFacts
  <2>4. Cardinality(heap') = IF seq' <= Len(leaves') THEN seq' ELSE 2 * Len(leaves') - seq'
    BY <1>1, <1>3, <1>8
  <2>5. ~ (seq' > Len(leaves'))
    BY <1>1, <1>3
  <2> QED BY <1>1, <1>2, <1>3, <1>8, <2>2, <2>3, <2>4, <2>5 DEF HeapOK
<1> QED BY <1>10, <1>11, <1>12, <1>13, <1>14 DEF Structure

\* A tree is rewritten and erased.
LEMMA ChainDoneStructure == Structure /\ ChainDone => Structure'
<1> SUFFICES ASSUME Structure, ChainDone PROVE Structure'
  OBVIOUS
<1>1. /\ pc = "erase" /\ pc' = "next" /\ interior = <<>> /\ roots' = roots \ {Root}
      /\ worklist' = worklist /\ leaves' = leaves /\ interior' = interior
      /\ seq' = seq /\ heap' = heap
      /\ inOrder' = inOrder /\ ir' = ir /\ original' = original
  BY DEF ChainDone, tree
<1>2. Live' = Live
  BY <1>1, SameProgram
<1>3. StateOK' /\ OriginalOK' /\ ProgramOK' /\ NumbersOK' /\ HeapOK' /\ CountOK'
  <2>1. HeapOK'
    BY <1>1, <1>2 DEF Structure, HeapOK
  <2>2. Len(interior) = 0
    BY <1>1
  <2>3. CountOK'
    BY <1>1, <2>2 DEF Structure, CountOK
  <2>4. NumbersOK'
    BY <1>1, <1>2 DEF Structure, NumbersOK
  <2> QED BY <1>1, <1>2, <2>1, <2>3, <2>4 DEF Structure, StateOK, OriginalOK, ProgramOK
<1>4. Open = {}
  <2>1. seq >= Len(leaves) /\ (\A x \in heap : x.seq >= Len(leaves)) /\ seq \in Nat /\ Len(leaves) \in Nat
    BY <1>1, ToSetFacts DEF Structure, HeapOK, Nodes, LeavesOK
  <2>2. \A x \in heap : x.seq \in Int
    BY NodeFacts DEF Structure, HeapOK
  <2>3. \A i \in 1 .. Len(leaves) : ~ (i > seq) /\ \A x \in heap : x.seq # i - 1
    BY <2>1, <2>2
  <2> QED BY <2>3 DEF Open
<1>5. \A r : TokensOf(r) = UsesIn(ir, r)
  <2>1. Len(worklist) = 0 /\ ToSet(interior) = {}
    BY <1>1 DEF Structure, GatherOK, ToSet
  <2>2. \A r : Tokens(ir, {}, worklist, leaves, {}, r) = UsesIn(ir, r)
    BY <2>1, NoTokens
  <2> QED BY <1>4, <2>1, <2>2 DEF TokensOf
<1>6. RootsOK'
  <2>1. ASSUME NEW r \in roots \ {Root}
        PROVE  r \in Live /\ Loose(ir, 0, original[r].block, UsesIn(ir, r))
    <3>1. r \in Live /\ Loose(ir, original[Root].block, original[r].block, UsesIn(ir, r))
      BY <1>1, <1>5 DEF Structure, RootsOK, InChain
    <3>2. Graph(ir)
      BY DEF Structure, ProgramOK
    <3> QED BY <3>1, <3>2, LooseUses
  <2> QED BY <1>1, <1>2, <2>1 DEF Structure, RootsOK, InChain
<1>7. InteriorOK' /\ LeavesOK' /\ GatherOK'
  BY <1>1, <1>2 DEF Structure, InteriorOK, LeavesOK, GatherOK, InChain
<1> QED BY <1>3, <1>6, <1>7 DEF Structure

\* Nothing changes.
LEMMA StutterStructure == Structure /\ UNCHANGED vars => Structure'
<1> SUFFICES ASSUME Structure, UNCHANGED vars PROVE Structure'
  OBVIOUS
<1>1. /\ pc' = pc /\ roots' = roots /\ worklist' = worklist /\ leaves' = leaves
      /\ interior' = interior /\ seq' = seq /\ heap' = heap
      /\ inOrder' = inOrder /\ ir' = ir /\ original' = original
  BY DEF vars
<1>2. Live' = Live /\ Root' = Root /\ \A v : (HasOneUse(v)' <=> HasOneUse(v)) /\ (IsInterior(v)' <=> IsInterior(v))
  BY <1>1, SameProgram, SameRoot
<1>3. \A r : TokensOf(r)' = TokensOf(r)
  BY <1>1 DEF TokensOf, Open
<1>4. StateOK' /\ OriginalOK' /\ ProgramOK' /\ NumbersOK' /\ CountOK'
  BY <1>1, <1>2 DEF Structure, StateOK, OriginalOK, ProgramOK, NumbersOK, CountOK
<1>5. HeapOK'
  BY <1>1, <1>2 DEF Structure, HeapOK
<1>6. RootsOK'
  BY <1>1, <1>2, <1>3 DEF Structure, RootsOK, InChain
<1>7. InteriorOK' /\ LeavesOK'
  BY <1>1, <1>2 DEF Structure, InteriorOK, LeavesOK, InChain
<1>8. GatherOK'
  BY <1>1, <1>2, <1>3 DEF Structure, GatherOK
<1> QED BY <1>4, <1>5, <1>6, <1>7, <1>8 DEF Structure

\* Two leaves, i and j, become the operands of a new addition s.
Combines(G, H, s, x, y, rb, inner, lv, open, i, j, r) ==
  /\ Graph(G) /\ s \in Nat \ DOMAIN G /\ s \notin inner /\ x \in DOMAIN G /\ y \in DOMAIN G
  /\ rb \in 0 .. 2 /\ H = WithAdd(G, s, x, y, rb) /\ i \in Int /\ j \in Int /\ i # j
  /\ i \in open => lv[i] = x
  /\ j \in open => lv[j] = y
  /\ x = r => i \in open
  /\ y = r => j \in open

\* When two nodes are combined, the uses of the leaves among them become uses
\* by the new addition.
LEMMA CombineMoves ==
  ASSUME NEW G, NEW H, NEW s, NEW x, NEW y, NEW rb, NEW inner, NEW lv, NEW open, NEW i, NEW j, NEW r,
         Combines(G, H, s, x, y, rb, inner, lv, open, i, j, r), NEW wl, NEW b
  PROVE  \E m : Moves(G, H, rb, b, Tokens(G, inner, wl, lv, open, r),
                      Tokens(H, inner, wl, lv, open \ {i, j}, r), m)
<1> USE DEF Combines
<1> DEFINE T == Tokens(G, inner, wl, lv, open, r)
           O == open \ {i, j}
           S == Tokens(H, inner, wl, lv, O, r)
           ti == <<-2, i>>
           tj == <<-2, j>>
           m == [t \in T |-> IF t = ti THEN <<s, 1>> ELSE IF t = tj THEN <<s, 2>> ELSE t]
<1>1. \A t : t \in T <=> \/ t \in UsesIn(G, r) /\ t[1] \notin inner
                         \/ \E k \in 1 .. Len(wl) : t = <<-1, k>> /\ wl[k] = r
                         \/ \E k \in open : t = <<-2, k>> /\ lv[k] = r
  BY TokenFacts
<1>2. \A t : t \in S <=> \/ t \in UsesIn(H, r) /\ t[1] \notin inner
                         \/ \E k \in 1 .. Len(wl) : t = <<-1, k>> /\ wl[k] = r
                         \/ \E k \in O : t = <<-2, k>> /\ lv[k] = r
  <2> HIDE DEF O
  <2> QED BY TokenFacts
<1>3. /\ Graph(H)
      /\ \A u \in DOMAIN G : H[u] = G[u]
      /\ H[s].kind = "add" /\ H[s].block = rb
      /\ \A u, k : <<u, k>> \in UsesIn(H, r) <=>
              \/ <<u, k>> \in UsesIn(G, r)
              \/ u = s /\ k = 1 /\ x = r
              \/ u = s /\ k = 2 /\ y = r
  <2>1. Added(G, H, s, x, y, rb)
    BY WithAddFacts
  <2> QED BY <2>1 DEF Added
<1>4. \A t \in UsesIn(G, r) : t = <<t[1], t[2]>> /\ t[1] \in DOMAIN G /\ t[1] \in Nat
  BY UsesOfGraph
<1>5. \A t \in UsesIn(H, r) : t = <<t[1], t[2]>> /\ t[1] \in Nat
  BY <1>3, UsesOfGraph
<1>6. \A t \in T : m[t] = IF t = ti THEN <<s, 1>> ELSE IF t = tj THEN <<s, 2>> ELSE t
  OBVIOUS
<1>7. ti[1] = -2 /\ tj[1] = -2 /\ ti[2] = i /\ tj[2] = j /\ ti # tj
  OBVIOUS
<1>8. ti \in T => x = r /\ <<s, 1>> \in S
  <2> HIDE DEF T, S
  <2> SUFFICES ASSUME ti \in T PROVE x = r /\ <<s, 1>> \in S
    OBVIOUS
  <2>1. ti \notin UsesIn(G, r)
    BY <1>4, <1>7
  <2>2. i \in open /\ lv[i] = r
    BY <1>1, <2>1
  <2> QED BY <1>2, <1>3, <2>2
<1>9. tj \in T => y = r /\ <<s, 2>> \in S
  <2> HIDE DEF T, S
  <2> SUFFICES ASSUME tj \in T PROVE y = r /\ <<s, 2>> \in S
    OBVIOUS
  <2>1. tj \notin UsesIn(G, r)
    BY <1>4, <1>7
  <2>2. j \in open /\ lv[j] = r
    BY <1>1, <2>1
  <2> QED BY <1>2, <1>3, <2>2
<1>10. \A t \in T : t # ti /\ t # tj => t \in S
  <2> HIDE DEF T, S
  <2> SUFFICES ASSUME NEW t \in T, t # ti, t # tj PROVE t \in S
    OBVIOUS
  <2>1. CASE t \in UsesIn(G, r) /\ t[1] \notin inner
    <3>1. t \in UsesIn(H, r)
      <4>1. PICK u, k : t = <<u, k>>
        BY <1>4, <2>1
      <4> QED BY <1>3, <2>1, <4>1
    <3> QED BY <1>2, <2>1, <3>1
  <2>2. CASE \E k \in 1 .. Len(wl) : t = <<-1, k>> /\ wl[k] = r
    BY <1>2, <2>2
  <2>3. CASE \E k \in open : t = <<-2, k>> /\ lv[k] = r
    <3>1. PICK k \in open : t = <<-2, k>> /\ lv[k] = r
      BY <2>3
    <3>2. k # i /\ k # j
      BY <3>1
    <3> QED BY <1>2, <3>1, <3>2
  <2> QED BY <1>1, <2>1, <2>2, <2>3
<1>11. m \in [T -> S]
  <2> HIDE DEF T, S
  <2>1. ASSUME NEW t \in T PROVE m[t] \in S
    <3> HIDE DEF m
    <3> QED BY <1>6, <1>8, <1>9, <1>10
  <2> QED BY <2>1
<1>12. \A t \in T : t # <<s, 1>> /\ t # <<s, 2>>
  <2> HIDE DEF T
  <2> SUFFICES ASSUME NEW t \in T, t[1] = s PROVE FALSE
    OBVIOUS
  <2>1. t \notin UsesIn(G, r)
    BY <1>4
  <2>2. t[1] = -1 \/ t[1] = -2
    BY <1>1, <2>1
  <2> QED BY <2>2
<1>13. ASSUME NEW e \in T, NEW f \in T, m[e] = m[f] PROVE e = f
  <2>1. <<s, 1>> # <<s, 2>>
    OBVIOUS
  <2> HIDE DEF T, S, m, ti, tj
  <2> QED BY <1>6, <1>12, <1>13, <2>1
<1>14. ASSUME NEW e \in S PROVE \E f \in T : m[f] = e
  <2> HIDE DEF T, S, m
  <2>1. CASE e \in UsesIn(H, r) /\ e[1] \notin inner
    <3>1. PICK u, k : e = <<u, k>>
      BY <1>5, <2>1
    <3>2. CASE <<u, k>> \in UsesIn(G, r)
      <4>1. e \in T
        BY <1>1, <2>1, <3>1, <3>2
      <4>2. e # ti /\ e # tj
        BY <1>4, <1>7, <3>1, <3>2
      <4> QED BY <1>6, <4>1, <4>2
    <3>3. CASE u = s /\ k = 1 /\ x = r
      <4>1. ti \in T
        BY <1>1, <3>3
      <4> QED BY <1>6, <3>1, <3>3, <4>1
    <3>4. CASE u = s /\ k = 2 /\ y = r
      <4>1. tj \in T
        BY <1>1, <3>4
      <4>2. m[tj] = <<s, 2>>
        BY <1>6, <1>7, <4>1
      <4> QED BY <3>1, <3>4, <4>1, <4>2
    <3> QED BY <1>3, <2>1, <3>1, <3>2, <3>3, <3>4
  <2>2. CASE \E k \in 1 .. Len(wl) : e = <<-1, k>> /\ wl[k] = r
    <3>1. e \in T /\ e[1] = -1
      BY <1>1, <2>2
    <3>2. e # ti /\ e # tj
      BY <1>7, <3>1
    <3> QED BY <1>6, <3>1, <3>2
  <2>3. CASE \E k \in O : e = <<-2, k>> /\ lv[k] = r
    <3>1. PICK k \in O : e = <<-2, k>> /\ lv[k] = r
      BY <2>3
    <3>2. e \in T
      BY <1>1, <3>1
    <3>3. e # ti /\ e # tj
      BY <3>1
    <3> QED BY <1>6, <3>2, <3>3
  <2> QED BY <1>2, <2>1, <2>2, <2>3
<1>15. ASSUME NEW e \in T PROVE IsNear(G, rb, b, e) <=> IsNear(H, rb, b, m[e])
  <2> HIDE DEF T, S, m
  <2>1. ASSUME e = ti \/ e = tj PROVE IsNear(G, rb, b, e) <=> IsNear(H, rb, b, m[e])
    <3>1. m[e][1] = s
      BY <1>6, <2>1
    <3>2. e[1] = -2
      BY <1>7, <2>1
    <3> QED BY <1>3, <3>1, <3>2 DEF IsNear
  <2>2. ASSUME e # ti, e # tj PROVE IsNear(G, rb, b, e) <=> IsNear(H, rb, b, m[e])
    <3>1. m[e] = e
      BY <1>6, <2>2
    <3>2. e[1] >= 0 => e[1] \in DOMAIN G
      <4>1. CASE e \in UsesIn(G, r)
        BY <1>4, <4>1
      <4>2. CASE e \notin UsesIn(G, r)
        <5>1. e[1] = -1 \/ e[1] = -2
          BY <1>1, <4>2
        <5> QED BY <5>1
      <4> QED BY <4>1, <4>2
    <3> QED BY <1>3, <3>1, <3>2 DEF IsNear
  <2> QED BY <2>1, <2>2
<1> HIDE DEF m, T, S
<1>16. Moves(G, H, rb, b, T, S, m)
  BY <1>11, <1>13, <1>14, <1>15 DEF Moves
<1> QED BY <1>16 DEF T, S

\* What a combination does.
CombineOf(a, b, s, rb) ==
  /\ a = Least(heap) /\ b = Least(heap \ {a}) /\ s = Max(Live) + 1 /\ rb = ir[Root].block
  /\ a \in heap /\ b \in heap /\ a # b /\ a.seq # b.seq /\ a.rank \in Nat /\ b.rank \in Nat
  /\ a.value \in Live /\ b.value \in Live /\ a.seq \in Nat /\ b.seq \in Nat
  /\ a.rank <= b.rank /\ \A x \in heap \ {a} : b.rank <= x.rank
  /\ s \in Nat \ Live /\ (\A v \in Live : v < s) /\ rb \in 0 .. 2
  /\ ir' = WithAdd(ir, s, a.value, b.value, rb)
  /\ heap' = (heap \ {a, b}) \cup {Node(s, b.rank + 1, seq)}
  /\ Nodes(heap \ {a, b}, seq, Live) /\ Cardinality(heap \ {a, b}) = Cardinality(heap) - 2
  /\ Added(ir, ir', s, a.value, b.value, rb)

\* What a combination does is as CombineOf says.
LEMMA CombineFacts ==
  ASSUME Structure, Combine
  PROVE  /\ pc = "rank" /\ pc' = "rank" /\ seq >= Len(leaves) /\ seq' = seq + 1
         /\ worklist' = worklist /\ leaves' = leaves /\ interior' = interior
         /\ inOrder' = inOrder /\ roots' = roots /\ original' = original /\ depthMemo' = depthMemo
         /\ Root' = Root
         /\ \E a, b, s, rb : CombineOf(a, b, s, rb)
<1>1. /\ pc = "rank" /\ pc' = "rank" /\ seq >= Len(leaves) /\ seq' = seq + 1
      /\ Cardinality(heap) > 1
      /\ worklist' = worklist /\ leaves' = leaves /\ interior' = interior
      /\ inOrder' = inOrder /\ roots' = roots /\ original' = original /\ depthMemo' = depthMemo
  BY DEF Combine
<1>2. Root' = Root
  BY <1>1, SameRoot
<1>3. PICK a, b, s, rb : /\ a = Least(heap) /\ b = Least(heap \ {a}) /\ s = Max(Live) + 1
                         /\ rb = ir[Root].block
  OBVIOUS
<1>4. Nodes(heap, seq, Live) /\ Graph(ir) /\ Root \in Live /\ rb \in 0 .. 2
  BY <1>1, <1>3, RankFacts
<1>5. /\ a \in heap /\ b \in heap /\ a # b /\ a.seq # b.seq
      /\ a.rank <= b.rank /\ \A x \in heap \ {a} : b.rank <= x.rank
      /\ Nodes(heap \ {a, b}, seq, Live) /\ Cardinality(heap \ {a, b}) = Cardinality(heap) - 2
  BY <1>1, <1>3, <1>4, TwoLeast
<1>6. /\ a.rank \in Nat /\ b.rank \in Nat /\ a.value \in Live /\ b.value \in Live
      /\ a.seq \in Nat /\ b.seq \in Nat
  <2>1. ASSUME NEW x \in heap PROVE x.rank \in Nat /\ x.value \in Live /\ x.seq \in Nat
    BY <1>4, NodeFacts
  <2> QED BY <1>5, <2>1
<1>7. s \in Nat \ Live /\ \A v \in Live : v < s
  BY <1>3, <1>4, FreshNumber DEF Live
<1>8. Max({a.rank, b.rank}) = b.rank
  <2>1. \A p \in Nat, q \in Nat : p <= q => \A x \in {p, q} : (\A y \in {p, q} : x >= y) <=> x = q
    OBVIOUS
  <2>2. PICK p \in Nat, q \in Nat : p = a.rank /\ q = b.rank /\ p <= q
    BY <1>5, <1>6
  <2>3. Max({p, q}) = CHOOSE x \in {p, q} : \A y \in {p, q} : x >= y
    BY DEF Max
  <2>4. Max({p, q}) = q
    <3>1. PICK S : S = {p, q}
      OBVIOUS
    <3>2. q \in S /\ \A x \in S : (\A y \in S : x >= y) <=> x = q
      BY <2>1, <2>2, <3>1
    <3>3. (CHOOSE x \in S : \A y \in S : x >= y) = q
      BY ONLY <3>2
    <3> QED BY <2>3, <3>1, <3>3
  <2> QED BY <2>2, <2>4
<1>9. ir' = WithAdd(ir, s, a.value, b.value, rb)
  BY <1>3 DEF Combine, WithAdd, Live
<1>10. heap' = (heap \ {a, b}) \cup {Node(s, b.rank + 1, seq)}
  BY <1>3, <1>8 DEF Combine
<1>11. Added(ir, ir', s, a.value, b.value, rb)
  BY <1>4, <1>6, <1>7, <1>9, WithAddFacts DEF Live
<1>12. CombineOf(a, b, s, rb)
  BY <1>3, <1>4, <1>5, <1>6, <1>7, <1>9, <1>10, <1>11 DEF CombineOf
<1> QED BY <1>1, <1>2, <1>12

\* Two nodes become one.
LEMMA CombineStructure == Structure /\ Combine => Structure'
<1> SUFFICES ASSUME Structure, Combine PROVE Structure'
  OBVIOUS
<1>1. /\ pc = "rank" /\ pc' = "rank" /\ seq >= Len(leaves) /\ seq' = seq + 1
      /\ worklist' = worklist /\ leaves' = leaves /\ interior' = interior
      /\ inOrder' = inOrder /\ roots' = roots /\ original' = original /\ Root' = Root
  BY CombineFacts
<1>2. PICK a, b, s, rb : CombineOf(a, b, s, rb)
  BY CombineFacts
<1>3. /\ Graph(ir') /\ Live' = Live \cup {s} /\ s \in Nat \ Live /\ \A v \in Live : v < s
      /\ \A u \in Live : ir'[u] = ir[u]
      /\ ir'[s].kind = "add" /\ ir'[s].block = rb
      /\ \A v : \A u, k : <<u, k>> \in UsesIn(ir', v) <=>
            \/ <<u, k>> \in UsesIn(ir, v)
            \/ u = s /\ k = 1 /\ a.value = v
            \/ u = s /\ k = 2 /\ b.value = v
  BY <1>2 DEF CombineOf, Added, Live
<1>4. /\ Graph(ir) /\ Graph(original) /\ Root \in Live /\ rb \in 0 .. 2 /\ ir[Root].block = rb
      /\ original[Root].block = rb
      /\ Nodes(heap, seq, Live) /\ Len(leaves) \in Nat /\ Len(leaves) >= 3 /\ seq \in Nat
      /\ leaves \in Seq(Live) /\ interior \in Seq(Live) /\ worklist = <<>>
  BY <1>1, <1>2, RankFacts DEF CombineOf
<1>5. PICK c : c = Node(s, b.rank + 1, seq)
  OBVIOUS
<1>6. c.value = s /\ c.seq = seq /\ heap' = (heap \ {a, b}) \cup {c}
  BY <1>2, <1>5 DEF CombineOf, Node
<1>7. s \notin DOMAIN original /\ s \notin ToSet(leaves) /\ s \notin ToSet(interior)
  <2>1. PICK v \in Live : \A u \in DOMAIN original : u <= v
    BY DEF Structure, NumbersOK
  <2>2. s \notin DOMAIN original
    <3>1. v < s /\ v \in Nat
      BY <1>3, <1>4 DEF Graph, Live
    <3>2. \A u \in DOMAIN original : u < s
      BY <1>3, <1>4, <2>1, <3>1 DEF Graph
    <3> QED BY <1>3, <3>2
  <2>3. ToSet(leaves) \subseteq Live /\ ToSet(interior) \subseteq Live
    BY <1>4, ToSetFacts
  <2> QED BY <1>3, <2>2, <2>3
<1>8. \A x \in heap : /\ x.value \in Live /\ x.value \notin ToSet(interior) /\ x.seq \in 0 .. seq - 1
                      /\ IF x.seq < Len(leaves) THEN x.value = leaves[x.seq + 1]
                         ELSE x.value \notin DOMAIN original \cup ToSet(leaves)
  <2>1. \A x \in heap : x.value \in Live /\ x.seq \in 0 .. seq - 1
    BY <1>4, NodeFacts
  <2> QED BY <1>1, <2>1 DEF Structure, HeapOK
<1>9. a \in heap /\ b \in heap /\ a.seq # b.seq /\ a.seq \in Nat /\ b.seq \in Nat
      /\ a.value \in Live /\ b.value \in Live
  BY <1>2 DEF CombineOf
<1>10. PICK i, j : i = a.seq + 1 /\ j = b.seq + 1
  OBVIOUS
<1>11. i \in Nat /\ j \in Nat /\ i # j
  BY <1>9, <1>10
<1>12. \A k : k \in Open <=> k \in 1 .. Len(leaves) /\ \E x \in heap : x.seq = k - 1
  <2>1. \A k \in 1 .. Len(leaves) : ~ (k > seq)
    BY <1>1, <1>4
  <2> QED BY <2>1 DEF Open
<1>13. Open' = Open \ {i, j}
  <2>1. ASSUME NEW k \in 1 .. Len(leaves)
        PROVE  (k > seq + 1 \/ \E x \in heap' : x.seq = k - 1) <=> k \in Open \ {i, j}
    <3>1. ~ (k > seq + 1) /\ seq # k - 1
      BY <1>1, <1>4
    <3>2. (\E x \in heap' : x.seq = k - 1) <=> (\E x \in heap \ {a, b} : x.seq = k - 1)
      BY <1>6, <3>1
    <3>3. (\E x \in heap \ {a, b} : x.seq = k - 1)
          <=> (\E x \in heap : x.seq = k - 1) /\ k # i /\ k # j
      <4>1. \A x, y \in heap : x.seq = y.seq => x = y
        BY <1>4 DEF Nodes
      <4>2. ASSUME NEW x \in heap \ {a, b}, x.seq = k - 1 PROVE k # i /\ k # j
        <5>1. x.seq # a.seq /\ x.seq # b.seq
          BY <1>9, <4>1
        <5> QED BY <1>9, <1>10, <4>2, <5>1
      <4>3. ASSUME NEW x \in heap, x.seq = k - 1, k # i, k # j PROVE x \in heap \ {a, b}
        <5>1. x.seq # a.seq /\ x.seq # b.seq
          BY <1>9, <1>10, <4>3
        <5> QED BY <5>1
      <4> QED BY <4>2, <4>3
    <3> QED BY <1>12, <3>1, <3>2, <3>3
  <2>2. \A k \in Open : k \in 1 .. Len(leaves)
    BY <1>12
  <2>3. Open' = {k \in 1 .. Len(leaves) : k > seq + 1 \/ \E x \in heap' : x.seq = k - 1}
    BY <1>1 DEF Open
  <2> QED BY <2>1, <2>2, <2>3
<1>14. ASSUME NEW r \in DOMAIN original, NEW e
       PROVE  \E m : Moves(ir, ir', rb, e, TokensOf(r), TokensOf(r)', m)
  <2>1. i \in Open => leaves[i] = a.value
    BY <1>8, <1>9, <1>10, <1>11, <1>12
  <2>2. j \in Open => leaves[j] = b.value
    BY <1>8, <1>9, <1>10, <1>11, <1>12
  <2>3. ASSUME NEW x \in heap, x.value = r PROVE x.seq + 1 \in Open
    <3>1. x.seq < Len(leaves)
      BY <1>8, <2>3
    <3>2. x.seq + 1 \in 1 .. Len(leaves) /\ (x.seq + 1) - 1 = x.seq
      BY <1>4, <1>8, <3>1
    <3> QED BY <1>12, <3>2
  <2>4. PICK inn, H : inn = ToSet(interior) /\ H = ir'
    OBVIOUS
  <2>5. Combines(ir, H, s, a.value, b.value, rb, inn, leaves, Open, i, j, r)
    <3>1. H = WithAdd(ir, s, a.value, b.value, rb)
      BY <1>2, <2>4 DEF CombineOf
    <3>2. (a.value = r => i \in Open) /\ (b.value = r => j \in Open)
      BY <1>9, <1>10, <2>3
    <3>3. s \in Nat \ DOMAIN ir /\ a.value \in DOMAIN ir /\ b.value \in DOMAIN ir
      BY <1>3, <1>9 DEF Live
    <3>4. i \in Int /\ j \in Int
      BY <1>11
    <3>5. s \notin inn
      BY <1>7, <2>4
    <3> QED BY ONLY <1>4, <1>11, <2>1, <2>2, <3>1, <3>2, <3>3, <3>4, <3>5 DEF Combines
  <2>6. \E m : Moves(ir, H, rb, e, Tokens(ir, inn, worklist, leaves, Open, r),
                     Tokens(H, inn, worklist, leaves, Open \ {i, j}, r), m)
    BY ONLY <2>5, CombineMoves
  <2>7. TokensOf(r) = Tokens(ir, inn, worklist, leaves, Open, r)
    BY <2>4 DEF TokensOf
  <2>8. TokensOf(r)' = Tokens(H, inn, worklist, leaves, Open \ {i, j}, r)
    BY <1>1, <1>13, <2>4 DEF TokensOf
  <2> QED BY <2>4, <2>6, <2>7, <2>8
<1>15. StateOK' /\ OriginalOK'
  BY <1>1 DEF Structure, StateOK, OriginalOK
<1>16. ProgramOK'
  <2>1. \A v \in Live' \cap DOMAIN original : v \in Live
    BY <1>3, <1>7
  <2>2. (\A v \in DOMAIN original : original[v].kind # "add" => v \in Live)'
    BY <1>1, <1>3 DEF Structure, ProgramOK
  <2>3. (\A v \in Live \cap DOMAIN original :
           ir[v].kind = original[v].kind /\ ir[v].block = original[v].block)'
    BY <1>1, <1>3, <2>1 DEF Structure, ProgramOK
  <2>4. (\A v \in Live \ DOMAIN original : ir[v].kind = "add")'
    BY <1>1, <1>3 DEF Structure, ProgramOK
  <2> QED BY <1>1, <1>3, <2>2, <2>3, <2>4 DEF ProgramOK
<1>17. NumbersOK'
  BY <1>1, <1>3 DEF Structure, NumbersOK
<1>18. RootsOK'
  <2>1. ASSUME NEW r \in roots \ {Root}
        PROVE  /\ r \in Live' /\ r \notin ToSet(interior')
               /\ Loose(ir', original'[Root'].block, original'[r].block, TokensOf(r)')
    <3>1. /\ r \in Live /\ r \notin ToSet(interior) /\ r \in DOMAIN original
          /\ Loose(ir, original[Root].block, original[r].block, TokensOf(r))
      BY <1>1 DEF Structure, RootsOK, InChain
    <3>2. PICK e : e = original[r].block
      OBVIOUS
    <3>3. PICK m : Moves(ir, ir', rb, e, TokensOf(r), TokensOf(r)', m)
      BY <1>14, <3>1
    <3>4. Loose(ir', rb, e, TokensOf(r)')
      BY <1>4, <3>1, <3>2, <3>3, MovedLoose
    <3> QED BY <1>1, <1>3, <1>4, <3>1, <3>2, <3>4
  <2>2. \A r \in roots' \ {Root'} :
           /\ r \in Live' /\ r \notin ToSet(interior)'
           /\ Loose(ir', original'[Root'].block, original'[r].block, TokensOf(r)')
    BY <1>1, <2>1
  <2>3. Root' \in Live'
    BY <1>1, <1>3, <1>4
  <2> QED BY <1>1, <2>2, <2>3 DEF Structure, RootsOK, InChain
<1>19. InteriorOK'
  <2>1. ASSUME NEW k \in 1 .. Len(interior)
        PROVE  /\ ir'[interior[k]].kind = "add" /\ UsesIn(ir', interior[k]) = UsesIn(ir, interior[k])
    <3>1. interior[k] \in Live /\ interior[k] \in ToSet(interior)
      BY <1>4, ToSetFacts
    <3>2. ir[interior[k]].kind = "add"
      BY <1>1 DEF Structure, InteriorOK, InChain
    <3>3. a.value # interior[k] /\ b.value # interior[k]
      BY <1>8, <1>9, <3>1
    <3>4. \A u, e : <<u, e>> \in UsesIn(ir', interior[k]) <=> <<u, e>> \in UsesIn(ir, interior[k])
      BY <1>3, <3>3
    <3>5. \A t \in UsesIn(ir', interior[k]) \cup UsesIn(ir, interior[k]) : t = <<t[1], t[2]>>
      BY UsesFacts
    <3>6. UsesIn(ir', interior[k]) = UsesIn(ir, interior[k])
      <4>1. PICK A, B : A = UsesIn(ir', interior[k]) /\ B = UsesIn(ir, interior[k])
        OBVIOUS
      <4>2. \A t \in A \cup B : t = <<t[1], t[2]>>
        BY <3>5, <4>1
      <4>3. \A u, e : <<u, e>> \in A <=> <<u, e>> \in B
        BY <3>4, <4>1
      <4>4. A = B
        <5>1. ASSUME NEW t \in A PROVE t \in B
          BY ONLY <4>2, <4>3, <5>1
        <5>2. ASSUME NEW t \in B PROVE t \in A
          BY ONLY <4>2, <4>3, <5>2
        <5> QED BY <5>1, <5>2
      <4> QED BY <4>1, <4>4
    <3> QED BY <1>3, <3>1, <3>2, <3>6
  <2>2. (interior \in Seq(Live))'
    BY <1>1, <1>3, <1>4
  <2>3. (Len(interior) >= 1 /\ interior[1] = Root)'
    BY <1>1 DEF Structure, InteriorOK
  <2>4. (\A e, k \in 1 .. Len(interior) : interior[e] = interior[k] => e = k)'
    BY <1>1 DEF Structure, InteriorOK, InChain
  <2>5. \A k \in 1 .. Len(interior') :
            /\ ir'[interior'[k]].kind = "add"
            /\ (k > 1) =>
                 \A use \in UsesIn(ir', interior'[k]) : \E e \in 1 .. k - 1 : use[1] = interior'[e]
    BY <1>1, <2>1 DEF Structure, InteriorOK, InChain
  <2> QED BY <1>1, <2>2, <2>3, <2>4, <2>5 DEF InteriorOK, InChain
<1>20. LeavesOK'
  <2>1. (leaves \in Seq(Live))'
    BY <1>1, <1>3, <1>4
  <2> QED BY <1>1, <2>1 DEF Structure, LeavesOK, InChain
<1>21. GatherOK'
  <2>1. (worklist \in Seq(Live))'
    BY <1>1, <1>3, <1>4
  <2> QED BY <1>1, <1>4, <2>1 DEF GatherOK
<1>22. HeapOK'
  <2>1. Nodes(heap', seq', Live') /\ Cardinality(heap') = Cardinality(heap) - 2 + 1
    <3>1. Nodes(heap \ {a, b}, seq, Live) /\ Cardinality(heap \ {a, b}) = Cardinality(heap) - 2
      BY <1>2 DEF CombineOf
    <3>2. PICK h, W : h = heap \ {a, b} /\ W = Live'
      OBVIOUS
    <3>3. Live \subseteq W /\ s \in W /\ b.rank + 1 \in Nat
      BY <1>2, <1>3, <3>2 DEF CombineOf
    <3>4. Nodes(h \cup {c}, seq + 1, W) /\ Cardinality(h \cup {c}) = Cardinality(h) + 1
      BY <1>5, <3>1, <3>2, <3>3, NodesWith
    <3>5. heap' = h \cup {c}
      BY <1>6, <3>2
    <3>6. Cardinality(h) = Cardinality(heap) - 2
      BY <3>1, <3>2
    <3> QED BY <1>1, <3>2, <3>4, <3>5, <3>6
  <2>2. Cardinality(heap') = IF seq' <= Len(leaves') THEN seq' ELSE 2 * Len(leaves') - seq'
    <3>1. Cardinality(heap) = IF seq <= Len(leaves) THEN seq ELSE 2 * Len(leaves) - seq
      BY <1>1, RankFacts
    <3>2. Cardinality(heap) = 2 * Len(leaves) - seq
      BY <1>1, <1>4, <3>1
    <3> QED BY <1>1, <1>4, <2>1, <3>2
  <2>3. \A x \in heap' : /\ x.value \notin ToSet(interior)
                         /\ IF x.seq < Len(leaves) THEN x.value = leaves[x.seq + 1]
                            ELSE x.value \notin DOMAIN original \cup ToSet(leaves)
    <3> SUFFICES ASSUME NEW x \in heap'
                 PROVE  /\ x.value \notin ToSet(interior)
                        /\ IF x.seq < Len(leaves) THEN x.value = leaves[x.seq + 1]
                           ELSE x.value \notin DOMAIN original \cup ToSet(leaves)
      OBVIOUS
    <3>1. CASE x = c
      <4>1. ~ (x.seq < Len(leaves))
        BY <1>1, <1>4, <1>6, <3>1
      <4> QED BY <1>6, <1>7, <3>1, <4>1
    <3>2. CASE x # c
      <4>1. x \in heap
        BY <1>6, <3>2
      <4> QED BY <1>8, <4>1
    <3> QED BY <3>1, <3>2
  <2>4. \E x \in heap' : x.seq = seq' - 1
    BY <1>1, <1>4, <1>6
  <2>5. Len(leaves) = Len(interior) + 1
    BY <1>1, RankFacts
  <2> QED BY <1>1, <1>4, <2>1, <2>2, <2>3, <2>4, <2>5 DEF HeapOK
<1>23. CountOK'
  <2>1. Adds(ir') = Adds(ir) \cup {s} /\ s \notin Adds(ir)
    BY <1>3 DEF Adds, Live
  <2>2. IsFiniteSet(Adds(ir)) /\ IsFiniteSet(Adds(original))
    BY <1>4, AddsFinite
  <2>3. Cardinality(Adds(ir')) = Cardinality(Adds(ir)) + 1
    <3>1. PICK A, B : A = Adds(ir) /\ B = Adds(ir')
      OBVIOUS
    <3>2. Cardinality(A \cup {s}) = Cardinality(A) + 1
      BY <2>1, <2>2, <3>1, FS_AddElement
    <3>3. B = A \cup {s}
      BY <2>1, <3>1
    <3> QED BY <3>1, <3>2, <3>3
  <2>4. Cardinality(Adds(ir)) \in Nat /\ Cardinality(Adds(original)) \in Nat
    BY <2>2, FS_CardinalityType
  <2>5. Cardinality(Adds(ir)) = Cardinality(Adds(original)) + (IF seq > Len(leaves) THEN seq - Len(leaves) ELSE 0)
    BY <1>1, <2>4 DEF Structure, CountOK
  <2>6. Cardinality(Adds(ir')) = Cardinality(Adds(original)) + (seq + 1 - Len(leaves))
    BY <1>1, <1>4, <2>3, <2>4, <2>5
  <2>7. seq + 1 > Len(leaves)
    BY <1>1, <1>4
  <2>8. (CASE pc' = "rank" /\ seq' > Len(leaves') -> seq' - Len(leaves')
           [] pc' = "erase" -> Len(interior')
           [] OTHER -> 0) = seq + 1 - Len(leaves)
    <3>1. pc' = "rank" /\ pc' # "erase" /\ seq' > Len(leaves')
      BY <1>1, <2>7
    <3>2. seq' - Len(leaves') = seq + 1 - Len(leaves)
      BY <1>1, <1>4
    <3>3. PICK p, q, e, f : p = (pc' = "rank" /\ seq' > Len(leaves')) /\ q = (pc' = "erase")
                         /\ e = seq' - Len(leaves') /\ f = Len(interior')
      OBVIOUS
    <3>4. (CASE p -> e [] q -> f [] OTHER -> 0) = e
      BY ONLY <3>1, <3>3
    <3> QED BY <3>2, <3>3, <3>4
  <2> QED BY <1>1, <2>6, <2>8 DEF CountOK
<1> QED BY <1>15, <1>16, <1>17, <1>18, <1>19, <1>20, <1>21, <1>22, <1>23 DEF Structure

\* Uses that stay near what they were near to keep a root.
LEMMA KeptLoose ==
  ASSUME NEW G, NEW H, NEW rb, NEW b, NEW T,
         \A e \in T : IsNear(G, rb, b, e) <=> IsNear(H, rb, b, e),
         Loose(G, rb, b, T)
  PROVE  Loose(H, rb, b, T)
  BY DEF Loose

\* The first addition of the interior goes: x is that addition, and top the
\* value that takes its uses (x where it has none).
Peel(x, top) ==
  /\ pc \in {"rank", "erase"} /\ pc' = "erase"
  /\ interior # <<>> /\ x = interior[1] /\ interior' = Tail(interior)
  /\ worklist' = worklist /\ leaves' = leaves /\ seq' = seq /\ heap' = heap
  /\ inOrder' = inOrder /\ roots' = roots /\ original' = original
  /\ seq >= Len(leaves) /\ \A y \in heap : y.seq >= Len(leaves)
  /\ Cardinality(Adds(ir)) = Cardinality(Adds(original)) + Len(interior)
  /\ \E v \in Live \ ToSet(interior) : \A u \in DOMAIN original : u <= v
  /\ top = x \/ top \notin DOMAIN original \cup ToSet(interior)
  /\ Graph(ir') /\ DOMAIN ir' = Live \ {x}
  /\ \A u \in DOMAIN ir' : ir'[u].kind = ir[u].kind /\ ir'[u].block = ir[u].block
  /\ \A v \in Live \ {x, top} : \A u, k :
       <<u, k>> \in UsesIn(ir', v) <=> <<u, k>> \in UsesIn(ir, v) /\ u # x

\* Taking the first addition of the interior away keeps the structure.
LEMMA PeelStructure ==
  ASSUME Structure, NEW x, NEW top, Peel(x, top)
  PROVE  Structure'
<1>1. /\ pc \in {"rank", "erase"} /\ pc' = "erase"
      /\ interior # <<>> /\ x = interior[1] /\ interior' = Tail(interior)
      /\ worklist' = worklist /\ leaves' = leaves /\ seq' = seq /\ heap' = heap
      /\ inOrder' = inOrder /\ roots' = roots /\ original' = original
      /\ top = x \/ top \notin DOMAIN original \cup ToSet(interior)
  BY DEF Peel
<1>2. /\ Graph(ir') /\ Live' = Live \ {x}
      /\ \A u \in Live' : u \in Live /\ ir'[u].kind = ir[u].kind /\ ir'[u].block = ir[u].block
      /\ \A v \in Live \ {x, top} : \A u, k :
           <<u, k>> \in UsesIn(ir', v) <=> <<u, k>> \in UsesIn(ir, v) /\ u # x
  BY DEF Peel, Live
<1>3. /\ Graph(ir) /\ Graph(original) /\ interior \in Seq(Live) /\ leaves \in Seq(Live)
      /\ worklist = <<>>
  BY <1>1 DEF Structure, ProgramOK, OriginalOK, InteriorOK, LeavesOK, GatherOK
<1>4. PICK n : n = Len(interior)
  OBVIOUS
<1>5. /\ n \in Nat \ {0} /\ x \in Live /\ Tail(interior) \in Seq(Live) /\ Len(interior') = n - 1
      /\ \A j \in 1 .. n - 1 : interior'[j] = interior[j + 1]
  <2>1. PICK w, V : w = interior /\ V = Live
    OBVIOUS
  <2>2. w \in Seq(V) /\ w # <<>> /\ n = Len(w)
    BY <1>1, <1>3, <1>4, <2>1
  <2>3. /\ n \in Nat \ {0} /\ w[1] \in V /\ Tail(w) \in Seq(V) /\ Len(Tail(w)) = n - 1
        /\ \A j \in 1 .. n - 1 : Tail(w)[j] = w[j + 1]
    BY ONLY <2>2, TailFacts
  <2> QED BY <1>1, <2>1, <2>3
<1>6. /\ \A i, j \in 1 .. n : interior[i] = interior[j] => i = j
      /\ \A j \in 1 .. n : interior[j] \in Live /\ ir[interior[j]].kind = "add"
      /\ \A j \in 2 .. n : \A use \in UsesIn(ir, interior[j]) :
           \E i \in 1 .. j - 1 : use[1] = interior[i]
  <2>1. \A i, j \in 1 .. n : interior[i] = interior[j] => i = j
    BY <1>1, <1>4 DEF Structure, InteriorOK, InChain
  <2>2. \A j \in 1 .. n : interior[j] \in Live /\ ir[interior[j]].kind = "add"
    BY <1>1, <1>3, <1>4 DEF Structure, InteriorOK, InChain
  <2>3. ASSUME NEW j \in 2 .. n
        PROVE  \A use \in UsesIn(ir, interior[j]) : \E i \in 1 .. j - 1 : use[1] = interior[i]
    <3>1. j \in 1 .. Len(interior) /\ j > 1
      BY <1>4, <1>5
    <3> QED BY <1>1, <3>1 DEF Structure, InteriorOK, InChain
  <2> QED BY <2>1, <2>2, <2>3
<1>7. \A v : v \in ToSet(interior) <=> \E j \in 1 .. n : interior[j] = v
  BY <1>3, <1>4, ToSetFacts
<1>8. x \in ToSet(interior) /\ ToSet(interior') = ToSet(interior) \ {x}
  <2>1. \A v : v \in ToSet(interior') <=> \E j \in 1 .. n - 1 : interior'[j] = v
    <3>1. \A v : v \in ToSet(interior') <=> \E j \in 1 .. Len(interior') : interior'[j] = v
      <4>1. PICK w : w = interior' /\ w \in Seq(Live)
        BY <1>1, <1>5
      <4>2. \A v : v \in ToSet(w) <=> \E j \in 1 .. Len(w) : w[j] = v
        BY <4>1, ToSetFacts
      <4> QED BY <4>1, <4>2
    <3> QED BY <1>5, <3>1
  <2>2. 1 \in 1 .. n
    BY <1>5
  <2>3. ASSUME NEW v \in ToSet(interior') PROVE v \in ToSet(interior) /\ v # x
    <3>1. PICK j \in 1 .. n - 1 : interior[j + 1] = v
      BY <1>5, <2>1
    <3>2. j + 1 \in 1 .. n /\ j + 1 # 1
      BY <1>5
    <3> QED BY <1>1, <1>6, <1>7, <2>2, <3>1, <3>2
  <2>4. ASSUME NEW v \in ToSet(interior), v # x PROVE v \in ToSet(interior')
    <3>1. PICK j \in 1 .. n : interior[j] = v
      BY <1>7
    <3>2. j # 1
      BY <1>1, <2>4, <3>1
    <3>3. j - 1 \in 1 .. n - 1 /\ (j - 1) + 1 = j
      BY <1>5, <3>2
    <3>4. interior'[j - 1] = v
      BY <1>5, <3>1, <3>3
    <3> QED BY <2>1, <3>3, <3>4
  <2>5. x \in ToSet(interior)
    BY <1>1, <1>7, <2>2
  <2> QED BY <2>3, <2>4, <2>5
<1>9. StateOK' /\ OriginalOK'
  BY <1>1 DEF Structure, StateOK, OriginalOK
<1>10. ProgramOK'
  <2>1. x \in DOMAIN original => original[x].kind = "add"
    <3>1. ir[x].kind = "add"
      <4>1. 1 \in 1 .. n
        BY <1>5
      <4> QED BY <1>1, <1>6, <4>1
    <3> QED BY <1>5, <3>1 DEF Structure, ProgramOK
  <2>2. (\A v \in DOMAIN original : original[v].kind # "add" => v \in Live)'
    BY <1>1, <1>2, <2>1 DEF Structure, ProgramOK
  <2>3. (\A v \in Live \cap DOMAIN original :
           ir[v].kind = original[v].kind /\ ir[v].block = original[v].block)'
    BY <1>1, <1>2 DEF Structure, ProgramOK
  <2>4. (\A v \in Live \ DOMAIN original : ir[v].kind = "add")'
    BY <1>1, <1>2 DEF Structure, ProgramOK
  <2> QED BY <1>1, <1>2, <2>2, <2>3, <2>4 DEF ProgramOK
<1>11. NumbersOK'
  <2>1. PICK v \in Live \ ToSet(interior) : \A u \in DOMAIN original : u <= v
    BY DEF Peel
  <2>2. v \in Live' /\ v \notin ToSet(interior')
    BY <1>2, <1>8
  <2> QED BY <1>1, <2>1, <2>2 DEF NumbersOK
<1>12. RootsOK'
  <2>1. ASSUME NEW r \in roots \ {Root}
        PROVE  /\ r \in Live' /\ r \notin ToSet(interior')
               /\ Loose(ir', original[Root].block, original[r].block, TokensOf(r)')
    <3>1. /\ r \in Live /\ r \notin ToSet(interior) /\ r \in DOMAIN original
          /\ Loose(ir, original[Root].block, original[r].block, TokensOf(r))
      BY <1>1 DEF Structure, RootsOK, InChain
    <3>2. r # x /\ r # top
      BY <1>1, <1>8, <3>1
    <3>3. PICK T, S, O, I, J : /\ T = TokensOf(r) /\ S = TokensOf(r)' /\ O = Open
                              /\ I = ToSet(interior) /\ J = ToSet(interior')
      OBVIOUS
    <3>4. O = Open'
      BY <1>1, <3>3 DEF Open
    <3>5. T = Tokens(ir, I, worklist, leaves, O, r) /\ S = Tokens(ir', J, worklist, leaves, O, r)
      BY <1>1, <3>3, <3>4 DEF TokensOf
    <3>6. /\ \A t \in UsesIn(ir, r) \cup UsesIn(ir', r) : t = <<t[1], t[2]>>
          /\ \A t \in UsesIn(ir, r) : t[1] \in Live
      BY <1>2, <1>3, UsesFacts, UsesOfGraph DEF Live
    <3>7. \A t : t \in UsesIn(ir', r) <=> t \in UsesIn(ir, r) /\ t[1] # x
      <4>1. \A u, k : <<u, k>> \in UsesIn(ir', r) <=> <<u, k>> \in UsesIn(ir, r) /\ u # x
        BY <1>2, <3>1, <3>2
      <4> QED BY <3>6, <4>1
    <3>8. \A t : t \in S <=> t \in T
      <4>1. x \in I /\ J = I \ {x}
        BY <1>8, <3>3
      <4>2. \A t : t \in T <=>
              \/ t \in UsesIn(ir, r) /\ t[1] \notin I
              \/ \E i \in 1 .. Len(worklist) : t = <<-1, i>> /\ worklist[i] = r
              \/ \E i \in O : t = <<-2, i>> /\ leaves[i] = r
        BY <3>5, TokenFacts
      <4>3. \A t : t \in S <=>
              \/ t \in UsesIn(ir', r) /\ t[1] \notin J
              \/ \E i \in 1 .. Len(worklist) : t = <<-1, i>> /\ worklist[i] = r
              \/ \E i \in O : t = <<-2, i>> /\ leaves[i] = r
        BY <3>5, TokenFacts
      <4> QED BY <3>7, <4>1, <4>2, <4>3
    <3>9. PICK rb, b : rb = original[Root].block /\ b = original[r].block
      OBVIOUS
    <3>10. ASSUME NEW e \in T PROVE IsNear(ir, rb, b, e) <=> IsNear(ir', rb, b, e)
      <4>1. CASE e[1] >= 0
        <5>1. e \in UsesIn(ir', r)
          <6>1. \/ e \in UsesIn(ir', r) /\ e[1] \notin J
                \/ \E i \in 1 .. Len(worklist) : e = <<-1, i>> /\ worklist[i] = r
                \/ \E i \in O : e = <<-2, i>> /\ leaves[i] = r
            BY <3>5, <3>8, TokenFacts
          <6>2. ~ (-1 >= 0) /\ ~ (-2 >= 0)
            OBVIOUS
          <6>3. \A i : <<-1, i>>[1] = -1 /\ <<-2, i>>[1] = -2
            OBVIOUS
          <6> QED BY <4>1, <6>1, <6>2, <6>3
        <5>2. e[1] \in Live'
          BY <1>2, <5>1, UsesOfGraph DEF Live
        <5> QED BY <1>2, <5>2 DEF IsNear
      <4>2. CASE ~ (e[1] >= 0)
        BY <4>2 DEF IsNear
      <4> QED BY <4>1, <4>2
    <3>11. Loose(ir', rb, b, T)
      <4>1. Loose(ir, rb, b, T)
        BY <3>1, <3>3, <3>9
      <4>2. PICK H : H = ir'
        OBVIOUS
      <4>3. \A e \in T : IsNear(ir, rb, b, e) <=> IsNear(H, rb, b, e)
        BY <3>10, <4>2
      <4>4. Loose(H, rb, b, T)
        BY ONLY <4>1, <4>3, KeptLoose
      <4> QED BY <4>2, <4>4
    <3>12. Loose(ir', rb, b, S)
      BY ONLY <3>8, <3>11 DEF Loose
    <3> QED BY <1>2, <1>8, <3>1, <3>2, <3>3, <3>9, <3>12
  <2>2. Root' = Root
    BY <1>1, SameRoot
  <2>3. \A r \in roots' \ {Root'} :
           /\ r \in Live' /\ r \notin ToSet(interior)'
           /\ Loose(ir', original'[Root'].block, original'[r].block, TokensOf(r)')
    BY <1>1, <2>1, <2>2
  <2> QED BY <1>1, <2>2, <2>3 DEF Structure, RootsOK, InChain
<1>13. InteriorOK'
  <2>1. interior' \in Seq(Live')
    <3>1. \A j \in 1 .. n - 1 : interior'[j] \in Live'
      <4> SUFFICES ASSUME NEW j \in 1 .. n - 1 PROVE interior'[j] \in Live'
        OBVIOUS
      <4>1. j + 1 \in 1 .. n /\ j + 1 # 1 /\ 1 \in 1 .. n
        BY <1>5
      <4> QED BY <1>1, <1>2, <1>5, <1>6, <4>1
    <3>2. PICK w, W : w = interior' /\ W = Live' /\ w \in Seq(Live) /\ Len(w) = n - 1
      BY <1>1, <1>5
    <3>3. w \in Seq(W)
      BY <3>1, <3>2, NarrowSeq
    <3> QED BY <3>2, <3>3
  <2>2. ASSUME NEW i \in 1 .. n - 1, NEW j \in 1 .. n - 1, interior'[i] = interior'[j] PROVE i = j
    <3>1. i + 1 \in 1 .. n /\ j + 1 \in 1 .. n /\ (i + 1 = j + 1 => i = j)
      BY <1>5
    <3> QED BY <1>5, <1>6, <2>2, <3>1
  <2>3. ASSUME NEW j \in 1 .. n - 1
        PROVE  /\ ir'[interior'[j]].kind = "add"
               /\ \A use \in UsesIn(ir', interior'[j]) : \E i \in 1 .. j - 1 : use[1] = interior'[i]
    <3>1. j + 1 \in 1 .. n /\ j + 1 \in 2 .. n /\ j + 1 # 1 /\ 1 \in 1 .. n
      BY <1>5
    <3>2. PICK v : v = interior[j + 1]
      OBVIOUS
    <3>3. interior'[j] = v /\ v \in Live /\ v # x /\ v \in ToSet(interior) /\ ir[v].kind = "add"
      BY <1>1, <1>5, <1>6, <1>7, <3>1, <3>2
    <3>4. v # top
      BY <1>1, <3>3
    <3>5. ASSUME NEW use \in UsesIn(ir', v) PROVE \E i \in 1 .. j - 1 : use[1] = interior'[i]
      <4>1. use = <<use[1], use[2]>>
        BY UsesFacts
      <4>2. use \in UsesIn(ir, v) /\ use[1] # x
        BY <1>2, <3>3, <3>4, <4>1
      <4>3. PICK i \in 1 .. (j + 1) - 1 : use[1] = interior[i]
        BY <1>6, <3>1, <3>2, <4>2
      <4>4. i # 1
        BY <1>1, <4>2, <4>3
      <4>5. i - 1 \in 1 .. j - 1 /\ i - 1 \in 1 .. n - 1 /\ (i - 1) + 1 = i
        BY <1>5, <4>4
      <4>6. use[1] = interior'[i - 1]
        BY <1>5, <4>3, <4>5
      <4> QED BY <4>5, <4>6
    <3>6. ir'[v].kind = "add"
      BY <1>2, <3>3
    <3> QED BY <3>3, <3>5, <3>6
  <2> QED BY <1>1, <1>5, <2>1, <2>2, <2>3 DEF InteriorOK, InChain
<1>14. LeavesOK'
  <2>1. \A i \in 1 .. Len(leaves) : leaves[i] \in Live /\ leaves[i] \notin ToSet(interior)
    BY <1>1, <1>3 DEF Structure, LeavesOK, InChain
  <2>2. \A i \in 1 .. Len(leaves) : leaves[i] \in Live' /\ leaves[i] \notin ToSet(interior')
    BY <1>2, <1>8, <2>1
  <2>3. leaves \in Seq(Live')
    <3>1. PICK W : W = Live'
      OBVIOUS
    <3>2. leaves \in Seq(W)
      BY <1>3, <2>2, <3>1, NarrowSeq
    <3> QED BY <3>1, <3>2
  <2> QED BY <1>1, <2>2, <2>3 DEF LeavesOK
<1>15. GatherOK'
  <2>1. worklist' \in Seq(Live') /\ worklist' = <<>>
    BY <1>1, <1>3
  <2> QED BY <1>1, <2>1 DEF GatherOK
<1>16. HeapOK'
  <2>1. Nodes(heap, seq, Live) /\ \A y \in heap : y.value \notin ToSet(interior)
    BY <1>1 DEF Structure, HeapOK
  <2>2. Nodes(heap, seq, Live')
    <3>1. ASSUME NEW y \in heap PROVE y \in [value : Live', rank : Nat, seq : 0 .. seq - 1]
      <4>1. y \in [value : Live, rank : Nat, seq : 0 .. seq - 1]
        BY <2>1 DEF Nodes
      <4>2. y.value \in Live'
        BY <1>2, <1>8, <2>1, <4>1
      <4>3. PICK v, r, q : /\ v \in Live /\ r \in Nat /\ q \in 0 .. seq - 1
                           /\ y = [value |-> v, rank |-> r, seq |-> q]
        BY <4>1
      <4>4. y.value = v
        BY <4>3
      <4> QED BY <4>2, <4>3, <4>4
    <3> QED BY <2>1, <3>1 DEF Nodes
  <2>3. seq >= Len(leaves) /\ \A y \in heap : y.seq >= Len(leaves)
    BY DEF Peel
  <2>4. \A y \in heap : y.value \notin ToSet(interior')
    BY <1>8, <2>1
  <2> QED BY <1>1, <2>2, <2>3, <2>4 DEF HeapOK
<1>17. CountOK'
  <2>1. Adds(ir') = Adds(ir) \ {x} /\ x \in Adds(ir)
    <3>1. ir[x].kind = "add"
      <4>1. 1 \in 1 .. n
        BY <1>5
      <4> QED BY <1>1, <1>6, <4>1
    <3> QED BY <1>2, <1>5, <3>1 DEF Adds, Live
  <2>2. IsFiniteSet(Adds(ir)) /\ IsFiniteSet(Adds(original))
    BY <1>3, AddsFinite
  <2>3. Cardinality(Adds(ir')) = Cardinality(Adds(ir)) - 1
    <3>1. PICK A, B : A = Adds(ir) /\ B = Adds(ir')
      OBVIOUS
    <3>2. Cardinality(A \ {x}) = Cardinality(A) - 1
      BY <2>1, <2>2, <3>1, FS_RemoveElement
    <3>3. B = A \ {x}
      BY <2>1, <3>1
    <3> QED BY <3>1, <3>2, <3>3
  <2>4. Cardinality(Adds(ir)) \in Nat /\ Cardinality(Adds(original)) \in Nat
    BY <2>2, FS_CardinalityType
  <2>5. Cardinality(Adds(ir)) = Cardinality(Adds(original)) + n
    BY <1>4 DEF Peel
  <2>6. Cardinality(Adds(ir')) = Cardinality(Adds(original)) + Len(interior')
    BY <1>5, <2>3, <2>4, <2>5
  <2> QED BY <1>1, <2>6 DEF CountOK
<1> QED BY <1>9, <1>10, <1>11, <1>12, <1>13, <1>14, <1>15, <1>16, <1>17 DEF Structure

\* What the replacement of the root does.
ReplaceOf(x, top) ==
  /\ x = Least(heap) /\ heap = {x} /\ top = x.value /\ x.rank \in Nat
  /\ x.seq >= Len(leaves) /\ seq = 2 * Len(leaves) - 1
  /\ top \in Live \ {Root} /\ top \notin DOMAIN original \cup ToSet(interior) \cup ToSet(leaves)
  /\ ir' = ReplacedIn(ir, Root, top)
  /\ Rewired(ir, ir', Root, top)

\* The root is peeled off, and its uses are the last node's.
LEMMA ReplaceFacts ==
  ASSUME Structure, Replace
  PROVE  \E x, top : ReplaceOf(x, top) /\ Peel(Root, top)
<1>1. /\ pc = "rank" /\ pc' = "erase" /\ seq >= Len(leaves) /\ Cardinality(heap) = 1
      /\ ir' = Replaced(Root, Least(heap).value) /\ interior' = Tail(interior)
      /\ worklist' = worklist /\ leaves' = leaves /\ seq' = seq /\ heap' = heap
      /\ inOrder' = inOrder /\ roots' = roots /\ original' = original
  BY DEF Replace
<1>2. PICK x, top : x = Least(heap) /\ top = x.value
  OBVIOUS
<1>3. /\ Nodes(heap, seq, Live) /\ seq \in Nat /\ Len(leaves) \in Nat /\ Len(leaves) >= 3
      /\ Cardinality(heap) = IF seq <= Len(leaves) THEN seq ELSE 2 * Len(leaves) - seq
      /\ Len(leaves) = Len(interior) + 1 /\ Root \in Live /\ Graph(ir) /\ Graph(original)
      /\ interior[1] = Root
      /\ \A v : v \in ToSet(interior) <=> \E j \in 1 .. Len(interior) : interior[j] = v
      /\ Len(interior) \in Nat \ {0}
  BY <1>1, RankFacts
<1>4. x \in heap /\ heap = {x}
  BY <1>1, <1>2, <1>3, OneLeast
<1>5. seq = 2 * Len(leaves) - 1 /\ seq > Len(leaves) /\ seq - 1 >= Len(leaves)
  BY <1>1, <1>3
<1>6. x.seq = seq - 1
  BY <1>1, <1>4, <1>5 DEF Structure, HeapOK
<1>7. /\ x.rank \in Nat /\ top \in Live
  BY <1>2, <1>3, <1>4, NodeFacts
<1>8. top \notin DOMAIN original \cup ToSet(leaves) /\ top \notin ToSet(interior)
  <2>1. ~ (x.seq < Len(leaves))
    BY <1>3, <1>5, <1>6
  <2> QED BY <1>1, <1>2, <1>4, <2>1 DEF Structure, HeapOK
<1>9. Root \in ToSet(interior) /\ top # Root
  <2>1. 1 \in 1 .. Len(interior)
    BY <1>3
  <2>2. Root \in ToSet(interior)
    BY <1>3, <2>1
  <2> QED BY <1>8, <2>2
<1>10. ir' = ReplacedIn(ir, Root, top)
  BY <1>1, <1>2 DEF Replaced, ReplacedIn, Live
<1>11. Rewired(ir, ir', Root, top)
  BY <1>3, <1>7, <1>9, <1>10, ReplacedFacts DEF Live
<1>12. ReplaceOf(x, top)
  BY <1>2, <1>4, <1>5, <1>6, <1>7, <1>8, <1>9, <1>10, <1>11 DEF ReplaceOf
<1>13. /\ Graph(ir') /\ DOMAIN ir' = Live \ {Root}
       /\ \A u \in DOMAIN ir' : ir'[u].kind = ir[u].kind /\ ir'[u].block = ir[u].block
       /\ \A v \in Live \ {Root, top} : \A u, k :
            <<u, k>> \in UsesIn(ir', v) <=> <<u, k>> \in UsesIn(ir, v) /\ u # Root
  BY <1>11 DEF Rewired, Live
<1>14. \E v \in Live \ ToSet(interior) : \A u \in DOMAIN original : u <= v
  <2>1. PICK n \in Nat : DOMAIN original = 0 .. n
    BY DEF Structure, OriginalOK
  <2>2. top \in Nat
    BY <1>3, <1>7 DEF Graph, Live
  <2>3. top > n
    BY <1>8, <2>1, <2>2
  <2>4. \A u \in DOMAIN original : u <= top
    BY <2>1, <2>2, <2>3
  <2> QED BY <1>7, <1>8, <2>4
<1>15. Cardinality(Adds(ir)) = Cardinality(Adds(original)) + Len(interior)
  <2>1. Cardinality(Adds(ir)) = Cardinality(Adds(original)) + (seq - Len(leaves))
    BY <1>1, <1>5 DEF Structure, CountOK
  <2>2. seq - Len(leaves) = Len(interior)
    BY <1>3, <1>5
  <2> QED BY <2>1, <2>2
<1>16. interior # <<>>
  BY <1>3
<1>17. \A y \in heap : y.seq >= Len(leaves)
  BY <1>4, <1>5, <1>6
<1>18. Peel(Root, top)
  BY <1>1, <1>3, <1>8, <1>13, <1>14, <1>15, <1>16, <1>17 DEF Peel
<1> QED BY <1>12, <1>18

\* What an erasure does.
LEMMA EraseFacts ==
  ASSUME Structure, EraseInterior
  PROVE  \E x : /\ x = Head(interior) /\ x \in Live
                /\ ir' = Without(ir, {x}) /\ Erased(ir, ir', x) /\ Peel(x, x)
<1>1. /\ pc = "erase" /\ pc' = "erase" /\ interior # <<>>
      /\ ir' = Without(ir, {Head(interior)}) /\ interior' = Tail(interior)
      /\ worklist' = worklist /\ leaves' = leaves /\ seq' = seq /\ heap' = heap
      /\ inOrder' = inOrder /\ roots' = roots /\ original' = original
  BY DEF EraseInterior
<1>2. PICK x : x = Head(interior)
  OBVIOUS
<1>3. /\ Graph(ir) /\ interior \in Seq(Live) /\ x = interior[1] /\ x \in Live
      /\ Len(interior) \in Nat \ {0}
  <2>1. Graph(ir) /\ interior \in Seq(Live)
    BY DEF Structure, ProgramOK, InteriorOK
  <2> QED BY <1>1, <1>2, <2>1
<1>4. UsesIn(ir, x) = {}
  <2>1. 1 \in 1 .. Len(interior)
    BY <1>3
  <2>2. \A use \in UsesIn(ir, x) : \E i \in 1 .. 1 - 1 : use[1] = interior[i]
    BY <1>1, <1>3, <2>1 DEF Structure, InteriorOK, InChain
  <2>3. 1 .. 1 - 1 = {}
    OBVIOUS
  <2> QED BY <2>2, <2>3
<1>5. Erased(ir, ir', x)
  <2>1. UsesIn(ir, x) \subseteq {x} \X {1, 2}
    BY <1>4
  <2> QED BY <1>1, <1>2, <1>3, <2>1, WithoutFacts
<1>6. /\ Graph(ir') /\ DOMAIN ir' = Live \ {x}
      /\ \A u \in DOMAIN ir' : ir'[u].kind = ir[u].kind /\ ir'[u].block = ir[u].block
      /\ \A v \in Live \ {x, x} : \A u, k :
           <<u, k>> \in UsesIn(ir', v) <=> <<u, k>> \in UsesIn(ir, v) /\ u # x
  BY <1>5 DEF Erased, Live
<1>7. seq >= Len(leaves) /\ \A y \in heap : y.seq >= Len(leaves)
  BY <1>1 DEF Structure, HeapOK
<1>8. Cardinality(Adds(ir)) = Cardinality(Adds(original)) + Len(interior)
  BY <1>1 DEF Structure, CountOK
<1>9. \E v \in Live \ ToSet(interior) : \A u \in DOMAIN original : u <= v
  BY <1>1 DEF Structure, NumbersOK
<1>10. Peel(x, x)
  BY <1>1, <1>3, <1>6, <1>7, <1>8, <1>9 DEF Peel
<1> QED BY <1>1, <1>2, <1>3, <1>5, <1>10

\* The root is replaced.
LEMMA ReplaceStructure == Structure /\ Replace => Structure'
  BY ReplaceFacts, PeelStructure

\* An addition of the interior is erased.
LEMMA EraseStructure == Structure /\ EraseInterior => Structure'
  BY EraseFacts, PeelStructure

-----------------------------------------------------------------------------
\* Sums over a list of values and over the queue's nodes.
PrefixSum(w, s, n) == Total([i \in 1 .. Len(s) |-> w[s[i]]], n)
SeqSum(w, s) == PrefixSum(w, s, Len(s))

\* Numbers are nodes of h by their seq; the others weigh nothing.
NodeWeight(w, h, i) == IF \E x \in h : x.seq = i - 1 THEN w[(CHOOSE x \in h : x.seq = i - 1).value]
                       ELSE 0
HeapSum(w, h, n) == Total([i \in 1 .. n |-> NodeWeight(w, h, i)], n)

\* The sum over the first members is an integer, and grows by the next.
LEMMA PrefixFacts ==
  ASSUME NEW V, NEW w \in [V -> Int], NEW s \in Seq(V), NEW n \in 0 .. Len(s)
  PROVE  /\ PrefixSum(w, s, n) \in Int
         /\ PrefixSum(w, s, 0) = 0
         /\ n < Len(s) => PrefixSum(w, s, n + 1) = PrefixSum(w, s, n) + w[s[n + 1]]
<1> DEFINE c == [i \in 1 .. Len(s) |-> w[s[i]]]
<1>1. Len(s) \in Nat /\ n \in Nat /\ \A i \in 1 .. Len(s) : c[i] \in Int /\ c[i] = w[s[i]]
  OBVIOUS
<1>2. Ints(c, n)
  BY <1>1 DEF Ints
<1> HIDE DEF c
<1>3. Total(c, n) \in Int /\ Total(c, 0) = 0 /\ Total(c, n + 1) = Total(c, n) + c[n + 1]
  BY <1>1, <1>2, TotalInt, TotalUnfolds
<1>4. n < Len(s) => n + 1 \in 1 .. Len(s)
  BY <1>1
<1>5. \A i : PrefixSum(w, s, i) = Total(c, i)
  BY DEF PrefixSum, c
<1> QED BY <1>1, <1>3, <1>4, <1>5

\* One more member at the end.
Longer(V, w, s, t) ==
  /\ w \in [V -> Int] /\ s \in Seq(V) /\ t \in Seq(V)
  /\ Len(t) = Len(s) + 1 /\ \A i \in 1 .. Len(s) : t[i] = s[i]

\* The sum over a list that is longer by one.
LEMMA SeqSumGrows ==
  ASSUME NEW V, NEW w, NEW s, NEW t, Longer(V, w, s, t)
  PROVE  SeqSum(w, t) = SeqSum(w, s) + w[t[Len(t)]]
<1> USE DEF Longer
<1> DEFINE n == Len(s)
<1>1. n \in Nat /\ n \in 0 .. Len(t) /\ n < Len(t) /\ n + 1 = Len(t) /\ n \in 0 .. Len(s)
  OBVIOUS
<1>2. PrefixSum(w, t, n + 1) = PrefixSum(w, t, n) + w[t[n + 1]]
  BY <1>1, PrefixFacts
<1>3. PrefixSum(w, t, n) = PrefixSum(w, s, n)
  <2> DEFINE c == [i \in 1 .. Len(t) |-> w[t[i]]]
             d == [i \in 1 .. Len(s) |-> w[s[i]]]
  <2>1. \A i \in 1 .. n : c[i] = d[i]
    BY <1>1
  <2> HIDE DEF c, d
  <2>2. Total(c, n) = Total(d, n)
    BY <1>1, <2>1, TotalSame
  <2> QED BY <2>2 DEF PrefixSum, c, d
<1> QED BY <1>1, <1>2, <1>3 DEF SeqSum

\* The members' weights are all that counts.
LEMMA SeqSumSame ==
  ASSUME NEW V, NEW s \in Seq(V), NEW w, NEW y, NEW n \in 0 .. Len(s),
         \A i \in 1 .. n : w[s[i]] = y[s[i]]
  PROVE  PrefixSum(w, s, n) = PrefixSum(y, s, n)
<1> DEFINE c == [i \in 1 .. Len(s) |-> w[s[i]]]
           d == [i \in 1 .. Len(s) |-> y[s[i]]]
<1>1. n \in Nat /\ \A i \in 1 .. n : c[i] = d[i]
  OBVIOUS
<1> HIDE DEF c, d
<1>2. Total(c, n) = Total(d, n)
  BY <1>1, TotalSame
<1> QED BY <1>2 DEF PrefixSum, c, d

\* Lighter members weigh less.
LEMMA SeqSumLess ==
  ASSUME NEW V, NEW s \in Seq(V), NEW w \in [V -> Int], NEW y \in [V -> Int],
         \A i \in 1 .. Len(s) : w[s[i]] <= y[s[i]]
  PROVE  SeqSum(w, s) <= SeqSum(y, s)
<1> DEFINE c == [i \in 1 .. Len(s) |-> w[s[i]]]
           d == [i \in 1 .. Len(s) |-> y[s[i]]]
           n == Len(s)
<1>1. n \in Nat /\ \A i \in 1 .. n : c[i] <= d[i] /\ c[i] \in Int /\ d[i] \in Int
  OBVIOUS
<1>2. Ints(c, n) /\ Ints(d, n)
  BY <1>1 DEF Ints
<1> HIDE DEF c, d
<1>3. Total(c, n) <= Total(d, n)
  BY <1>1, <1>2, TotalLess
<1> QED BY <1>3 DEF SeqSum, PrefixSum, c, d

\* A node weighs what its value does.
LEMMA NodeWeightFacts ==
  ASSUME NEW h, NEW n, NEW V, Nodes(h, n, V), NEW w \in [V -> Int]
  PROVE  /\ n \in Nat
         /\ \A x \in h : x.seq + 1 \in 1 .. n /\ NodeWeight(w, h, x.seq + 1) = w[x.value]
         /\ \A i \in Int : (\A x \in h : x.seq # i - 1) => NodeWeight(w, h, i) = 0
         /\ \A i \in Int : NodeWeight(w, h, i) \in Int
<1>1. n \in Nat
  BY DEF Nodes
<1>2. ASSUME NEW x \in h
      PROVE  x.seq + 1 \in 1 .. n /\ NodeWeight(w, h, x.seq + 1) = w[x.value] /\ w[x.value] \in Int
  <2>1. x.seq \in 0 .. n - 1 /\ x.value \in V
    BY NodeFacts
  <2>2. x.seq + 1 \in 1 .. n /\ (x.seq + 1) - 1 = x.seq
    BY <1>1, <2>1
  <2>3. (CHOOSE y \in h : y.seq = x.seq) = x
    BY DEF Nodes
  <2> QED BY <2>1, <2>2, <2>3 DEF NodeWeight
<1>3. \A i \in Int : (\A x \in h : x.seq # i - 1) => NodeWeight(w, h, i) = 0
  BY DEF NodeWeight
<1>4. ASSUME NEW i \in Int PROVE NodeWeight(w, h, i) \in Int
  <2>1. CASE \E x \in h : x.seq = i - 1
    <3>1. PICK x \in h : x.seq = i - 1
      BY <2>1
    <3>2. x.seq + 1 = i
      BY <3>1
    <3> QED BY <1>2, <3>2
  <2>2. CASE ~ \E x \in h : x.seq = i - 1
    <3>1. NodeWeight(w, h, i) = 0
      BY <2>2 DEF NodeWeight
    <3> QED BY <3>1
  <2> QED BY <2>1, <2>2
<1> QED BY <1>1, <1>2, <1>3, <1>4

\* The queue's weight with one node less,
LEMMA HeapSumWithout ==
  ASSUME NEW h, NEW n, NEW V, Nodes(h, n, V), NEW w \in [V -> Int], NEW a \in h
  PROVE  /\ HeapSum(w, h, n) \in Int
         /\ HeapSum(w, h \ {a}, n) = HeapSum(w, h, n) - w[a.value]
<1> DEFINE c == [i \in 1 .. n |-> NodeWeight(w, h, i)]
           d == [i \in 1 .. n |-> NodeWeight(w, h \ {a}, i)]
<1>1. PICK k : k = a.seq + 1
  OBVIOUS
<1>2. Nodes(h \ {a}, n, V) /\ n \in Nat
  BY NodesWithout, NodeWeightFacts
<1>3. k \in 1 .. n /\ NodeWeight(w, h, k) = w[a.value]
  BY <1>1, NodeWeightFacts
<1>4. Ints(c, n) /\ Ints(d, n)
  <2>1. \A i \in Int : NodeWeight(w, h, i) \in Int
    BY NodeWeightFacts
  <2>2. \A i \in Int : NodeWeight(w, h \ {a}, i) \in Int
    BY <1>2, NodeWeightFacts
  <2>3. ASSUME NEW i \in 1 .. n PROVE c[i] \in Int /\ d[i] \in Int
    <3>1. i \in Int
      OBVIOUS
    <3> QED BY <2>1, <2>2, <3>1
  <2> HIDE DEF c, d
  <2> QED BY <2>3 DEF Ints
<1>5. NodeWeight(w, h \ {a}, k) = 0
  <2>1. \A x \in h \ {a} : x.seq # k - 1
    <3> SUFFICES ASSUME NEW x \in h \ {a} PROVE x.seq # k - 1
      OBVIOUS
    <3>1. a.seq \in 0 .. n - 1
      BY NodeFacts
    <3>2. k - 1 = a.seq
      BY <1>1, <3>1
    <3> QED BY <3>2 DEF Nodes
  <2>2. k \in Int
    BY <1>2, <1>3
  <2> QED BY <1>2, <2>1, <2>2, NodeWeightFacts
<1>6. ASSUME NEW i \in 1 .. n, i # k PROVE c[i] = d[i]
  <2>1. a.seq # i - 1
    <3>1. a.seq \in Int
      BY NodeFacts
    <3> QED BY <1>1, <1>2, <1>6, <3>1
  <2>2. CASE \E x \in h : x.seq = i - 1
    <3>1. PICK x \in h : x.seq = i - 1
      BY <2>2
    <3>2. x \in h \ {a} /\ x.seq + 1 = i
      BY <1>2, <2>1, <3>1
    <3>3. NodeWeight(w, h, i) = w[x.value] /\ NodeWeight(w, h \ {a}, i) = w[x.value]
      BY <1>2, <3>1, <3>2, NodeWeightFacts
    <3> QED BY <3>3
  <2>3. CASE \A x \in h : x.seq # i - 1
    <3>1. NodeWeight(w, h, i) = 0 /\ NodeWeight(w, h \ {a}, i) = 0
      BY <2>3 DEF NodeWeight
    <3> QED BY <3>1
  <2> QED BY <2>2, <2>3
<1>7. c[k] = w[a.value] /\ d[k] = 0
  BY <1>3, <1>5
<1>8. HeapSum(w, h, n) = Total(c, n) /\ HeapSum(w, h \ {a}, n) = Total(d, n)
  BY DEF HeapSum
<1> HIDE DEF c, d
<1>9. Total(c, n) \in Int /\ Total(d, n) = Total(c, n) - c[k] + d[k]
  BY ONLY <1>2, <1>3, <1>4, <1>6, TotalInt, TotalChange
<1>10. w[a.value] \in Int
  BY NodeFacts
<1> QED BY <1>7, <1>8, <1>9, <1>10

\* ... with a node of the next number,
Queued(V, w, h, n, v, r, g) ==
  /\ Nodes(h, n, V) /\ w \in [V -> Int] /\ v \in V /\ r \in Nat
  /\ g = h \cup {Node(v, r, n)}

\* The sum over the queue grows by the node that is pushed.
LEMMA HeapSumWith ==
  ASSUME NEW V, NEW w, NEW h, NEW n, NEW v, NEW r, NEW g, Queued(V, w, h, n, v, r, g)
  PROVE  HeapSum(w, g, n + 1) = HeapSum(w, h, n) + w[v]
<1> USE DEF Queued
<1>1. PICK e : e = Node(v, r, n) /\ g = h \cup {e}
  OBVIOUS
<1>2. e.value = v /\ e.seq = n
  BY <1>1 DEF Node
<1>3. Nodes(g, n + 1, V) /\ n \in Nat /\ e \in g
  <2>1. Nodes(h \cup {Node(v, r, n)}, n + 1, V)
    BY NodesWith
  <2> QED BY <1>1, <2>1, NodeWeightFacts
<1> DEFINE c == [i \in 1 .. n |-> NodeWeight(w, h, i)]
           d == [i \in 1 .. n + 1 |-> NodeWeight(w, g, i)]
<1>4. ASSUME NEW i \in 1 .. n PROVE c[i] = d[i]
  <2>1. i \in 1 .. n + 1 /\ n # i - 1
    BY <1>3
  <2>2. CASE \E x \in h : x.seq = i - 1
    <3>1. PICK x \in h : x.seq = i - 1
      BY <2>2
    <3>2. x \in g /\ x.seq + 1 = i
      BY <1>1, <1>3, <3>1
    <3>3. NodeWeight(w, h, i) = w[x.value] /\ NodeWeight(w, g, i) = w[x.value]
      BY <1>3, <3>1, <3>2, NodeWeightFacts
    <3> QED BY <2>1, <3>3
  <2>3. CASE \A x \in h : x.seq # i - 1
    <3>1. \A x \in g : x.seq # i - 1
      BY <1>1, <1>2, <2>1, <2>3
    <3>2. NodeWeight(w, h, i) = 0 /\ NodeWeight(w, g, i) = 0
      BY <2>3, <3>1 DEF NodeWeight
    <3> QED BY <2>1, <3>2
  <2> QED BY <2>2, <2>3
<1>5. d[n + 1] = w[v]
  <2>1. NodeWeight(w, g, n + 1) = w[v]
    BY <1>2, <1>3, NodeWeightFacts
  <2> QED BY <1>3, <2>1
<1>6. HeapSum(w, h, n) = Total(c, n) /\ HeapSum(w, g, n + 1) = Total(d, n + 1)
  BY DEF HeapSum
<1> HIDE DEF c, d
<1>7. Total(c, n) = Total(d, n) /\ Total(d, n + 1) = Total(d, n) + d[n + 1]
  BY <1>3, <1>4, TotalSame, TotalUnfolds
<1> QED BY <1>1, <1>5, <1>6, <1>7

\* ... and where every node's is a multiple of q.
Coarse(V, w, h, n, q) ==
  /\ Nodes(h, n, V) /\ w \in [V -> Int] /\ q \in Nat
  /\ \A x \in h : \E e \in Int : w[x.value] = q * e

\* A sum of multiples is a multiple.
LEMMA HeapSumMultiple ==
  ASSUME NEW V, NEW w, NEW h, NEW n, NEW q, Coarse(V, w, h, n, q)
  PROVE  \E e \in Int : HeapSum(w, h, n) = q * e
<1> USE DEF Coarse
<1> DEFINE c == [i \in 1 .. n |-> NodeWeight(w, h, i)]
<1>1. n \in Nat
  BY NodeWeightFacts
<1>2. ASSUME NEW i \in 1 .. n PROVE \E e \in Int : c[i] = q * e
  <2>1. CASE \E x \in h : x.seq = i - 1
    <3>1. PICK x \in h : x.seq = i - 1
      BY <2>1
    <3>2. x.seq + 1 = i
      BY <1>1, <3>1
    <3>3. NodeWeight(w, h, i) = w[x.value]
      BY <3>1, <3>2, NodeWeightFacts
    <3> QED BY <3>3
  <2>2. CASE \A x \in h : x.seq # i - 1
    <3>1. NodeWeight(w, h, i) = 0
      BY <2>2 DEF NodeWeight
    <3>2. 0 = q * 0 /\ 0 \in Int
      OBVIOUS
    <3> QED BY <3>1, <3>2
  <2> QED BY <2>1, <2>2
<1>3. HeapSum(w, h, n) = Total(c, n)
  BY DEF HeapSum
<1> HIDE DEF c
<1>4. \A i \in 1 .. n : \E e \in Int : c[i] = q * e
  BY <1>2
<1>5. PICK e \in Int : Total(c, n) = q * e
  BY ONLY <1>1, <1>4, q \in Nat, TotalMultiple
<1> QED BY ONLY <1>3, <1>5

\* A queue of one node weighs what that does.
LEMMA HeapSumOne ==
  ASSUME NEW h, NEW n, NEW V, Nodes(h, n, V), NEW w \in [V -> Int], NEW x, h = {x}
  PROVE  HeapSum(w, h, n) = w[x.value]
<1>1. PICK g : g = h \ {x}
  OBVIOUS
<1>2. x \in h /\ w[x.value] \in Int
  BY NodeFacts
<1>3. Nodes(g, n, V) /\ HeapSum(w, h, n) \in Int /\ HeapSum(w, g, n) = HeapSum(w, h, n) - w[x.value]
  BY <1>1, <1>2, NodesWithout, HeapSumWithout
<1>4. HeapSum(w, g, n) = 0
  <2>1. \A y \in g : \E e \in Int : w[y.value] = 0 * e
    BY <1>1
  <2>2. Coarse(V, w, g, n, 0)
    BY <1>3, <2>1 DEF Coarse
  <2>3. PICK e \in Int : HeapSum(w, g, n) = 0 * e
    BY <2>2, HeapSumMultiple
  <2> QED BY <2>3
<1> QED BY <1>2, <1>3, <1>4

\* The nodes' weights are all that counts.
LEMMA HeapSumSame ==
  ASSUME NEW h, NEW n, n \in Nat, NEW w, NEW y, \A x \in h : w[x.value] = y[x.value]
  PROVE  HeapSum(w, h, n) = HeapSum(y, h, n)
<1> DEFINE c == [i \in 1 .. n |-> NodeWeight(w, h, i)]
           d == [i \in 1 .. n |-> NodeWeight(y, h, i)]
<1>1. ASSUME NEW i \in 1 .. n PROVE c[i] = d[i]
  <2>1. CASE \E x \in h : x.seq = i - 1
    <3>1. (CHOOSE x \in h : x.seq = i - 1) \in h
      BY <2>1
    <3> QED BY <2>1, <3>1 DEF NodeWeight
  <2>2. CASE ~ \E x \in h : x.seq = i - 1
    BY <2>2 DEF NodeWeight
  <2> QED BY <2>1, <2>2
<1>2. HeapSum(w, h, n) = Total(c, n) /\ HeapSum(y, h, n) = Total(d, n)
  BY DEF HeapSum
<1> HIDE DEF c, d
<1> QED BY <1>1, <1>2, TotalSame

\* The heavier the nodes, the heavier the queue; here, none is below zero.
LEMMA HeapSumNatural ==
  ASSUME NEW h, NEW n, NEW V, Nodes(h, n, V), NEW w \in [V -> Int], \A v \in V : w[v] >= 0
  PROVE  HeapSum(w, h, n) >= 0
<1> DEFINE z == [v \in V |-> 0]
           c == [i \in 1 .. n |-> NodeWeight(z, h, i)]
           d == [i \in 1 .. n |-> NodeWeight(w, h, i)]
<1>1. z \in [V -> Int] /\ n \in Nat
  BY NodeWeightFacts
<1>2. HeapSum(z, h, n) = 0
  <2>1. ASSUME NEW x \in h PROVE \E e \in Int : z[x.value] = 0 * e
    <3>1. x.value \in V
      BY NodeFacts
    <3> QED BY <3>1
  <2> HIDE DEF z
  <2>2. \A x \in h : \E e \in Int : z[x.value] = 0 * e
    BY <2>1
  <2>3. Coarse(V, z, h, n, 0)
    BY <1>1, <2>2 DEF Coarse
  <2>4. PICK e \in Int : HeapSum(z, h, n) = 0 * e
    BY <2>3, HeapSumMultiple
  <2> QED BY <2>4
<1>3. ASSUME NEW i \in 1 .. n
      PROVE  NodeWeight(z, h, i) \in Int /\ NodeWeight(w, h, i) \in Int
             /\ NodeWeight(z, h, i) <= NodeWeight(w, h, i)
  <2>1. i \in Int
    OBVIOUS
  <2>2. CASE \E x \in h : x.seq = i - 1
    <3>1. PICK x \in h : x.seq = i - 1
      BY <2>2
    <3>2. x.seq + 1 = i
      BY <2>1, <3>1
    <3>3. x.value \in V /\ z[x.value] = 0 /\ w[x.value] \in Int /\ w[x.value] >= 0
      BY NodeFacts
    <3> HIDE DEF z
    <3>4. NodeWeight(z, h, i) = z[x.value] /\ NodeWeight(w, h, i) = w[x.value]
      BY <1>1, <3>1, <3>2, NodeWeightFacts
    <3> QED BY <3>3, <3>4
  <2>3. CASE \A x \in h : x.seq # i - 1
    <3> HIDE DEF z
    <3>1. NodeWeight(z, h, i) = 0 /\ NodeWeight(w, h, i) = 0
      BY <2>3 DEF NodeWeight
    <3> QED BY <3>1
  <2> QED BY <2>2, <2>3
<1>4. Ints(c, n) /\ Ints(d, n) /\ \A i \in 1 .. n : c[i] <= d[i]
  <2> HIDE DEF z
  <2> QED BY <1>3 DEF Ints
<1>5. HeapSum(z, h, n) = Total(c, n) /\ HeapSum(w, h, n) = Total(d, n)
  BY DEF HeapSum
<1> HIDE DEF c, d
<1>6. Total(c, n) <= Total(d, n)
  BY ONLY <1>1, <1>4, TotalLess
<1> QED BY <1>2, <1>5, <1>6

-----------------------------------------------------------------------------
\* Powers of two.
LEMMA PowersOrdered ==
  ASSUME NEW a \in Nat, NEW b \in Nat
  PROVE  /\ 2^a \in Nat /\ 2^a >= 1 /\ 2^(a + 1) = 2^a + 2^a
         /\ a <= b => 2^a <= 2^b /\ \E c \in Nat : 2^b = 2^a * c
         /\ 2^a <= 2^b => a <= b
<1>1. 2^a \in Nat /\ 2^a > 0 /\ 2^(a + 1) = 2 * 2^a /\ 2^b \in Nat
  BY TwoPowerStep
<1>2. ASSUME a <= b PROVE 2^a <= 2^b /\ \E c \in Nat : 2^b = 2^a * c
  <2>1. PICK e \in Nat : b = a + e
    <3>1. b - a \in Nat /\ b = a + (b - a)
      BY <1>2
    <3> QED BY <3>1
  <2>2. 2^b = 2^a * 2^e
    BY <2>1, TwoPowerSum
  <2>3. 2^e \in Nat /\ 2^e > 0
    BY TwoPowerStep
  <2>4. PICK x \in Nat, y \in Nat : x = 2^a /\ y = 2^e /\ y > 0
    BY <1>1, <2>3
  <2>5. x <= x * y
    BY <2>4
  <2> QED BY <2>2, <2>4, <2>5
<1>3. ASSUME b < a PROVE 2^b < 2^a
  <2>1. 2 * 2^b <= 2^a
    BY <1>3, TwoPowerGrows
  <2>2. 2^b > 0
    BY TwoPowerStep
  <2> QED BY <1>1, <2>1, <2>2
<1> QED BY <1>1, <1>2, <1>3

\* What two nodes need, the deeper of them needs twice: nothing that is as
\* coarse as it tells the difference.
LEMMA KraftStep ==
  ASSUME NEW ra \in Nat, NEW rb \in Nat, ra <= rb,
         NEW m \in Int, m >= 2^rb, NEW e \in Int, m = 2^rb * e,
         NEW D \in Nat
  PROVE  2^ra + m <= 2^D <=> m + 2^rb <= 2^D
<1>1. 2^ra \in Nat /\ 2^ra >= 1 /\ 2^rb \in Nat /\ 2^rb >= 1 /\ 2^ra <= 2^rb /\ 2^D \in Nat
  BY PowersOrdered
<1>2. ASSUME 2^ra + m <= 2^D PROVE m + 2^rb <= 2^D
  <2>1. 2^rb <= 2^D /\ m < 2^D
    BY <1>1, <1>2
  <2>2. rb <= D
    BY <2>1, PowersOrdered
  <2>3. PICK c \in Nat : 2^D = 2^rb * c
    BY <2>2, PowersOrdered
  <2>4. PICK x \in Nat : x = 2^rb /\ x >= 1
    BY <1>1
  <2>5. x * e < x * c
    BY <2>1, <2>3, <2>4
  <2>6. e < c
    BY <2>4, <2>5
  <2>7. x * (e + 1) <= x * c
    <3>1. e + 1 <= c
      BY <2>6
    <3> QED BY <2>4, <3>1
  <2>8. x * (e + 1) = x * e + x
    BY <2>4
  <2> QED BY <2>3, <2>4, <2>7, <2>8
<1> QED BY <1>1, <1>2

-----------------------------------------------------------------------------
\* Numbers d that the ranks are of, and that grow from operands to users: the
\* new tree is no deeper than the old, because its leaves have room below it.
Weight(d) == [v \in DOMAIN d |-> 2^d[v]]

MemoHolds(d) == DOMAIN depthMemo \subseteq Live /\ \A v \in DOMAIN depthMemo : depthMemo[v] = d[v]

NotAbove(d) == \A v \in Live \cap DOMAIN original : d[v] <= TrueDepths(original)[v]

GatherRoom(d) ==
  /\ \A i \in 1 .. Len(worklist) : d[worklist[i]] < d[Root]
  /\ \A i \in 1 .. Len(leaves) : d[leaves[i]] < d[Root]
  /\ SeqSum(Weight(d), worklist) + SeqSum(Weight(d), leaves) <= 2^d[Root]

RankRoom(d) ==
  /\ \A i \in 1 .. Len(leaves) : d[leaves[i]] < d[Root]
  /\ SeqSum(Weight(d), leaves) <= 2^d[Root]
  /\ \A i \in 1 .. Len(leaves) : i <= seq => leaves[i] \in DOMAIN depthMemo
  /\ \A x \in heap : x.rank = d[x.value] /\ (x.seq >= Len(leaves) => x.rank >= 1)
  /\ seq <= Len(leaves) => /\ \A x \in heap : x.value \in DOMAIN depthMemo
                           /\ HeapSum(Weight(d), heap, seq) = PrefixSum(Weight(d), leaves, seq)
  /\ seq >= Len(leaves) =>
       \A D \in Nat : SeqSum(Weight(d), leaves) <= 2^D <=> HeapSum(Weight(d), heap, seq) <= 2^D

DepthsOK(d) ==
  /\ Potential(ir, d) /\ MemoHolds(d) /\ NotAbove(d)
  /\ pc = "gather" => GatherRoom(d)
  /\ pc = "rank" => RankRoom(d)
  /\ pc = "erase" => DOMAIN depthMemo \cap ToSet(interior) = {}

DepthOK == \E d : DepthsOK(d)

\* The weights are powers of two.
LEMMA WeightFacts ==
  ASSUME NEW G, NEW d, Potential(G, d)
  PROVE  /\ DOMAIN d = DOMAIN G /\ Weight(d) \in [DOMAIN G -> Int]
         /\ \A v \in DOMAIN G : /\ d[v] \in Nat /\ Weight(d)[v] = 2^d[v]
                                /\ Weight(d)[v] \in Nat /\ Weight(d)[v] >= 1
<1>1. DOMAIN d = DOMAIN G /\ \A v \in DOMAIN G : d[v] \in Nat
  BY DEF Potential
<1>2. \A v \in DOMAIN G : 2^d[v] \in Nat /\ 2^d[v] >= 1
  BY <1>1, PowersOrdered
<1> QED BY <1>1, <1>2 DEF Weight

-----------------------------------------------------------------------------
\* What the steps of the gathering and of the ranking do to sums.

\* Nothing adds up to zero.
LEMMA EmptySum ==
  ASSUME NEW w
  PROVE  SeqSum(w, <<>>) = 0 /\ Len(<<>>) = 0
<1>1. Len(<<>>) = 0
  OBVIOUS
<1>2. Total([i \in 1 .. Len(<<>>) |-> w[<<>>[i]]], 0) = 0
  BY TotalUnfolds
<1> QED BY <1>1, <1>2 DEF SeqSum, PrefixSum

\* The operands of an addition are p and q, and it is of these blocks.
NextRootSums(w, x, p, q) ==
  /\ x = Root /\ x \in Live /\ p = ir[x].operands[1] /\ q = ir[x].operands[2]
  /\ p \in Live /\ q \in Live /\ ir[x].kind = "add" /\ Len(ir[x].operands) = 2
  /\ SeqSum(w, worklist') + SeqSum(w, leaves') = w[p] + w[q]
  /\ \A i \in 1 .. Len(worklist') : worklist'[i] \in {p, q}
  /\ Len(leaves') = 0

\* At the start of a tree the worklist has the sum of the root's operands.
LEMMA NextRootSum ==
  ASSUME Structure, NextRoot, NEW w \in [Live -> Int]
  PROVE  \E x, p, q : NextRootSums(w, x, p, q)
<1>1. /\ pc = "next" /\ roots # {} /\ worklist' = Reverse(ir[Root].operands) /\ leaves' = <<>>
  BY DEF NextRoot
<1>2. Root \in roots /\ Graph(ir) /\ \A r \in roots : r \in Live => ir[r].kind = "add"
  BY <1>1, ChainFacts
<1>3. Root \in Live /\ ir[Root].kind = "add"
  BY <1>1, <1>2 DEF Structure, RootsOK
<1>4. PICK x, s, p, q : x = Root /\ s = ir[Root].operands /\ p = s[1] /\ q = s[2]
  OBVIOUS
<1>5. Len(s) = 2 /\ p \in Live /\ q \in Live /\ Reverse(s) = <<q, p>>
  BY <1>2, <1>3, <1>4, AddOperands DEF Live
<1>6. worklist' = <<q, p>> /\ leaves' = <<>>
  BY <1>1, <1>4, <1>5
<1>7. SeqSum(w, <<q, p>>) = w[p] + w[q]
  <2>1. PICK u, t, e : u = <<q, p>> /\ t = <<q>> /\ e = <<>>
    OBVIOUS
  <2>2. u \in Seq(Live) /\ t \in Seq(Live) /\ e \in Seq(Live) /\ Len(u) = 2 /\ Len(t) = 1 /\ Len(e) = 0
        /\ u[1] = q /\ t[1] = q /\ u[2] = p
    BY <1>5, <2>1
  <2>3. SeqSum(w, t) = SeqSum(w, e) + w[q]
    <3>1. Len(t) = Len(e) + 1 /\ \A i \in 1 .. Len(e) : t[i] = e[i]
      BY <2>2
    <3>2. SeqSum(w, t) = SeqSum(w, e) + w[t[Len(t)]]
      <4>1. Longer(Live, w, e, t)
        BY ONLY <2>2, <3>1, w \in [Live -> Int] DEF Longer
      <4> QED BY ONLY <4>1, SeqSumGrows
    <3> QED BY <2>2, <3>2
  <2>4. SeqSum(w, u) = SeqSum(w, t) + w[p]
    <3>1. Len(u) = Len(t) + 1 /\ \A i \in 1 .. Len(t) : u[i] = t[i]
      BY <2>2
    <3>2. SeqSum(w, u) = SeqSum(w, t) + w[u[Len(u)]]
      <4>1. Longer(Live, w, t, u)
        BY ONLY <2>2, <3>1, w \in [Live -> Int] DEF Longer
      <4> QED BY ONLY <4>1, SeqSumGrows
    <3> QED BY <2>2, <3>2
  <2>5. SeqSum(w, e) = 0 /\ w[p] \in Int /\ w[q] \in Int
    BY <1>5, <2>1, EmptySum
  <2> QED BY <2>1, <2>3, <2>4, <2>5
<1>8. SeqSum(w, leaves') = 0 /\ Len(leaves') = 0
  BY <1>6, EmptySum
<1>9. \A i \in 1 .. Len(worklist') : worklist'[i] \in {p, q}
  BY <1>6
<1>10. w[p] + w[q] + 0 = w[p] + w[q]
  BY <1>5
<1>11. NextRootSums(w, x, p, q)
  BY <1>3, <1>4, <1>5, <1>6, <1>7, <1>8, <1>9, <1>10 DEF NextRootSums
<1> QED BY <1>11

VisitSums(w, v, p, q) ==
  /\ v \in Live /\ p = ir[v].operands[1] /\ q = ir[v].operands[2]
  /\ p \in Live /\ q \in Live /\ ir[v].kind = "add" /\ Len(ir[v].operands) = 2
  /\ SeqSum(w, worklist) \in Int
  /\ SeqSum(w, worklist') = SeqSum(w, worklist) - w[v] + w[p] + w[q]
  /\ \E i \in 1 .. Len(worklist) : worklist[i] = v
  /\ \A i \in 1 .. Len(worklist') :
       worklist'[i] \in {p, q} \/ \E j \in 1 .. Len(worklist) : worklist'[i] = worklist[j]

\* A value on the worklist gives way to its operands.
LEMMA VisitInteriorSum ==
  ASSUME Structure, VisitInterior, NEW w \in [Live -> Int]
  PROVE  \E v, p, q : VisitSums(w, v, p, q)
<1>1. /\ pc = "gather" /\ worklist # <<>> /\ IsInterior(Last(worklist))
      /\ worklist' = Front(worklist) \o Reverse(ir[Last(worklist)].operands)
  BY DEF VisitInterior
<1>2. PICK v, s, p, q, f, n : /\ v = Last(worklist) /\ s = ir[v].operands /\ p = s[1] /\ q = s[2]
                              /\ f = Front(worklist) /\ n = Len(worklist) - 1
  OBVIOUS
<1>3. v \in Live /\ ir[v].kind = "add" /\ v = worklist[Len(worklist)] /\ Len(worklist) \in Nat \ {0}
      /\ Graph(ir) /\ worklist \in Seq(Live)
  BY <1>1, <1>2, TopFacts, GatherFacts
<1>4. Len(s) = 2 /\ p \in Live /\ q \in Live /\ Reverse(s) = <<q, p>>
  BY <1>2, <1>3, AddOperands DEF Live
<1>5. f \in Seq(Live) /\ Len(f) = n /\ (\A i \in 1 .. n : f[i] = worklist[i])
      /\ n \in Nat /\ Len(worklist) = n + 1
  <2>1. Stack(Live, worklist, Len(worklist), Front(worklist), Last(worklist))
    BY <1>1, <1>3, StackFacts
  <2> QED BY <1>2, <1>3, <2>1 DEF Stack
<1>6. PICK u, t : u = f \o <<q, p>> /\ t = Append(f, q)
  OBVIOUS
<1>7. /\ u \in Seq(Live) /\ Len(u) = n + 2 /\ (\A i \in 1 .. n : u[i] = f[i])
      /\ u[n + 1] = q /\ u[n + 2] = p
  BY <1>4, <1>5, <1>6, PushTwo
<1>8. /\ t \in Seq(Live) /\ Len(t) = n + 1 /\ (\A i \in 1 .. n : t[i] = f[i]) /\ t[n + 1] = q
  BY <1>4, <1>5, <1>6, AppendFacts
<1>9. worklist' = u
  BY <1>1, <1>2, <1>4, <1>6
<1>10. SeqSum(w, worklist) = SeqSum(w, f) + w[v]
  <2>1. Len(worklist) = Len(f) + 1 /\ \A i \in 1 .. Len(f) : worklist[i] = f[i]
    BY <1>5
  <2>2. SeqSum(w, worklist) = SeqSum(w, f) + w[worklist[Len(worklist)]]
    <3>1. Longer(Live, w, f, worklist)
      BY ONLY <1>3, <1>5, <2>1, w \in [Live -> Int] DEF Longer
    <3> QED BY ONLY <3>1, SeqSumGrows
  <2> QED BY <1>3, <2>2
<1>11. SeqSum(w, t) = SeqSum(w, f) + w[q]
  <2>1. Len(t) = Len(f) + 1 /\ \A i \in 1 .. Len(f) : t[i] = f[i]
    BY <1>5, <1>8
  <2>2. SeqSum(w, t) = SeqSum(w, f) + w[t[Len(t)]]
    <3>1. Longer(Live, w, f, t)
      BY ONLY <1>5, <1>8, <2>1, w \in [Live -> Int] DEF Longer
    <3> QED BY ONLY <3>1, SeqSumGrows
  <2> QED BY <1>8, <2>2
<1>12. SeqSum(w, u) = SeqSum(w, t) + w[p]
  <2>1. \A i \in 1 .. n + 1 : u[i] = t[i]
    <3>1. \A i \in 1 .. n + 1 : i \in 1 .. n \/ i = n + 1
      BY <1>5
    <3> QED BY <1>7, <1>8, <3>1
  <2>2. Len(u) = Len(t) + 1 /\ \A i \in 1 .. Len(t) : u[i] = t[i]
    BY <1>5, <1>7, <1>8, <2>1
  <2>3. SeqSum(w, u) = SeqSum(w, t) + w[u[Len(u)]]
    <3>1. Longer(Live, w, t, u)
      BY ONLY <1>7, <1>8, <2>2, w \in [Live -> Int] DEF Longer
    <3> QED BY ONLY <3>1, SeqSumGrows
  <2> QED BY <1>7, <2>3
<1>13. SeqSum(w, f) \in Int /\ w[v] \in Int /\ w[p] \in Int /\ w[q] \in Int
  <2>1. Len(f) \in 0 .. Len(f)
    BY <1>5
  <2>2. PrefixSum(w, f, Len(f)) \in Int
    BY <1>5, <2>1, PrefixFacts
  <2> QED BY <1>3, <1>4, <2>2 DEF SeqSum
<1>14. SeqSum(w, worklist') = SeqSum(w, worklist) - w[v] + w[p] + w[q]
       /\ SeqSum(w, worklist) \in Int
  BY <1>9, <1>10, <1>11, <1>12, <1>13
<1>15. ASSUME NEW i \in 1 .. Len(worklist')
       PROVE  worklist'[i] \in {p, q} \/ \E j \in 1 .. Len(worklist) : worklist'[i] = worklist[j]
  <2>1. i \in 1 .. n \/ i = n + 1 \/ i = n + 2
    BY <1>5, <1>7, <1>9
  <2>2. \A j \in 1 .. n : j \in 1 .. Len(worklist)
    BY <1>5
  <2> QED BY <1>5, <1>7, <1>9, <2>1, <2>2
<1>16. \E i \in 1 .. Len(worklist) : worklist[i] = v
  <2>1. Len(worklist) \in 1 .. Len(worklist)
    BY <1>3
  <2> QED BY <1>3, <2>1
<1>17. p = ir[v].operands[1] /\ q = ir[v].operands[2] /\ Len(ir[v].operands) = 2
  BY <1>2, <1>4
<1>18. VisitSums(w, v, p, q)
  BY <1>3, <1>4, <1>14, <1>15, <1>16, <1>17 DEF VisitSums
<1> QED BY <1>18

\* A value goes from the worklist to the leaves.
LEMMA VisitLeafSum ==
  ASSUME Structure, VisitLeaf, NEW w \in [Live -> Int]
  PROVE  /\ SeqSum(w, worklist') + SeqSum(w, leaves') = SeqSum(w, worklist) + SeqSum(w, leaves)
         /\ \A i \in 1 .. Len(worklist') :
              \E j \in 1 .. Len(worklist) : worklist'[i] = worklist[j]
         /\ \A i \in 1 .. Len(leaves') : \/ \E j \in 1 .. Len(leaves) : leaves'[i] = leaves[j]
                                         \/ \E j \in 1 .. Len(worklist) : leaves'[i] = worklist[j]
         /\ \E j \in 1 .. Len(worklist) : worklist[j] = Last(worklist)
<1>1. /\ pc = "gather" /\ worklist # <<>> /\ leaves' = Append(leaves, Last(worklist))
      /\ worklist' = Front(worklist)
  BY DEF VisitLeaf
<1>2. PICK v, f, n, g, k : /\ v = Last(worklist) /\ f = Front(worklist) /\ n = Len(worklist) - 1
                           /\ g = Append(leaves, v) /\ k = Len(leaves)
  OBVIOUS
<1>3. v \in Live /\ v = worklist[Len(worklist)] /\ Len(worklist) \in Nat \ {0}
      /\ worklist \in Seq(Live) /\ leaves \in Seq(Live)
  BY <1>1, <1>2, TopFacts, GatherFacts
<1>4. f \in Seq(Live) /\ Len(f) = n /\ (\A i \in 1 .. n : f[i] = worklist[i])
      /\ n \in Nat /\ Len(worklist) = n + 1
  <2>1. Stack(Live, worklist, Len(worklist), Front(worklist), Last(worklist))
    BY <1>1, <1>3, StackFacts
  <2>2. PICK m : m = Len(worklist)
    OBVIOUS
  <2>3. Stack(Live, worklist, m, f, v)
    BY <1>2, <2>1, <2>2
  <2>4. m \in Nat \ {0} /\ f \in Seq(Live) /\ Len(f) = m - 1 /\ \A i \in 1 .. m - 1 : f[i] = worklist[i]
    BY <2>3 DEF Stack
  <2>5. n = m - 1 /\ n \in Nat /\ m = n + 1
    BY <1>2, <2>2, <2>4
  <2> QED BY <2>2, <2>4, <2>5
<1>5. /\ g \in Seq(Live) /\ Len(g) = k + 1 /\ (\A i \in 1 .. k : g[i] = leaves[i])
      /\ g[k + 1] = v /\ k \in Nat
  BY <1>2, <1>3, AppendFacts
<1>6. SeqSum(w, worklist) = SeqSum(w, f) + w[v]
  <2>1. Len(worklist) = Len(f) + 1 /\ \A i \in 1 .. Len(f) : worklist[i] = f[i]
    BY <1>4
  <2>2. SeqSum(w, worklist) = SeqSum(w, f) + w[worklist[Len(worklist)]]
    <3>1. Longer(Live, w, f, worklist)
      BY ONLY <1>3, <1>4, <2>1, w \in [Live -> Int] DEF Longer
    <3> QED BY ONLY <3>1, SeqSumGrows
  <2> QED BY <1>3, <2>2
<1>7. SeqSum(w, g) = SeqSum(w, leaves) + w[v]
  <2>1. Len(g) = Len(leaves) + 1 /\ \A i \in 1 .. Len(leaves) : g[i] = leaves[i]
    BY <1>2, <1>5
  <2>2. SeqSum(w, g) = SeqSum(w, leaves) + w[g[Len(g)]]
    <3>1. Longer(Live, w, leaves, g)
      BY ONLY <1>3, <1>5, <2>1, w \in [Live -> Int] DEF Longer
    <3> QED BY ONLY <3>1, SeqSumGrows
  <2> QED BY <1>5, <2>2
<1>8. SeqSum(w, f) \in Int /\ SeqSum(w, leaves) \in Int /\ w[v] \in Int
  <2>1. Len(f) \in 0 .. Len(f) /\ Len(leaves) \in 0 .. Len(leaves)
    BY <1>2, <1>4, <1>5
  <2>2. PrefixSum(w, f, Len(f)) \in Int /\ PrefixSum(w, leaves, Len(leaves)) \in Int
    BY <1>3, <1>4, <2>1, PrefixFacts
  <2> QED BY <1>3, <2>2 DEF SeqSum
<1>9. worklist' = f /\ leaves' = g
  BY <1>1, <1>2
<1>10. \A i \in 1 .. Len(worklist') : \E j \in 1 .. Len(worklist) : worklist'[i] = worklist[j]
  <2>1. \A j \in 1 .. n : j \in 1 .. Len(worklist)
    BY <1>4
  <2> QED BY <1>4, <1>9, <2>1
<1>11. \E j \in 1 .. Len(worklist) : worklist[j] = v
  <2>1. Len(worklist) \in 1 .. Len(worklist)
    BY <1>3
  <2> QED BY <1>3, <2>1
<1>12. ASSUME NEW i \in 1 .. Len(leaves')
       PROVE  \/ \E j \in 1 .. Len(leaves) : leaves'[i] = leaves[j]
              \/ \E j \in 1 .. Len(worklist) : leaves'[i] = worklist[j]
  <2>1. i \in 1 .. k \/ i = k + 1
    BY <1>5, <1>9
  <2> QED BY <1>2, <1>5, <1>9, <1>11, <2>1
<1> QED BY <1>2, <1>6, <1>7, <1>8, <1>9, <1>10, <1>11, <1>12

\* Nodes over a larger set.
LEMMA NodesWiden ==
  ASSUME NEW h, NEW n, NEW V, Nodes(h, n, V), NEW W, V \subseteq W
  PROVE  Nodes(h, n, W)
  BY DEF Nodes

\* The sums when the gathering ends.
LEMMA StartSums ==
  ASSUME Structure, StartRanking, NEW w
  PROVE  /\ SeqSum(w, worklist) = 0 /\ HeapSum(w, heap, seq) = 0 /\ PrefixSum(w, leaves, seq) = 0
         /\ seq = 0 /\ heap = {} /\ Len(leaves) >= 3 /\ leaves \in Seq(Live)
         /\ leaves' = leaves /\ seq' = seq /\ heap' = heap
<1>1. /\ pc = "gather" /\ worklist = <<>> /\ Len(leaves) >= 3
      /\ leaves' = leaves /\ seq' = seq /\ heap' = heap
  BY DEF StartRanking, tree
<1>2. seq = 0 /\ heap = {} /\ leaves \in Seq(Live)
  BY <1>1, GatherFacts
<1>3. SeqSum(w, worklist) = 0
  BY <1>1, EmptySum
<1>4. HeapSum(w, heap, 0) = 0 /\ PrefixSum(w, leaves, 0) = 0
  BY TotalUnfolds DEF HeapSum, PrefixSum
<1> QED BY <1>1, <1>2, <1>3, <1>4

\* The queue and the leaves that are queued grow by the same.
LEMMA RankLeafSum ==
  ASSUME Structure, RankLeaf, NEW w \in [Live -> Int], NEW leaf, leaf = leaves[seq + 1],
         Depth[leaf] \in Nat
  PROVE  /\ HeapSum(w, heap', seq') = HeapSum(w, heap, seq) + w[leaf]
         /\ PrefixSum(w, leaves, seq + 1) = PrefixSum(w, leaves, seq) + w[leaf]
         /\ HeapSum(w, heap, seq) \in Int /\ seq < Len(leaves) /\ seq \in Nat /\ seq' = seq + 1
         /\ leaf \in Live /\ leaf \notin ToSet(interior)
         /\ \A x \in heap : x.seq < Len(leaves)
         /\ heap' = heap \cup {Node(leaf, Depth[leaf], seq)}
<1>1. /\ pc = "rank" /\ seq < Len(leaves) /\ seq' = seq + 1
      /\ heap' = heap \cup {Node(leaves[seq + 1], Depth[leaves[seq + 1]], seq)}
  BY DEF RankLeaf
<1>2. /\ Nodes(heap, seq, Live) /\ seq \in Nat /\ Len(leaves) \in Nat /\ leaves \in Seq(Live)
  BY <1>1, RankFacts
<1>3. seq + 1 \in 1 .. Len(leaves) /\ seq \in 0 .. Len(leaves)
  BY <1>1, <1>2
<1>4. leaf \in Live /\ leaf \notin ToSet(interior)
  BY <1>1, <1>3, RankFacts
<1>5. PICK r : r = Depth[leaf] /\ r \in Nat
  OBVIOUS
<1>6. HeapSum(w, heap', seq + 1) = HeapSum(w, heap, seq) + w[leaf]
  <2>1. PICK g : g = heap'
    OBVIOUS
  <2>2. Queued(Live, w, heap, seq, leaf, r, g)
    BY <1>1, <1>2, <1>4, <1>5, <2>1 DEF Queued
  <2> QED BY <2>1, <2>2, HeapSumWith
<1>7. PrefixSum(w, leaves, seq + 1) = PrefixSum(w, leaves, seq) + w[leaf]
  BY <1>1, <1>2, <1>3, PrefixFacts
<1>8. HeapSum(w, heap, seq) \in Int
  <2>1. CASE heap = {}
    <3>1. \A x \in heap : \E e \in Int : w[x.value] = 0 * e
      BY <2>1
    <3>2. Coarse(Live, w, heap, seq, 0)
      BY <1>2, <3>1 DEF Coarse
    <3>3. PICK e \in Int : HeapSum(w, heap, seq) = 0 * e
      BY <3>2, HeapSumMultiple
    <3> QED BY <3>3
  <2>2. CASE heap # {}
    <3>1. PICK x : x \in heap
      BY <2>2
    <3> QED BY <1>2, <3>1, HeapSumWithout
  <2> QED BY <2>1, <2>2
<1>9. \A x \in heap : x.seq < Len(leaves)
  <2> SUFFICES ASSUME NEW x \in heap PROVE x.seq < Len(leaves)
    OBVIOUS
  <2>1. x.seq \in 0 .. seq - 1
    BY <1>2, NodeFacts
  <2> QED BY <1>1, <1>2, <2>1
<1> QED BY <1>1, <1>2, <1>4, <1>5, <1>6, <1>7, <1>8, <1>9

\* Two nodes' part of the sum gives way to the new addition's.
LEMMA CombineSum ==
  ASSUME Structure, Combine, NEW a, NEW b, NEW s, NEW rb, CombineOf(a, b, s, rb),
         NEW W, W = Live', NEW w \in [W -> Int]
  PROVE  /\ HeapSum(w, heap', seq') = HeapSum(w, heap, seq) - w[a.value] - w[b.value] + w[s]
         /\ HeapSum(w, heap, seq) \in Int /\ w[s] \in Int
         /\ w[a.value] \in Int /\ w[b.value] \in Int
<1>1. /\ Nodes(heap, seq, Live) /\ a \in heap /\ b \in heap /\ a # b /\ b.rank + 1 \in Nat
      /\ a.value \in Live /\ b.value \in Live /\ s \in W /\ Live \subseteq W
      /\ heap' = (heap \ {a, b}) \cup {Node(s, b.rank + 1, seq)} /\ seq' = seq + 1
  <2>1. Nodes(heap, seq, Live) /\ seq' = seq + 1
    BY CombineFacts, RankFacts
  <2>2. s \in W /\ Live \subseteq W
    BY DEF CombineOf, Added, Live
  <2> QED BY <2>1, <2>2 DEF CombineOf
<1>2. Nodes(heap, seq, W)
  BY <1>1, NodesWiden
<1>3. PICK g, h : g = heap \ {a} /\ h = g \ {b}
  OBVIOUS
<1>4. Nodes(g, seq, W) /\ b \in g /\ Nodes(h, seq, W)
  <2>1. Nodes(g, seq, W) /\ b \in g
    BY <1>1, <1>2, <1>3, NodesWithout
  <2> QED BY <1>3, <2>1, NodesWithout
<1>5. HeapSum(w, heap, seq) \in Int /\ HeapSum(w, g, seq) = HeapSum(w, heap, seq) - w[a.value]
  BY <1>1, <1>2, <1>3, HeapSumWithout
<1>6. HeapSum(w, h, seq) = HeapSum(w, g, seq) - w[b.value]
  BY <1>3, <1>4, HeapSumWithout
<1>7. PICK r \in Nat : r = b.rank + 1
  BY <1>1
<1>8. h = heap \ {a, b}
  BY <1>3
<1>9. PICK k : k = heap' /\ k = h \cup {Node(s, r, seq)}
  BY <1>1, <1>7, <1>8
<1>10. HeapSum(w, k, seq + 1) = HeapSum(w, h, seq) + w[s]
  <2>1. Queued(W, w, h, seq, s, r, k)
    BY <1>1, <1>4, <1>7, <1>9 DEF Queued
  <2> QED BY <2>1, HeapSumWith
<1>11. w[a.value] \in Int /\ w[b.value] \in Int /\ w[s] \in Int
  BY <1>1
<1> QED BY <1>1, <1>5, <1>6, <1>9, <1>10, <1>11

\* Combining the two least leaves no tree out that had room.
LEMMA CombineKraft ==
  ASSUME Structure, Combine, NEW a, NEW b, NEW s, NEW rb, CombineOf(a, b, s, rb),
         NEW d, Potential(ir, d), \A x \in heap : x.rank = d[x.value],
         NEW D \in Nat, NEW w, w = Weight(d)
  PROVE  HeapSum(w, heap, seq) <= 2^D
           <=> HeapSum(w, heap, seq) - w[a.value] - w[b.value] + 2^(b.rank + 1) <= 2^D
<1>1. /\ Nodes(heap, seq, Live) /\ a \in heap /\ b \in heap /\ a # b
      /\ a.rank \in Nat /\ b.rank \in Nat /\ a.rank <= b.rank
      /\ a.value \in Live /\ b.value \in Live
      /\ \A x \in heap \ {a} : b.rank <= x.rank
  <2>1. Nodes(heap, seq, Live)
    BY CombineFacts, RankFacts
  <2> QED BY <2>1 DEF CombineOf
<1>2. w \in [Live -> Int] /\ \A v \in Live : w[v] = 2^d[v] /\ w[v] >= 0 /\ w[v] \in Nat
  <2>1. \A v \in Live : w[v] \in Nat /\ w[v] >= 1 /\ w[v] = 2^d[v]
    BY WeightFacts DEF Live
  <2> QED BY <2>1, WeightFacts DEF Live
<1>3. \A x \in heap : x.value \in Live /\ x.rank \in Nat /\ w[x.value] = 2^x.rank
  <2>1. \A x \in heap : x.value \in Live /\ x.rank \in Nat
    BY <1>1, NodeFacts
  <2> QED BY <1>2, <2>1
<1>4. PICK g, h : g = heap \ {a} /\ h = g \ {b}
  OBVIOUS
<1>5. Nodes(g, seq, Live) /\ b \in g /\ Nodes(h, seq, Live)
  <2>1. Nodes(g, seq, Live) /\ b \in g
    BY <1>1, <1>4, NodesWithout
  <2> QED BY <1>4, <2>1, NodesWithout
<1>6. PICK S, m : S = HeapSum(w, heap, seq) /\ m = HeapSum(w, g, seq)
  OBVIOUS
<1>7. S \in Int /\ m = S - w[a.value]
  BY <1>1, <1>2, <1>4, <1>6, HeapSumWithout
<1>8. m \in Int /\ HeapSum(w, h, seq) = m - w[b.value]
  BY <1>2, <1>4, <1>5, <1>6, HeapSumWithout
<1>9. HeapSum(w, h, seq) >= 0
  BY <1>2, <1>5, HeapSumNatural
<1>10. w[a.value] = 2^a.rank /\ w[b.value] = 2^b.rank
  BY <1>1, <1>3
<1>11. PICK p \in Nat, q \in Nat : p = a.rank /\ q = b.rank /\ p <= q
  BY <1>1
<1>12. 2^p \in Nat /\ 2^q \in Nat /\ 2^(q + 1) = 2^q + 2^q
  BY PowersOrdered
<1>13. m >= 2^q
  BY <1>8, <1>9, <1>10, <1>11, <1>12
<1>14. \E e \in Int : m = 2^q * e
  <2>1. ASSUME NEW x \in g PROVE \E e \in Int : w[x.value] = 2^q * e
    <3>1. x \in heap /\ q <= x.rank /\ x.rank \in Nat
      BY <1>1, <1>3, <1>4, <1>11, <2>1
    <3>2. PICK c \in Nat : 2^x.rank = 2^q * c
      BY <3>1, PowersOrdered
    <3> QED BY <1>3, <3>1, <3>2
  <2>2. PICK z \in Nat : z = 2^q
    BY <1>12
  <2>3. \A x \in g : \E e \in Int : w[x.value] = z * e
    BY <2>1, <2>2
  <2>4. \E e \in Int : HeapSum(w, g, seq) = z * e
    <3>1. Coarse(Live, w, g, seq, z)
      BY <1>2, <1>5, <2>3 DEF Coarse
    <3> QED BY <3>1, HeapSumMultiple
  <2> QED BY <1>6, <2>2, <2>4
<1>15. 2^p + m <= 2^D <=> m + 2^q <= 2^D
  <2>1. PICK e \in Int : m = 2^q * e
    BY <1>14
  <2> QED BY ONLY <1>8, <1>11, <1>13, <2>1, D \in Nat, KraftStep
<1>16. S = 2^p + m
  BY <1>7, <1>10, <1>11, <1>12
<1>17. S - w[a.value] - w[b.value] + 2^(q + 1) = m + 2^q
  BY <1>7, <1>8, <1>10, <1>11, <1>12
<1> QED BY <1>6, <1>11, <1>15, <1>16, <1>17

-----------------------------------------------------------------------------
\* The depths at the start, and through the gathering.

\* The numbers grow from operands to users.
LEMMA OriginalPotential ==
  ASSUME OriginalOK
  PROVE  \E d : Potential(original, d)
<1>1. PICK n \in Nat \ {0} :
        /\ DOMAIN original = 0 .. n
        /\ \A u \in 0 .. n : \A k \in 1 .. Len(original[u].operands) :
             original[u].operands[k] \in 1 .. (IF u = Return THEN n ELSE u - 1)
  BY DEF OriginalOK
<1> DEFINE d == [v \in 0 .. n |-> IF v = Return THEN n + 1 ELSE v]
<1>2. d \in [0 .. n -> Nat] /\ \A v \in 0 .. n : d[v] <= n + 1
  OBVIOUS
<1>3. ASSUME NEW u \in 0 .. n, NEW k \in 1 .. Len(original[u].operands)
      PROVE  d[original[u].operands[k]] < d[u]
  <2>1. PICK o : o = original[u].operands[k]
    OBVIOUS
  <2>2. o \in 1 .. (IF u = Return THEN n ELSE u - 1)
    BY <1>1, <2>1
  <2>3. o \in 0 .. n /\ o # 0
    BY <2>2 DEF Return
  <2>4. d[o] = o
    BY <2>3 DEF Return
  <2>5. d[u] = IF u = Return THEN n + 1 ELSE u
    OBVIOUS
  <2>6. o < (IF u = Return THEN n + 1 ELSE u)
    BY <2>2
  <2> QED BY <2>1, <2>4, <2>5, <2>6
<1>4. n + 1 \in Nat
  OBVIOUS
<1> HIDE DEF d
<1>5. Potential(original, d)
  BY <1>1, <1>2, <1>3, <1>4 DEF Potential
<1> QED BY <1>5

\* The depths do, too.
LEMMA TrueDepthsGrow ==
  ASSUME NEW G, Graph(G), NEW e, Potential(G, e)
  PROVE  /\ Potential(G, TrueDepths(G)) /\ \A v \in DOMAIN G : TrueDepths(G)[v] <= e[v]
<1>1. PICK d : d = TrueDepths(G)
  OBVIOUS
<1>2. d \in [DOMAIN G -> Nat] /\ \A v \in DOMAIN G : d[v] = Above(G, d, v)
  BY <1>1, TrueDepthFacts
<1>3. ASSUME NEW u \in DOMAIN G
      PROVE  /\ \A k \in 1 .. Len(G[u].operands) : d[G[u].operands[k]] \in Nat /\ d[G[u].operands[k]] < d[u]
             /\ \A b \in Nat : (\A k \in 1 .. Len(G[u].operands) : d[G[u].operands[k]] < b) => d[u] <= b
  <2>1. \A k \in 1 .. Len(G[u].operands) : d[G[u].operands[k]] \in Nat
    BY <1>2, OperandFacts
  <2>2. PICK a : a = Above(G, d, u)
    OBVIOUS
  <2>3. /\ \A k \in 1 .. Len(G[u].operands) : d[G[u].operands[k]] < a
        /\ \A b \in Nat : (\A k \in 1 .. Len(G[u].operands) : d[G[u].operands[k]] < b) => a <= b
    BY <2>1, <2>2, HeightFacts
  <2>4. d[u] = a
    BY <1>2, <2>2
  <2> QED BY <2>1, <2>3, <2>4
<1> DEFINE B == {v \in DOMAIN G : d[v] <= e[v]}
<1>4. /\ e \in [DOMAIN G -> Nat]
      /\ \A u \in DOMAIN G : \A k \in 1 .. Len(G[u].operands) :
           G[u].operands[k] \in DOMAIN G /\ e[G[u].operands[k]] < e[u]
  BY OperandFacts DEF Potential
<1>5. ASSUME NEW v \in DOMAIN G, \A k \in 1 .. Len(G[v].operands) : G[v].operands[k] \in B
      PROVE  v \in B
  <2>1. \A k \in 1 .. Len(G[v].operands) : d[G[v].operands[k]] < e[v]
    <3> SUFFICES ASSUME NEW k \in 1 .. Len(G[v].operands) PROVE d[G[v].operands[k]] < e[v]
      OBVIOUS
    <3>1. PICK o \in DOMAIN G : o = G[v].operands[k]
      BY <1>4
    <3>2. d[o] <= e[o] /\ e[o] < e[v]
      BY <1>4, <1>5, <3>1
    <3>3. d[o] \in Nat /\ e[o] \in Nat /\ e[v] \in Nat
      BY <1>2, <1>4
    <3> QED BY <3>1, <3>2, <3>3
  <2>2. d[v] <= e[v]
    BY <1>3, <1>4, <2>1
  <2> QED BY <2>2
<1> HIDE DEF B
<1>6. \A v \in DOMAIN G : v \in B
  BY <1>5, Everywhere
<1>7. \A v \in DOMAIN G : d[v] <= e[v]
  BY <1>6 DEF B
<1>8. \E m \in Nat : \A v \in DOMAIN G : d[v] <= m
  <2>1. PICK m \in Nat : \A v \in DOMAIN G : e[v] <= m
    BY DEF Potential
  <2>2. \A v \in DOMAIN G : d[v] <= m
    <3> SUFFICES ASSUME NEW v \in DOMAIN G PROVE d[v] <= m
      OBVIOUS
    <3>1. d[v] \in Nat /\ e[v] \in Nat /\ d[v] <= e[v] /\ e[v] <= m
      BY <1>2, <1>4, <1>7, <2>1
    <3> QED BY <3>1
  <2> QED BY <2>2
<1>9. Potential(G, d)
  BY <1>2, <1>3, <1>8 DEF Potential
<1> QED BY <1>1, <1>7, <1>9

\* The true depths are such depths at the start.
LEMMA InitDepth == Init => DepthOK
<1> SUFFICES ASSUME Init PROVE DepthOK
  OBVIOUS
<1>1. pc = "walk" /\ original = ir /\ depthMemo = <<>>
  BY DEF Init
<1>2. OriginalOK /\ Graph(ir)
  BY InitStructure DEF Structure, ProgramOK
<1>3. PICK e : Potential(ir, e)
  BY <1>1, <1>2, OriginalPotential
<1>4. PICK d : d = TrueDepths(ir)
  OBVIOUS
<1>5. Potential(ir, d)
  BY <1>2, <1>3, <1>4, TrueDepthsGrow
<1>6. NotAbove(d)
  <2>1. \A v \in Live : d[v] \in Nat
    BY <1>5 DEF Potential, Live
  <2> QED BY <1>1, <1>4, <2>1 DEF NotAbove
<1>7. DOMAIN depthMemo = {}
  BY <1>1
<1>8. DepthsOK(d)
  BY <1>1, <1>5, <1>6, <1>7 DEF DepthsOK, MemoHolds
<1> QED BY <1>8 DEF DepthOK

\* The steps that leave the program and the memo as they are.
Kept(d) == Potential(ir, d) /\ MemoHolds(d) /\ NotAbove(d)

\* They keep the depths.
LEMMA KeptDepths ==
  ASSUME NEW d, Kept(d), ir' = ir, original' = original, depthMemo' = depthMemo
  PROVE  Kept(d)'
  BY DEF Kept, MemoHolds, NotAbove, Live

\* The walk keeps the depths.
LEMMA CollectRootsDepth == Structure /\ DepthOK /\ CollectRoots => DepthOK'
<1> SUFFICES ASSUME Structure, DepthOK, CollectRoots PROVE DepthOK'
  OBVIOUS
<1>1. pc' = "next" /\ ir' = ir /\ original' = original /\ depthMemo' = depthMemo
  BY DEF CollectRoots
<1>2. PICK d : DepthsOK(d)
  BY DEF DepthOK
<1>3. Kept(d)'
  BY <1>1, <1>2, KeptDepths DEF DepthsOK, Kept
<1> QED BY <1>1, <1>3 DEF DepthOK, DepthsOK, Kept

\* A tree that is left as it is keeps the depths.
LEMMA TooSmallDepth == Structure /\ DepthOK /\ TooSmall => DepthOK'
<1> SUFFICES ASSUME Structure, DepthOK, TooSmall PROVE DepthOK'
  OBVIOUS
<1>1. pc' = "next" /\ ir' = ir /\ original' = original /\ depthMemo' = depthMemo
  BY DEF TooSmall
<1>2. PICK d : DepthsOK(d)
  BY DEF DepthOK
<1>3. Kept(d)'
  BY <1>1, <1>2, KeptDepths DEF DepthsOK, Kept
<1> QED BY <1>1, <1>3 DEF DepthOK, DepthsOK, Kept

\* The end of a tree keeps the depths.
LEMMA ChainDoneDepth == Structure /\ DepthOK /\ ChainDone => DepthOK'
<1> SUFFICES ASSUME Structure, DepthOK, ChainDone PROVE DepthOK'
  OBVIOUS
<1>1. pc' = "next" /\ ir' = ir /\ original' = original /\ depthMemo' = depthMemo
  BY DEF ChainDone
<1>2. PICK d : DepthsOK(d)
  BY DEF DepthOK
<1>3. Kept(d)'
  BY <1>1, <1>2, KeptDepths DEF DepthsOK, Kept
<1> QED BY <1>1, <1>3 DEF DepthOK, DepthsOK, Kept

\* Nothing changes.
LEMMA StutterDepth == Structure /\ DepthOK /\ UNCHANGED vars => DepthOK'
<1> SUFFICES ASSUME Structure, DepthOK, UNCHANGED vars PROVE DepthOK'
  OBVIOUS
<1>1. /\ pc' = pc /\ ir' = ir /\ original' = original /\ depthMemo' = depthMemo
      /\ worklist' = worklist /\ leaves' = leaves /\ seq' = seq /\ heap' = heap
      /\ interior' = interior /\ roots' = roots /\ inOrder' = inOrder
  BY DEF vars
<1>2. PICK d : DepthsOK(d)
  BY DEF DepthOK
<1>3. Kept(d)'
  BY <1>1, <1>2, KeptDepths DEF DepthsOK, Kept
<1>4. Root' = Root
  BY <1>1, SameRoot
<1>5. pc' = "gather" => GatherRoom(d)'
  BY <1>1, <1>2, <1>4 DEF DepthsOK, GatherRoom
<1>6. pc' = "rank" => RankRoom(d)'
  BY <1>1, <1>2, <1>4 DEF DepthsOK, RankRoom
<1>7. pc' = "erase" => DOMAIN depthMemo' \cap ToSet(interior') = {}
  BY <1>1, <1>2 DEF DepthsOK
<1> QED BY <1>3, <1>5, <1>6, <1>7 DEF DepthOK, DepthsOK, Kept

\* Two operands weigh no more than their addition.
LEMMA OperandWeights ==
  ASSUME NEW G, NEW d, Potential(G, d), NEW u \in DOMAIN G, Len(G[u].operands) = 2,
         NEW p \in DOMAIN G, p = G[u].operands[1], NEW q \in DOMAIN G, q = G[u].operands[2]
  PROVE  /\ d[p] < d[u] /\ d[q] < d[u] /\ Weight(d)[p] + Weight(d)[q] <= Weight(d)[u]
<1>1. d[p] < d[u] /\ d[q] < d[u] /\ d[p] \in Nat /\ d[q] \in Nat /\ d[u] \in Nat
  BY WeightFacts DEF Potential
<1>2. Weight(d)[p] = 2^d[p] /\ Weight(d)[q] = 2^d[q] /\ Weight(d)[u] = 2^d[u]
  BY WeightFacts
<1>3. 2 * 2^d[p] <= 2^d[u] /\ 2 * 2^d[q] <= 2^d[u]
  BY <1>1, TwoPowerGrows
<1>4. 2^d[p] \in Nat /\ 2^d[q] \in Nat /\ 2^d[u] \in Nat
  BY <1>1, PowersOrdered
<1> QED BY <1>1, <1>2, <1>3, <1>4

\* The operands of a root have room below it.
LEMMA NextRootDepth == Structure /\ DepthOK /\ NextRoot => DepthOK'
<1> SUFFICES ASSUME Structure, DepthOK, NextRoot PROVE DepthOK'
  OBVIOUS
<1>1. /\ pc' = "gather" /\ ir' = ir /\ original' = original /\ depthMemo' = depthMemo
      /\ roots' = roots /\ inOrder' = inOrder
  BY DEF NextRoot
<1>2. PICK d : DepthsOK(d)
  BY DEF DepthOK
<1>3. Potential(ir, d) /\ Kept(d)' /\ Root' = Root
  BY <1>1, <1>2, KeptDepths, SameRoot DEF DepthsOK, Kept
<1>4. Weight(d) \in [Live -> Int]
  BY <1>3, WeightFacts DEF Live
<1>5. PICK x, p, q : NextRootSums(Weight(d), x, p, q)
  BY <1>4, NextRootSum
<1>6. d[p] < d[x] /\ d[q] < d[x] /\ Weight(d)[p] + Weight(d)[q] <= Weight(d)[x]
  BY <1>3, <1>5, OperandWeights DEF NextRootSums, Live
<1>7. x = Root /\ Weight(d)[x] = 2^d[Root]
  BY <1>3, <1>5, WeightFacts DEF NextRootSums, Live
<1>8. /\ SeqSum(Weight(d), worklist') + SeqSum(Weight(d), leaves') <= 2^d[Root]
      /\ \A i \in 1 .. Len(worklist') : d[worklist'[i]] < d[Root]
      /\ \A i \in 1 .. Len(leaves') : d[leaves'[i]] < d[Root]
  BY <1>5, <1>6, <1>7 DEF NextRootSums
<1>9. GatherRoom(d)'
  BY <1>3, <1>8 DEF GatherRoom
<1> QED BY <1>1, <1>3, <1>9 DEF DepthOK, DepthsOK, Kept

\* The operands of an addition have room where it had.
LEMMA VisitInteriorDepth == Structure /\ DepthOK /\ VisitInterior => DepthOK'
<1> SUFFICES ASSUME Structure, DepthOK, VisitInterior PROVE DepthOK'
  OBVIOUS
<1>1. /\ pc = "gather" /\ pc' = "gather" /\ ir' = ir /\ original' = original
      /\ depthMemo' = depthMemo /\ roots' = roots /\ inOrder' = inOrder /\ leaves' = leaves
  BY DEF VisitInterior
<1>2. PICK d : DepthsOK(d)
  BY DEF DepthOK
<1>3. Potential(ir, d) /\ Kept(d)' /\ Root' = Root /\ GatherRoom(d) /\ Root \in Live
      /\ leaves \in Seq(Live)
  BY <1>1, <1>2, KeptDepths, SameRoot, GatherFacts DEF DepthsOK, Kept
<1>4. Weight(d) \in [Live -> Int] /\ \A v \in Live : d[v] \in Nat /\ Weight(d)[v] \in Nat
  BY <1>3, WeightFacts DEF Live
<1>5. PICK v, p, q : VisitSums(Weight(d), v, p, q)
  BY <1>4, VisitInteriorSum
<1>6. d[p] < d[v] /\ d[q] < d[v] /\ Weight(d)[p] + Weight(d)[q] <= Weight(d)[v]
  BY <1>3, <1>5, OperandWeights DEF VisitSums, Live
<1>7. d[v] < d[Root]
  BY <1>3, <1>5 DEF VisitSums, GatherRoom
<1>8. d[p] < d[Root] /\ d[q] < d[Root]
  <2>1. d[p] \in Nat /\ d[q] \in Nat /\ d[v] \in Nat /\ d[Root] \in Nat
    BY <1>3, <1>4, <1>5 DEF VisitSums
  <2> QED BY <1>6, <1>7, <2>1
<1>9. \A i \in 1 .. Len(worklist') : d[worklist'[i]] < d[Root]
  BY <1>3, <1>5, <1>8 DEF VisitSums, GatherRoom
<1>10. SeqSum(Weight(d), leaves) \in Int
  <2>1. Len(leaves) \in 0 .. Len(leaves)
    BY <1>3
  <2>2. PrefixSum(Weight(d), leaves, Len(leaves)) \in Int
    BY <1>3, <1>4, <2>1, PrefixFacts
  <2> QED BY <2>2 DEF SeqSum
<1>11. SeqSum(Weight(d), worklist') + SeqSum(Weight(d), leaves) <= 2^d[Root]
  <2>1. /\ SeqSum(Weight(d), worklist) \in Int
        /\ SeqSum(Weight(d), worklist') =
             SeqSum(Weight(d), worklist) - Weight(d)[v] + Weight(d)[p] + Weight(d)[q]
    BY <1>5 DEF VisitSums
  <2>2. Weight(d)[v] \in Int /\ Weight(d)[p] \in Int /\ Weight(d)[q] \in Int
    BY <1>4, <1>5 DEF VisitSums
  <2>3. 2^d[Root] \in Nat
    BY <1>3, <1>4, PowersOrdered
  <2>4. SeqSum(Weight(d), worklist) + SeqSum(Weight(d), leaves) <= 2^d[Root]
    BY <1>3 DEF GatherRoom
  <2> QED BY ONLY <1>6, <1>10, <2>1, <2>2, <2>3, <2>4
<1>12. GatherRoom(d)'
  BY <1>1, <1>3, <1>9, <1>11 DEF GatherRoom
<1> QED BY <1>1, <1>3, <1>12 DEF DepthOK, DepthsOK, Kept

\* A leaf keeps its room, and is not the root itself.
LEMMA VisitLeafDepth == Structure /\ DepthOK /\ VisitLeaf => DepthOK' /\ Last(worklist) # Root
<1> SUFFICES ASSUME Structure, DepthOK, VisitLeaf PROVE DepthOK' /\ Last(worklist) # Root
  OBVIOUS
<1>1. /\ pc = "gather" /\ pc' = "gather" /\ ir' = ir /\ original' = original
      /\ depthMemo' = depthMemo /\ roots' = roots /\ inOrder' = inOrder
  BY DEF VisitLeaf
<1>2. PICK d : DepthsOK(d)
  BY DEF DepthOK
<1>3. Potential(ir, d) /\ Kept(d)' /\ Root' = Root /\ GatherRoom(d) /\ Root \in Live
  BY <1>1, <1>2, KeptDepths, SameRoot, GatherFacts DEF DepthsOK, Kept
<1>4. Weight(d) \in [Live -> Int] /\ \A v \in Live : d[v] \in Nat
  BY <1>3, WeightFacts DEF Live
<1>5. /\ SeqSum(Weight(d), worklist') + SeqSum(Weight(d), leaves') = SeqSum(Weight(d), worklist) + SeqSum(Weight(d), leaves)
      /\ \A i \in 1 .. Len(worklist') :
              \E j \in 1 .. Len(worklist) : worklist'[i] = worklist[j]
      /\ \A i \in 1 .. Len(leaves') : \/ \E j \in 1 .. Len(leaves) : leaves'[i] = leaves[j]
                                      \/ \E j \in 1 .. Len(worklist) : leaves'[i] = worklist[j]
      /\ \E j \in 1 .. Len(worklist) : worklist[j] = Last(worklist)
  BY <1>4, VisitLeafSum
<1>6. \A i \in 1 .. Len(worklist') : d[worklist'[i]] < d[Root]
  BY <1>3, <1>5 DEF GatherRoom
<1>7. \A i \in 1 .. Len(leaves') : d[leaves'[i]] < d[Root]
  BY <1>3, <1>5 DEF GatherRoom
<1>8. GatherRoom(d)'
  BY <1>3, <1>5, <1>6, <1>7 DEF GatherRoom
<1>9. Last(worklist) # Root
  <2>1. d[Last(worklist)] < d[Root]
    BY <1>3, <1>5 DEF GatherRoom
  <2>2. d[Root] \in Nat
    BY <1>3, <1>4
  <2> QED BY <2>1, <2>2
<1> QED BY <1>1, <1>3, <1>8, <1>9 DEF DepthOK, DepthsOK, Kept

-----------------------------------------------------------------------------
\* The depths through the ranking.

\* All leaves have room below the root.
LEMMA StartRankingDepth == Structure /\ DepthOK /\ StartRanking => DepthOK'
<1> SUFFICES ASSUME Structure, DepthOK, StartRanking PROVE DepthOK'
  OBVIOUS
<1>1. /\ pc = "gather" /\ pc' = "rank" /\ ir' = ir /\ original' = original
      /\ depthMemo' = depthMemo /\ roots' = roots /\ inOrder' = inOrder
  BY DEF StartRanking
<1>2. PICK d : DepthsOK(d)
  BY DEF DepthOK
<1>3. Kept(d)' /\ Root' = Root /\ GatherRoom(d) /\ Potential(ir, d)
  BY <1>1, <1>2, KeptDepths, SameRoot DEF DepthsOK, Kept
<1>4. PICK w : w = Weight(d)
  OBVIOUS
<1>5. /\ SeqSum(w, worklist) = 0 /\ HeapSum(w, heap, seq) = 0 /\ PrefixSum(w, leaves, seq) = 0
      /\ seq = 0 /\ heap = {} /\ Len(leaves) >= 3 /\ leaves \in Seq(Live)
      /\ leaves' = leaves /\ seq' = seq /\ heap' = heap
  BY StartSums
<1>6. SeqSum(w, leaves) \in Int
  <2>1. Len(leaves) \in 0 .. Len(leaves) /\ w \in [Live -> Int]
    BY <1>3, <1>4, <1>5, WeightFacts DEF Live
  <2>2. PrefixSum(w, leaves, Len(leaves)) \in Int
    BY <1>5, <2>1, PrefixFacts
  <2> QED BY <2>2 DEF SeqSum
<1>7. SeqSum(w, leaves) <= 2^d[Root] /\ \A i \in 1 .. Len(leaves) : d[leaves[i]] < d[Root]
  BY <1>3, <1>4, <1>5, <1>6 DEF GatherRoom
<1>8. (\A i \in 1 .. Len(leaves) : ~ (i <= seq)) /\ ~ (seq >= Len(leaves))
  BY <1>5
<1>9. RankRoom(d)'
  BY <1>3, <1>4, <1>5, <1>7, <1>8 DEF RankRoom
<1> QED BY <1>1, <1>3, <1>9 DEF DepthOK, DepthsOK, Kept

\* The memo's depths are no more than the numbers d.
LEMMA DepthBelow ==
  ASSUME Graph(ir), NEW d, Potential(ir, d), MemoHolds(d)
  PROVE  /\ Depth \in [Live -> Nat]
         /\ \A v \in Live : Depth[v] <= d[v]
         /\ \A v \in Live : v \in DOMAIN depthMemo => Depth[v] = d[v]
         /\ \A u \in Live : u \notin DOMAIN depthMemo =>
              \A k \in 1 .. Len(ir[u].operands) : Depth[ir[u].operands[k]] < Depth[u]
<1>1. \A v \in DOMAIN depthMemo : depthMemo[v] \in Nat
  BY WeightFacts DEF MemoHolds, Live
<1>2. /\ Depth \in [Live -> Nat]
      /\ \A v \in Live : Depth[v] = IF v \in DOMAIN depthMemo THEN depthMemo[v]
                                       ELSE Above(ir, Depth, v)
  BY <1>1, DepthFacts
<1>3. PICK f : f = Depth
  OBVIOUS
<1>4. /\ f \in [Live -> Nat] /\ \A v \in Live : d[v] \in Nat
      /\ \A v \in Live : v \in DOMAIN depthMemo => f[v] = d[v]
      /\ \A u \in Live : \A k \in 1 .. Len(ir[u].operands) :
           ir[u].operands[k] \in Live /\ d[ir[u].operands[k]] < d[u]
  BY <1>2, <1>3, OperandFacts, WeightFacts DEF MemoHolds, Live, Potential
<1>5. ASSUME NEW u \in Live, u \notin DOMAIN depthMemo
      PROVE  /\ \A k \in 1 .. Len(ir[u].operands) : f[ir[u].operands[k]] < f[u]
             /\ \A b \in Nat : (\A k \in 1 .. Len(ir[u].operands) : f[ir[u].operands[k]] < b) => f[u] <= b
  <2>1. \A k \in 1 .. Len(ir[u].operands) : f[ir[u].operands[k]] \in Nat
    BY <1>4
  <2>2. PICK a : a = Above(ir, f, u)
    OBVIOUS
  <2>3. /\ \A k \in 1 .. Len(ir[u].operands) : f[ir[u].operands[k]] < a
        /\ \A b \in Nat : (\A k \in 1 .. Len(ir[u].operands) : f[ir[u].operands[k]] < b) => a <= b
    BY <2>1, <2>2, HeightFacts DEF Live
  <2>4. f[u] = a
    BY <1>2, <1>3, <1>5, <2>2
  <2> QED BY <2>3, <2>4
<1> DEFINE B == {v \in Live : f[v] <= d[v]}
<1>6. ASSUME NEW v \in Live, \A k \in 1 .. Len(ir[v].operands) : ir[v].operands[k] \in B
      PROVE  v \in B
  <2>1. CASE v \in DOMAIN depthMemo
    BY <1>4, <2>1
  <2>2. CASE v \notin DOMAIN depthMemo
    <3>1. \A k \in 1 .. Len(ir[v].operands) : f[ir[v].operands[k]] < d[v]
      <4> SUFFICES ASSUME NEW k \in 1 .. Len(ir[v].operands) PROVE f[ir[v].operands[k]] < d[v]
        OBVIOUS
      <4>1. PICK o \in Live : o = ir[v].operands[k]
        BY <1>4
      <4>2. f[o] <= d[o] /\ d[o] < d[v] /\ f[o] \in Nat /\ d[o] \in Nat /\ d[v] \in Nat
        BY <1>4, <1>6, <4>1
      <4> QED BY <4>1, <4>2
    <3>2. f[v] <= d[v]
      BY <1>4, <1>5, <2>2, <3>1
    <3> QED BY <3>2
  <2> QED BY <2>1, <2>2
<1> HIDE DEF B
<1>7. \A v \in Live : v \in B
  BY <1>6, Everywhere DEF Live
<1>8. \A v \in Live : f[v] <= d[v]
  BY <1>7 DEF B
<1> QED BY <1>2, <1>3, <1>4, <1>5, <1>8

\* The ranking of a leaf lowers numbers of what its search finds.
Lowered(d, S) == [v \in Live |-> IF v \in S THEN Depth[v] ELSE d[v]]

LoweredOK(d, S, e, leaf) ==
  /\ Potential(ir, e) /\ \A v \in Live : e[v] <= d[v] /\ e[v] \in Nat /\ d[v] \in Nat
  /\ \A v \in DOMAIN depthMemo : e[v] = d[v]
  /\ \A v \in DOMAIN depthMemo \cup S : v \in Live /\ e[v] = Depth[v]
  /\ leaf \in DOMAIN depthMemo \cup S /\ Depth[leaf] \in Nat
  /\ \A r \in Live : d[leaf] < d[r] => e[r] = d[r]

\* The depths of what getDepth searches can be lowered to what it finds.
LEMMA LoweredFacts ==
  ASSUME Graph(ir), NEW d, Potential(ir, d), MemoHolds(d), NEW leaf \in Live,
         NEW S, S = Searched[leaf], NEW e, e = Lowered(d, S)
  PROVE  LoweredOK(d, S, e, leaf)
<1>1. /\ Depth \in [Live -> Nat]
      /\ \A v \in Live : Depth[v] <= d[v]
      /\ \A v \in Live : v \in DOMAIN depthMemo => Depth[v] = d[v]
      /\ \A u \in Live : u \notin DOMAIN depthMemo =>
           \A k \in 1 .. Len(ir[u].operands) : Depth[ir[u].operands[k]] < Depth[u]
  BY DepthBelow
<1>2. PICK f : f = Depth
  OBVIOUS
<1>3. /\ S \subseteq Live \ DOMAIN depthMemo
      /\ leaf \in S \cup DOMAIN depthMemo
      /\ \A v \in S : \A k \in 1 .. Len(ir[v].operands) :
              ir[v].operands[k] \in S \cup DOMAIN depthMemo
      /\ \A v \in S : d[v] <= d[leaf]
  <2>1. Found(ir, depthMemo, Searched)
    BY SearchedIsFound
  <2>2. Slope(ir, d)
    BY PotentialSlope
  <2>3. PICK s : s = Searched
    OBVIOUS
  <2>4. /\ s[leaf] \subseteq Live \ DOMAIN depthMemo
        /\ leaf \in s[leaf] \cup DOMAIN depthMemo
        /\ \A v \in s[leaf] : \A k \in 1 .. Len(ir[v].operands) :
              ir[v].operands[k] \in s[leaf] \cup DOMAIN depthMemo
        /\ \A l : Slope(ir, l) => \A v \in s[leaf] : l[v] <= l[leaf]
    BY <2>1, <2>3, FoundFacts DEF Live
  <2> QED BY <2>2, <2>3, <2>4
<1>4. e = [v \in Live |-> IF v \in S THEN f[v] ELSE d[v]]
  BY <1>2 DEF Lowered
<1>5. DOMAIN depthMemo \subseteq Live
  BY DEF MemoHolds
<1>6. /\ \A v \in Live : d[v] \in Nat /\ f[v] \in Nat /\ f[v] <= d[v]
      /\ \A v \in Live : v \in DOMAIN depthMemo => f[v] = d[v]
      /\ \A u \in Live : u \notin DOMAIN depthMemo =>
           \A k \in 1 .. Len(ir[u].operands) : f[ir[u].operands[k]] < f[u]
      /\ \A u \in Live : \A k \in 1 .. Len(ir[u].operands) :
           ir[u].operands[k] \in Live /\ d[ir[u].operands[k]] < d[u]
  BY <1>1, <1>2, OperandFacts, WeightFacts DEF Live, Potential
<1>7. \A v \in Live : e[v] <= d[v] /\ e[v] \in Nat /\ d[v] \in Nat
  BY <1>4, <1>6
<1>8. \A v \in DOMAIN depthMemo : e[v] = d[v]
  BY <1>3, <1>4, <1>5
<1>9. \A v \in DOMAIN depthMemo \cup S : v \in Live /\ e[v] = f[v]
  BY <1>3, <1>4, <1>5, <1>6
<1>10. \A r \in Live : d[leaf] < d[r] => e[r] = d[r]
  <2> SUFFICES ASSUME NEW r \in Live, d[leaf] < d[r] PROVE e[r] = d[r]
    OBVIOUS
  <2>1. r \notin S
    <3>1. d[leaf] \in Nat /\ d[r] \in Nat
      BY <1>6
    <3> QED BY <1>3, <3>1
  <2> QED BY <1>4, <2>1
<1>11. ASSUME NEW u \in Live, NEW k \in 1 .. Len(ir[u].operands)
       PROVE  e[ir[u].operands[k]] < e[u]
  <2>1. PICK o : o = ir[u].operands[k] /\ o \in Live /\ d[o] < d[u]
    BY <1>6
  <2>2. CASE u \in S
    <3>1. u \notin DOMAIN depthMemo /\ o \in S \cup DOMAIN depthMemo
      BY <1>3, <2>1, <2>2
    <3>2. f[o] < f[u]
      BY <1>6, <2>1, <3>1
    <3>3. e[o] = f[o] /\ e[u] = f[u]
      BY <1>9, <2>2, <3>1
    <3> QED BY <2>1, <3>2, <3>3
  <2>3. CASE u \notin S
    <3>1. e[u] = d[u]
      BY <1>4, <2>3
    <3>2. e[o] <= d[o] /\ e[o] \in Nat /\ d[o] \in Nat /\ d[u] \in Nat
      BY <1>7, <2>1
    <3> QED BY <2>1, <3>1, <3>2
  <2> QED BY <2>2, <2>3
<1>12. \E m \in Nat : \A v \in Live : e[v] <= m
  <2>1. PICK m \in Nat : \A v \in Live : d[v] <= m
    BY DEF Potential, Live
  <2>2. ASSUME NEW v \in Live PROVE e[v] <= m
    <3>1. e[v] <= d[v] /\ e[v] \in Nat /\ d[v] \in Nat /\ d[v] <= m
      BY <1>7, <2>1
    <3> QED BY <3>1
  <2> QED BY <2>2
<1>13. e \in [Live -> Nat]
  BY <1>4, <1>6
<1>14. Potential(ir, e)
  BY <1>11, <1>12, <1>13 DEF Potential, Live
<1>15. Depth[leaf] \in Nat
  BY <1>1
<1> QED BY <1>2, <1>3, <1>7, <1>8, <1>9, <1>10, <1>14, <1>15 DEF LoweredOK

\* What getDepth finds is what the memo and the queue hold from then on.
LEMMA RankLeafDepth ==
  Structure /\ DepthOK /\ RankLeaf => DepthOK' /\ Depth[leaves[seq + 1]] \in Nat
<1> SUFFICES ASSUME Structure, DepthOK, RankLeaf
             PROVE  DepthOK' /\ Depth[leaves[seq + 1]] \in Nat
  OBVIOUS
<1>1. /\ pc = "rank" /\ pc' = "rank" /\ seq < Len(leaves) /\ seq' = seq + 1
      /\ leaves' = leaves /\ inOrder' = inOrder /\ ir' = ir /\ roots' = roots
      /\ original' = original
  BY DEF RankLeaf
<1>2. PICK d : DepthsOK(d)
  BY DEF DepthOK
<1>3. /\ Potential(ir, d) /\ MemoHolds(d) /\ NotAbove(d) /\ RankRoom(d)
  BY <1>1, <1>2 DEF DepthsOK
<1>4. /\ Graph(ir) /\ Root \in Live /\ Nodes(heap, seq, Live) /\ seq \in Nat /\ Len(leaves) \in Nat
      /\ leaves \in Seq(Live) /\ \A i \in 1 .. Len(leaves) : leaves[i] \in Live
  BY <1>1, RankFacts
<1>5. PICK leaf, S, e : leaf = leaves[seq + 1] /\ S = Searched[leaf] /\ e = Lowered(d, S)
  OBVIOUS
<1>6. seq + 1 \in 1 .. Len(leaves) /\ seq \in 0 .. Len(leaves) /\ leaf \in Live
  BY <1>1, <1>4, <1>5
<1>7. LoweredOK(d, S, e, leaf)
  BY <1>3, <1>4, <1>5, <1>6, LoweredFacts
<1>8. /\ Potential(ir, e) /\ \A v \in Live : e[v] <= d[v] /\ e[v] \in Nat /\ d[v] \in Nat
      /\ \A v \in DOMAIN depthMemo : e[v] = d[v]
      /\ \A v \in DOMAIN depthMemo \cup S : v \in Live /\ e[v] = Depth[v]
      /\ leaf \in DOMAIN depthMemo \cup S /\ Depth[leaf] \in Nat
      /\ \A r \in Live : d[leaf] < d[r] => e[r] = d[r]
  BY <1>7 DEF LoweredOK
<1>9. depthMemo' = [v \in DOMAIN depthMemo \cup S |-> Depth[v]]
  BY <1>5 DEF RankLeaf
<1>10. DOMAIN depthMemo' = DOMAIN depthMemo \cup S /\ \A v \in DOMAIN depthMemo' : depthMemo'[v] = e[v]
  BY <1>8, <1>9
<1>11. Live' = Live /\ Root' = Root
  BY <1>1, SameProgram, SameRoot
<1>12. MemoHolds(e)'
  BY <1>8, <1>10, <1>11 DEF MemoHolds
<1>13. NotAbove(e)'
  <2>1. ASSUME NEW v \in Live \cap DOMAIN original PROVE e[v] <= TrueDepths(original)[v]
    <3>1. e[v] <= d[v] /\ d[v] <= TrueDepths(original)[v] /\ e[v] \in Nat /\ d[v] \in Nat
      BY <1>3, <1>8 DEF NotAbove
    <3>2. TrueDepths(original)[v] \in Nat
      <4>1. OriginalOK /\ Graph(original)
        BY DEF Structure, OriginalOK
      <4> QED BY <4>1, OriginalPotential, TrueDepthFacts
    <3> QED BY <3>1, <3>2
  <2> QED BY <1>1, <1>11, <2>1 DEF NotAbove
<1>14. d[leaf] < d[Root] /\ e[Root] = d[Root]
  <2>1. d[leaf] < d[Root]
    BY <1>3, <1>5, <1>6 DEF RankRoom
  <2> QED BY <1>4, <1>8, <2>1
<1>15. PICK w, y : w = Weight(d) /\ y = Weight(e)
  OBVIOUS
<1>16. /\ w \in [Live -> Int] /\ y \in [Live -> Int]
       /\ \A v \in Live : w[v] = 2^d[v] /\ y[v] = 2^e[v] /\ y[v] <= w[v]
  <2>1. /\ w \in [Live -> Int] /\ y \in [Live -> Int]
        /\ \A v \in Live : w[v] = 2^d[v] /\ y[v] = 2^e[v]
    BY <1>3, <1>8, <1>15, WeightFacts DEF Live
  <2>2. \A v \in Live : 2^e[v] <= 2^d[v]
    BY <1>8, PowersOrdered
  <2> QED BY <2>1, <2>2
<1>17. \A i \in 1 .. Len(leaves) : e[leaves[i]] < e[Root]
  <2> SUFFICES ASSUME NEW i \in 1 .. Len(leaves) PROVE e[leaves[i]] < e[Root]
    OBVIOUS
  <2>1. PICK l : l = leaves[i] /\ l \in Live
    BY <1>4
  <2>2. e[l] <= d[l] /\ d[l] < d[Root] /\ e[l] \in Nat /\ d[l] \in Nat /\ d[Root] \in Nat
    BY <1>3, <1>4, <1>8, <2>1 DEF RankRoom
  <2> QED BY <1>14, <2>1, <2>2
<1>18. SeqSum(y, leaves) <= 2^e[Root]
  <2>1. SeqSum(y, leaves) <= SeqSum(w, leaves)
    BY <1>4, <1>16, SeqSumLess
  <2>2. SeqSum(w, leaves) <= 2^e[Root]
    BY <1>3, <1>14, <1>15 DEF RankRoom
  <2>3. SeqSum(y, leaves) \in Int /\ SeqSum(w, leaves) \in Int /\ 2^e[Root] \in Nat
    <3>1. Len(leaves) \in 0 .. Len(leaves)
      BY <1>4
    <3>2. PrefixSum(y, leaves, Len(leaves)) \in Int /\ PrefixSum(w, leaves, Len(leaves)) \in Int
      BY <1>4, <1>16, <3>1, PrefixFacts
    <3>3. 2^e[Root] \in Nat
      BY <1>4, <1>8, PowersOrdered
    <3> QED BY <3>2, <3>3 DEF SeqSum
  <2> QED BY <2>1, <2>2, <2>3
<1>19. \A i \in 1 .. Len(leaves) : i <= seq + 1 => leaves[i] \in DOMAIN depthMemo'
  <2> SUFFICES ASSUME NEW i \in 1 .. Len(leaves), i <= seq + 1
               PROVE  leaves[i] \in DOMAIN depthMemo'
    OBVIOUS
  <2>1. i <= seq \/ i = seq + 1
    BY <1>4
  <2>2. i <= seq => leaves[i] \in DOMAIN depthMemo
    BY <1>3 DEF RankRoom
  <2> QED BY <1>5, <1>8, <1>10, <2>1, <2>2
<1>20. /\ \A x \in heap : x.value \in DOMAIN depthMemo /\ x.rank = d[x.value]
       /\ HeapSum(w, heap, seq) = PrefixSum(w, leaves, seq)
  <2>1. seq <= Len(leaves)
    BY <1>1, <1>4
  <2> QED BY <1>3, <1>15, <2>1 DEF RankRoom
<1>21. /\ HeapSum(y, heap', seq') = HeapSum(y, heap, seq) + y[leaf]
       /\ PrefixSum(y, leaves, seq + 1) = PrefixSum(y, leaves, seq) + y[leaf]
       /\ \A x \in heap : x.seq < Len(leaves)
       /\ heap' = heap \cup {Node(leaf, Depth[leaf], seq)}
  BY <1>5, <1>8, <1>16, RankLeafSum
<1>22. HeapSum(y, heap, seq) = HeapSum(w, heap, seq)
  <2>1. \A x \in heap : y[x.value] = w[x.value]
    BY <1>8, <1>16, <1>20
  <2> QED BY <1>4, <2>1, HeapSumSame
<1>23. PrefixSum(y, leaves, seq) = PrefixSum(w, leaves, seq)
  <2>1. \A i \in 1 .. seq : y[leaves[i]] = w[leaves[i]]
    <3> SUFFICES ASSUME NEW i \in 1 .. seq PROVE y[leaves[i]] = w[leaves[i]]
      OBVIOUS
    <3>1. i \in 1 .. Len(leaves) /\ i <= seq
      BY <1>1, <1>4
    <3>2. leaves[i] \in DOMAIN depthMemo
      BY <1>3, <3>1 DEF RankRoom
    <3> QED BY <1>8, <1>16, <3>2
  <2> QED BY <1>4, <1>6, <2>1, SeqSumSame
<1>24. HeapSum(y, heap', seq') = PrefixSum(y, leaves, seq')
  BY <1>1, <1>20, <1>21, <1>22, <1>23
<1>25. \A x \in heap' : /\ x.value \in DOMAIN depthMemo' /\ x.rank = e[x.value]
                        /\ x.seq < Len(leaves)
  <2> SUFFICES ASSUME NEW x \in heap'
               PROVE  /\ x.value \in DOMAIN depthMemo' /\ x.rank = e[x.value]
                      /\ x.seq < Len(leaves)
    OBVIOUS
  <2>1. CASE x \in heap
    BY <1>8, <1>10, <1>20, <1>21, <2>1
  <2>2. CASE x = Node(leaf, Depth[leaf], seq)
    <3>1. x.value = leaf /\ x.rank = Depth[leaf] /\ x.seq = seq
      BY <2>2 DEF Node
    <3> QED BY <1>1, <1>8, <1>10, <3>1
  <2> QED BY <1>21, <2>1, <2>2
<1>26. \A x \in heap' : ~ (x.seq >= Len(leaves))
  <2>1. ASSUME NEW x \in heap' PROVE ~ (x.seq >= Len(leaves))
    <3>1. x.seq \in Int
      <4>1. CASE x \in heap
        BY <1>4, <4>1, NodeFacts
      <4>2. CASE x = Node(leaf, Depth[leaf], seq)
        BY <1>4, <4>2 DEF Node
      <4> QED BY <1>21, <4>1, <4>2
    <3> QED BY <1>4, <1>25, <3>1
  <2> QED BY <2>1
<1>27. seq' >= Len(leaves) =>
         \A D \in Nat : SeqSum(y, leaves) <= 2^D <=> HeapSum(y, heap', seq') <= 2^D
  <2> SUFFICES ASSUME seq' >= Len(leaves)
               PROVE  SeqSum(y, leaves) = HeapSum(y, heap', seq')
    OBVIOUS
  <2>1. seq' = Len(leaves)
    BY <1>1, <1>4
  <2> QED BY <1>24, <2>1 DEF SeqSum
<1>28. RankRoom(e)'
  BY <1>1, <1>11, <1>15, <1>17, <1>18, <1>19, <1>24, <1>25, <1>26, <1>27 DEF RankRoom
<1>29. Potential(ir', e)
  BY <1>1, <1>8
<1> QED BY <1>1, <1>5, <1>8, <1>12, <1>13, <1>28, <1>29 DEF DepthOK, DepthsOK

\* A new addition is as deep as its node says, and the queue has room below 2^D
\* for the same D as before.
LEMMA CombineDepth == Structure /\ DepthOK /\ Combine => DepthOK'
<1> SUFFICES ASSUME Structure, DepthOK, Combine PROVE DepthOK'
  OBVIOUS
<1>1. /\ pc = "rank" /\ pc' = "rank" /\ seq >= Len(leaves) /\ seq' = seq + 1
      /\ leaves' = leaves /\ original' = original /\ depthMemo' = depthMemo /\ Root' = Root
  BY CombineFacts
<1>2. PICK a, b, s, rb : CombineOf(a, b, s, rb)
  BY CombineFacts
<1>3. PICK d : DepthsOK(d)
  BY DEF DepthOK
<1>4. /\ Potential(ir, d) /\ MemoHolds(d) /\ NotAbove(d) /\ RankRoom(d)
  BY <1>1, <1>3 DEF DepthsOK
<1>5. /\ Graph(ir) /\ Root \in Live /\ Nodes(heap, seq, Live) /\ seq \in Nat /\ Len(leaves) \in Nat
      /\ leaves \in Seq(Live) /\ \A i \in 1 .. Len(leaves) : leaves[i] \in Live
  BY <1>1, RankFacts
<1>6. PICK W : W = Live'
  OBVIOUS
<1>7. /\ W = Live \cup {s} /\ s \in Nat \ Live /\ DOMAIN ir' = W
      /\ \A u \in Live : ir'[u] = ir[u]
      /\ Len(ir'[s].operands) = 2
      /\ ir'[s].operands[1] = a.value /\ ir'[s].operands[2] = b.value
      /\ a \in heap /\ b \in heap /\ a.rank \in Nat /\ b.rank \in Nat /\ a.rank <= b.rank
      /\ a.value \in Live /\ b.value \in Live
      /\ heap' = (heap \ {a, b}) \cup {Node(s, b.rank + 1, seq)}
  BY <1>2, <1>6 DEF CombineOf, Added, Live
<1>8. \A x \in heap : x.rank = d[x.value] /\ x.value \in Live
  <2>1. \A x \in heap : x.value \in Live
    BY <1>5, NodeFacts
  <2> QED BY <1>4, <2>1 DEF RankRoom
<1>9. PICK e : e = [v \in W |-> IF v = s THEN b.rank + 1 ELSE d[v]]
  OBVIOUS
<1>10. \A v \in Live : d[v] \in Nat /\ e[v] = d[v]
  <2>1. \A v \in Live : d[v] \in Nat
    BY <1>4, WeightFacts DEF Live
  <2> QED BY <1>7, <1>9, <2>1
<1>11. e[s] = b.rank + 1 /\ e \in [W -> Nat]
  BY <1>7, <1>9, <1>10
<1>12. Potential(ir', e)
  <2>1. ASSUME NEW u \in W, NEW k \in 1 .. Len(ir'[u].operands) PROVE e[ir'[u].operands[k]] < e[u]
    <3>1. CASE u = s
      <4>1. k = 1 \/ k = 2
        <5>1. Len(ir'[u].operands) = 2
          BY <1>7, <3>1
        <5>2. k \in 1 .. 2
          BY <5>1
        <5> QED BY <5>2
      <4>2. e[a.value] = a.rank /\ e[b.value] = b.rank
        BY <1>7, <1>8, <1>10
      <4> QED BY <1>7, <1>11, <3>1, <4>1, <4>2
    <3>2. CASE u # s
      <4>1. u \in Live /\ ir'[u] = ir[u]
        BY <1>7, <3>2
      <4>2. ir[u].operands[k] \in Live /\ d[ir[u].operands[k]] < d[u]
        BY <1>4, <1>5, <4>1, OperandFacts DEF Potential, Live
      <4> QED BY <1>10, <4>1, <4>2
    <3> QED BY <3>1, <3>2
  <2>2. \E m \in Nat : \A v \in W : e[v] <= m
    <3>1. PICK m \in Nat : \A v \in Live : d[v] <= m
      BY <1>4 DEF Potential, Live
    <3>2. m + (b.rank + 1) \in Nat /\ \A v \in W : e[v] <= m + (b.rank + 1)
      BY <1>7, <1>10, <1>11, <3>1
    <3> QED BY <3>2
  <2> QED BY <1>7, <1>11, <2>1, <2>2 DEF Potential
<1>13. MemoHolds(e)'
  BY <1>1, <1>4, <1>6, <1>7, <1>10 DEF MemoHolds
<1>14. NotAbove(e)'
  <2>1. s \notin DOMAIN original
    <3>1. PICK v \in Live : \A u \in DOMAIN original : u <= v
      BY DEF Structure, NumbersOK
    <3>2. v < s /\ v \in Nat
      BY <1>2, <1>5 DEF CombineOf, Graph, Live
    <3>3. ~ (s <= v)
      BY <1>7, <3>2
    <3> QED BY <3>1, <3>3
  <2> QED BY <1>1, <1>4, <1>6, <1>7, <1>10, <2>1 DEF NotAbove
<1>15. PICK w, y : w = Weight(d) /\ y = Weight(e)
  OBVIOUS
<1>16. /\ y \in [W -> Int] /\ \A v \in Live : y[v] = w[v]
       /\ y[s] = 2^(b.rank + 1)
  <2>1. y \in [W -> Int] /\ \A v \in W : y[v] = 2^e[v]
    BY <1>7, <1>12, <1>15, WeightFacts
  <2>2. \A v \in Live : w[v] = 2^d[v]
    BY <1>4, <1>15, WeightFacts DEF Live
  <2> QED BY <1>7, <1>10, <1>11, <2>1, <2>2
<1>17. SeqSum(y, leaves) = SeqSum(w, leaves)
  <2>1. Len(leaves) \in 0 .. Len(leaves) /\ \A i \in 1 .. Len(leaves) : y[leaves[i]] = w[leaves[i]]
    BY <1>5, <1>16
  <2>2. PrefixSum(y, leaves, Len(leaves)) = PrefixSum(w, leaves, Len(leaves))
    BY <1>5, <2>1, SeqSumSame
  <2> QED BY <2>2 DEF SeqSum
<1>18. HeapSum(y, heap, seq) = HeapSum(w, heap, seq)
  <2>1. \A x \in heap : y[x.value] = w[x.value]
    BY <1>8, <1>16
  <2> QED BY <1>5, <2>1, HeapSumSame
<1>19. HeapSum(y, heap', seq') = HeapSum(w, heap, seq) - w[a.value] - w[b.value] + 2^(b.rank + 1)
  <2>1. HeapSum(y, heap', seq') = HeapSum(y, heap, seq) - y[a.value] - y[b.value] + y[s]
    BY <1>2, <1>6, <1>16, CombineSum
  <2> QED BY <1>7, <1>16, <1>18, <2>1
<1>20. ASSUME NEW D \in Nat PROVE SeqSum(y, leaves) <= 2^D <=> HeapSum(y, heap', seq') <= 2^D
  <2>1. SeqSum(w, leaves) <= 2^D <=> HeapSum(w, heap, seq) <= 2^D
    BY <1>1, <1>4, <1>15 DEF RankRoom
  <2>2. HeapSum(w, heap, seq) <= 2^D
           <=> HeapSum(w, heap, seq) - w[a.value] - w[b.value] + 2^(b.rank + 1) <= 2^D
    BY <1>2, <1>4, <1>8, <1>15, CombineKraft
  <2> QED BY <1>17, <1>19, <2>1, <2>2
<1>21. \A x \in heap' : x.rank = e[x.value] /\ (x.seq >= Len(leaves) => x.rank >= 1)
  <2> SUFFICES ASSUME NEW x \in heap'
               PROVE  x.rank = e[x.value] /\ (x.seq >= Len(leaves) => x.rank >= 1)
    OBVIOUS
  <2>1. CASE x \in heap
    BY <1>4, <1>8, <1>10, <2>1 DEF RankRoom
  <2>2. CASE x = Node(s, b.rank + 1, seq)
    <3>1. x.value = s /\ x.rank = b.rank + 1
      BY <2>2 DEF Node
    <3> QED BY <1>7, <1>11, <3>1
  <2> QED BY <1>7, <2>1, <2>2
<1>22. /\ \A i \in 1 .. Len(leaves) : e[leaves[i]] < e[Root]
       /\ SeqSum(y, leaves) <= 2^e[Root]
  BY <1>4, <1>5, <1>10, <1>15, <1>17 DEF RankRoom
<1>23. \A i \in 1 .. Len(leaves) : leaves[i] \in DOMAIN depthMemo
  <2> SUFFICES ASSUME NEW i \in 1 .. Len(leaves) PROVE leaves[i] \in DOMAIN depthMemo
    OBVIOUS
  <2>1. i <= seq
    BY <1>1, <1>5
  <2> QED BY <1>4, <2>1 DEF RankRoom
<1>24. ~ (seq' <= Len(leaves))
  BY <1>1, <1>5
<1>25. RankRoom(e)'
  BY <1>1, <1>15, <1>20, <1>21, <1>22, <1>23, <1>24 DEF RankRoom
<1> QED BY <1>1, <1>12, <1>13, <1>14, <1>25 DEF DepthOK, DepthsOK

-----------------------------------------------------------------------------
\* The depths through the erasing, and the first results.

\* The members of a tail.
LEMMA TailSet ==
  ASSUME NEW V, NEW w \in Seq(V), w # <<>>
  PROVE  ToSet(Tail(w)) \subseteq ToSet(w) /\ w[1] \in ToSet(w)
<1>1. PICK n, t : n = Len(w) /\ t = Tail(w)
  OBVIOUS
<1>2. n \in Nat \ {0} /\ t \in Seq(V) /\ Len(t) = n - 1 /\ \A i \in 1 .. n - 1 : t[i] = w[i + 1]
  BY <1>1, TailFacts
<1>3. \A v : v \in ToSet(w) <=> \E i \in 1 .. n : w[i] = v
  BY <1>1, ToSetFacts
<1>4. \A v : v \in ToSet(t) <=> \E i \in 1 .. n - 1 : t[i] = v
  BY <1>2, ToSetFacts
<1>5. \A i \in 1 .. n - 1 : i + 1 \in 1 .. n
  BY <1>2
<1>6. 1 \in 1 .. n
  BY <1>2
<1> QED BY <1>1, <1>2, <1>3, <1>4, <1>5, <1>6

\* The one node that is left of the queue.
LEMMA LastNode ==
  ASSUME Structure, pc = "rank", seq >= Len(leaves), Cardinality(heap) = 1, NEW d, DepthsOK(d)
  PROVE  \E x : /\ x = Least(heap) /\ heap = {x} /\ x.rank \in Nat /\ x.rank >= 1 /\ x.rank = d[x.value]
                /\ \A D \in Nat : SeqSum(Weight(d), leaves) <= 2^D <=> x.rank <= D
<1>1. /\ Nodes(heap, seq, Live) /\ Len(leaves) \in Nat /\ Len(leaves) >= 3 /\ seq \in Nat
      /\ Cardinality(heap) = IF seq <= Len(leaves) THEN seq ELSE 2 * Len(leaves) - seq
  BY RankFacts
<1>2. Potential(ir, d) /\ RankRoom(d)
  BY DEF DepthsOK
<1>3. PICK x : x = Least(heap) /\ heap = {x}
  BY <1>1, OneLeast
<1>4. x.value \in Live /\ x.rank \in Nat
  BY <1>1, <1>3, NodeFacts
<1>5. x.seq >= Len(leaves)
  <2>1. seq > Len(leaves)
    BY <1>1
  <2>2. PICK y \in heap : y.seq = seq - 1
    BY <2>1 DEF Structure, HeapOK
  <2>3. seq - 1 >= Len(leaves)
    BY <1>1, <2>1
  <2> QED BY <1>3, <2>2, <2>3
<1>6. x.rank = d[x.value] /\ x.rank >= 1
  BY <1>2, <1>3, <1>5 DEF RankRoom
<1>7. PICK w : w = Weight(d)
  OBVIOUS
<1>8. w \in [Live -> Int] /\ w[x.value] = 2^x.rank
  BY <1>2, <1>4, <1>6, <1>7, WeightFacts DEF Live
<1>9. HeapSum(w, heap, seq) = 2^x.rank
  <2>1. HeapSum(w, heap, seq) = w[x.value]
    <3>1. Nodes(heap, seq, Live) /\ heap = {x} /\ w \in [Live -> Int]
      BY <1>1, <1>3, <1>8
    <3> QED BY ONLY <3>1, HeapSumOne
  <2> QED BY <1>8, <2>1
<1>10. ASSUME NEW D \in Nat PROVE SeqSum(w, leaves) <= 2^D <=> x.rank <= D
  <2>1. SeqSum(w, leaves) <= 2^D <=> 2^x.rank <= 2^D
    BY <1>2, <1>7, <1>9 DEF RankRoom
  <2>2. 2^x.rank <= 2^D <=> x.rank <= D
    BY <1>4, PowersOrdered
  <2> QED BY <2>1, <2>2
<1> QED BY <1>3, <1>4, <1>6, <1>7, <1>10

\* The new root is no deeper than the old.
LEMMA NewRootBelow ==
  ASSUME Structure, Replace, NEW d, DepthsOK(d), NEW x, NEW top, ReplaceOf(x, top)
  PROVE  d[top] \in Nat /\ d[Root] \in Nat /\ d[top] <= d[Root]
<1>1. pc = "rank" /\ seq >= Len(leaves) /\ Cardinality(heap) = 1
  BY DEF Replace
<1>2. PICK y : /\ y = Least(heap) /\ y.rank \in Nat /\ y.rank = d[y.value]
               /\ \A D \in Nat : SeqSum(Weight(d), leaves) <= 2^D <=> y.rank <= D
  BY <1>1, LastNode
<1>3. x = y /\ top = x.value
  BY <1>2 DEF ReplaceOf
<1>4. SeqSum(Weight(d), leaves) <= 2^d[Root] /\ Potential(ir, d)
  BY <1>1 DEF DepthsOK, RankRoom
<1>5. d[Root] \in Nat
  BY <1>1, <1>4, RankFacts, WeightFacts DEF Live
<1> QED BY <1>2, <1>3, <1>4, <1>5

\* The new root is no deeper than the old, so that no user is; the memo loses
\* what will be erased.
LEMMA ReplaceDepth == Structure /\ DepthOK /\ Replace => DepthOK'
<1> SUFFICES ASSUME Structure, DepthOK, Replace PROVE DepthOK'
  OBVIOUS
<1>1. /\ pc = "rank" /\ pc' = "erase" /\ original' = original /\ interior' = Tail(interior)
      /\ depthMemo' = Without(depthMemo, ToSet(interior))
  BY DEF Replace
<1>2. PICK x, top : ReplaceOf(x, top) /\ Peel(Root, top)
  BY ReplaceFacts
<1>3. PICK d : DepthsOK(d)
  BY DEF DepthOK
<1>4. Potential(ir, d) /\ MemoHolds(d) /\ NotAbove(d)
  BY <1>3 DEF DepthsOK
<1>5. d[top] \in Nat /\ d[Root] \in Nat /\ d[top] <= d[Root]
  BY <1>2, <1>3, NewRootBelow
<1>6. /\ Rewired(ir, ir', Root, top) /\ top \in Live \ {Root}
  BY <1>2 DEF ReplaceOf
<1>7. /\ Live' = Live \ {Root} /\ Graph(ir')
      /\ \A u \in Live' :
           /\ Len(ir'[u].operands) = Len(ir[u].operands)
           /\ \A k \in 1 .. Len(ir[u].operands) :
                ir'[u].operands[k] = IF ir[u].operands[k] = Root THEN top ELSE ir[u].operands[k]
  BY <1>6 DEF Rewired, Live
<1>8. PICK W, e : W = Live' /\ e = [v \in W |-> d[v]]
  OBVIOUS
<1>9. /\ \A v \in Live : d[v] \in Nat
      /\ \A u \in Live : \A k \in 1 .. Len(ir[u].operands) :
           ir[u].operands[k] \in Live /\ d[ir[u].operands[k]] < d[u]
  <2>1. Graph(ir)
    BY DEF Structure, ProgramOK
  <2> QED BY <1>4, <2>1, WeightFacts, OperandFacts DEF Potential, Live
<1>10. Potential(ir', e)
  <2>1. ASSUME NEW u \in W, NEW k \in 1 .. Len(ir'[u].operands) PROVE e[ir'[u].operands[k]] < e[u]
    <3>1. u \in Live /\ u # Root /\ k \in 1 .. Len(ir[u].operands)
      BY <1>7, <1>8
    <3>2. PICK o : o = ir[u].operands[k] /\ o \in Live /\ d[o] < d[u]
      BY <1>9, <3>1
    <3>3. ir'[u].operands[k] = IF o = Root THEN top ELSE o
      BY <1>7, <1>8, <3>1, <3>2
    <3>4. d[u] \in Nat /\ d[o] \in Nat /\ e[u] = d[u]
      BY <1>8, <1>9, <3>1, <3>2
    <3>5. CASE o = Root
      <4>1. e[top] = d[top]
        BY <1>6, <1>7, <1>8
      <4> QED BY <1>5, <3>2, <3>3, <3>4, <3>5, <4>1
    <3>6. CASE o # Root
      <4>1. e[o] = d[o]
        BY <1>7, <1>8, <3>2, <3>6
      <4> QED BY <3>2, <3>3, <3>4, <3>6, <4>1
    <3> QED BY <3>5, <3>6
  <2>2. \E m \in Nat : \A v \in W : e[v] <= m
    <3>1. PICK m \in Nat : \A v \in Live : d[v] <= m
      BY <1>4 DEF Potential, Live
    <3> QED BY <1>7, <1>8, <3>1
  <2>3. e \in [W -> Nat] /\ DOMAIN ir' = W
    BY <1>7, <1>8, <1>9 DEF Live
  <2> QED BY <2>1, <2>2, <2>3 DEF Potential
<1>11. interior \in Seq(Live) /\ interior # <<>> /\ interior[1] = Root
  <2>1. interior # <<>> /\ interior[1] = Root
    BY <1>2 DEF Peel
  <2> QED BY <2>1 DEF Structure, InteriorOK
<1>12. ToSet(interior') \subseteq ToSet(interior) /\ Root \in ToSet(interior)
  BY <1>1, <1>11, TailSet
<1>13. /\ DOMAIN depthMemo' = DOMAIN depthMemo \ ToSet(interior)
       /\ \A v \in DOMAIN depthMemo' : depthMemo'[v] = depthMemo[v]
  BY <1>1 DEF Without
<1>14. MemoHolds(e)'
  BY <1>4, <1>7, <1>8, <1>12, <1>13 DEF MemoHolds
<1>15. NotAbove(e)'
  BY <1>1, <1>4, <1>7, <1>8 DEF NotAbove
<1>16. DOMAIN depthMemo' \cap ToSet(interior') = {}
  BY <1>12, <1>13
<1> QED BY <1>1, <1>10, <1>14, <1>15, <1>16 DEF DepthOK, DepthsOK

\* What is erased has no depth any more.
LEMMA EraseDepth == Structure /\ DepthOK /\ EraseInterior => DepthOK'
<1> SUFFICES ASSUME Structure, DepthOK, EraseInterior PROVE DepthOK'
  OBVIOUS
<1>1. /\ pc = "erase" /\ pc' = "erase" /\ original' = original /\ interior' = Tail(interior)
      /\ depthMemo' = depthMemo /\ interior # <<>>
  BY DEF EraseInterior
<1>2. PICK x : x = Head(interior) /\ Erased(ir, ir', x) /\ Peel(x, x)
  BY EraseFacts
<1>3. PICK d : DepthsOK(d)
  BY DEF DepthOK
<1>4. Potential(ir, d) /\ MemoHolds(d) /\ NotAbove(d) /\ DOMAIN depthMemo \cap ToSet(interior) = {}
  BY <1>1, <1>3 DEF DepthsOK
<1>5. Live' = Live \ {x} /\ Graph(ir') /\ \A u \in Live' : ir'[u] = ir[u]
  BY <1>2 DEF Erased, Live
<1>6. PICK W, e : W = Live' /\ e = [v \in W |-> d[v]]
  OBVIOUS
<1>7. /\ \A v \in Live : d[v] \in Nat
      /\ \A u \in Live : \A k \in 1 .. Len(ir[u].operands) : d[ir[u].operands[k]] < d[u]
  BY <1>4, WeightFacts DEF Potential, Live
<1>8. Potential(ir', e)
  <2>1. ASSUME NEW u \in W, NEW k \in 1 .. Len(ir'[u].operands) PROVE e[ir'[u].operands[k]] < e[u]
    <3>1. ir'[u].operands[k] \in W
      <4>1. u \in DOMAIN ir' /\ DOMAIN ir' = W
        BY <1>6 DEF Live
      <4>2. PICK H : H = ir'
        OBVIOUS
      <4>3. H[u].operands[k] \in DOMAIN H
        BY <1>5, <2>1, <4>1, <4>2, OperandFacts
      <4> QED BY <4>1, <4>2, <4>3
    <3>2. ir'[u] = ir[u] /\ u \in Live
      BY <1>5, <1>6
    <3>3. d[ir'[u].operands[k]] < d[u]
      BY <1>7, <3>2
    <3> QED BY <1>6, <3>1, <3>3
  <2>2. \E m \in Nat : \A v \in W : e[v] <= m
    <3>1. PICK m \in Nat : \A v \in Live : d[v] <= m
      BY <1>4 DEF Potential, Live
    <3> QED BY <1>5, <1>6, <3>1
  <2>3. e \in [W -> Nat] /\ DOMAIN ir' = W
    BY <1>5, <1>6, <1>7 DEF Live
  <2> QED BY <2>1, <2>2, <2>3 DEF Potential
<1>9. interior \in Seq(Live) /\ x = interior[1]
  BY <1>2 DEF Structure, InteriorOK, Peel
<1>10. ToSet(interior') \subseteq ToSet(interior) /\ x \in ToSet(interior)
  BY <1>1, <1>9, TailSet
<1>11. MemoHolds(e)'
  BY <1>1, <1>4, <1>5, <1>6, <1>10 DEF MemoHolds
<1>12. NotAbove(e)'
  BY <1>1, <1>4, <1>5, <1>6 DEF NotAbove
<1>13. DOMAIN depthMemo' \cap ToSet(interior') = {}
  BY <1>1, <1>4, <1>10
<1> QED BY <1>1, <1>8, <1>11, <1>12, <1>13 DEF DepthOK, DepthsOK

-----------------------------------------------------------------------------
\* The structure and the depths are an invariant of the pass.

\* They hold of every function the pass is given,
LEMMA InitInv == Init => Structure /\ DepthOK
BY InitStructure, InitDepth

\* ... and every step keeps them.
LEMMA NextInv == Structure /\ DepthOK /\ [Next]_vars => Structure' /\ DepthOK'
<1> SUFFICES ASSUME Structure, DepthOK, [Next]_vars PROVE Structure' /\ DepthOK'
  OBVIOUS
<1>1. CASE CollectRoots
  BY <1>1, CollectRootsStructure, CollectRootsDepth
<1>2. CASE NextRoot
  BY <1>2, NextRootStructure, NextRootDepth
<1>3. CASE VisitInterior
  BY <1>3, VisitInteriorStructure, VisitInteriorDepth
<1>4. CASE VisitLeaf
  BY <1>4, VisitLeafStructure, VisitLeafDepth
<1>5. CASE TooSmall
  BY <1>5, TooSmallStructure, TooSmallDepth
<1>6. CASE StartRanking
  BY <1>6, StartRankingStructure, StartRankingDepth
<1>7. CASE RankLeaf
  BY <1>7, RankLeafStructure, RankLeafDepth
<1>8. CASE Combine
  BY <1>8, CombineStructure, CombineDepth
<1>9. CASE Replace
  BY <1>9, ReplaceStructure, ReplaceDepth
<1>10. CASE EraseInterior
  BY <1>10, EraseStructure, EraseDepth
<1>11. CASE ChainDone
  BY <1>11, ChainDoneStructure, ChainDoneDepth
<1>12. CASE UNCHANGED vars
  BY <1>12, StutterStructure, StutterDepth
<1> QED
  BY <1>1, <1>2, <1>3, <1>4, <1>5, <1>6, <1>7, <1>8, <1>9, <1>10, <1>11, <1>12 DEF Next, Terminated

\* Whatever function the pass is given, and however its blocks are listed.
THEOREM StructureHolds == Spec => [](Structure /\ DepthOK)
<1>1. Init => Structure /\ DepthOK
  BY InitInv
<1>2. (Structure /\ DepthOK) /\ [Next]_vars => (Structure /\ DepthOK)'
  BY NextInv
<1> QED
  BY <1>1, <1>2, PTL DEF Spec

-----------------------------------------------------------------------------
\* What it means.

\* The terminator and the arguments stay.
LEMMA OthersStay ==
  ASSUME Structure
  PROVE  Return \in Live /\ Arg \subseteq Live
<1>1. \A v \in DOMAIN original : original[v].kind # "add" => v \in Live
  BY DEF Structure, ProgramOK
<1>2. /\ \A a \in Arg : a \in DOMAIN original /\ original[a].kind = "arg"
      /\ Return \in DOMAIN original /\ original[Return].kind = "op"
      /\ Graph(original)
  <2>1. PICK n \in Nat \ {0} : DOMAIN original = 0 .. n
    BY DEF Structure, OriginalOK
  <2>2. Return \in DOMAIN original
    BY <2>1 DEF Return
  <2> QED BY <2>2 DEF Structure, OriginalOK
<1>3. Return \in Live
  BY <1>1, <1>2
<1>4. ASSUME NEW v \in Arg PROVE v \in Live
  BY <1>1, <1>2, <1>4
<1> QED BY <1>3, <1>4

\* Nothing stale is held.
LEMMA NothingStaleHolds == Structure /\ DepthOK => NothingStale
<1> SUFFICES ASSUME Structure, DepthOK PROVE NothingStale
  OBVIOUS
<1>1. /\ Graph(ir) /\ inOrder \in BOOLEAN /\ pc \in {"walk", "next", "gather", "rank", "erase"}
      /\ worklist \in Seq(Live) /\ leaves \in Seq(Live) /\ interior \in Seq(Live)
      /\ Nodes(heap, seq, Live)
  BY DEF Structure, StateOK, ProgramOK, GatherOK, LeavesOK, InteriorOK, HeapOK
<1>2. PICK d : Potential(ir, d) /\ MemoHolds(d)
  BY DEF DepthOK, DepthsOK
<1>3. TypeOK
  <2>1. \A u \in Live : ir[u].kind \in {"arg", "op", "add"} /\ ir[u].block \in 0 .. 2
    BY <1>1 DEF Graph, Live
  <2>2. ToSet(worklist) \cup ToSet(leaves) \cup ToSet(interior) \subseteq Live
    <3>1. ToSet(worklist) \subseteq Live
      BY <1>1, ToSetFacts
    <3>2. ToSet(leaves) \subseteq Live
      BY <1>1, ToSetFacts
    <3>3. ToSet(interior) \subseteq Live
      BY <1>1, ToSetFacts
    <3> QED BY <3>1, <3>2, <3>3
  <2>3. ASSUME NEW n \in heap PROVE n.value \in Live /\ n.rank \in Nat /\ n.seq < seq
    <3>1. n.value \in Live /\ n.rank \in Nat /\ n.seq \in 0 .. seq - 1 /\ seq \in Nat
      BY <1>1, NodeFacts
    <3> QED BY <3>1
  <2>4. \A v \in DOMAIN depthMemo : depthMemo[v] \in Nat
    BY <1>2 DEF MemoHolds, Potential, Live
  <2> QED BY <1>1, <2>1, <2>2, <2>3, <2>4, OthersStay DEF TypeOK
<1>4. NoDangling
  BY <1>1, OperandFacts DEF NoDangling, Live, Operands
<1>5. RootsAlive
  BY <1>1 DEF Structure, RootsOK, InChain, RootsAlive
<1>6. NoDeadRank
  BY <1>2 DEF MemoHolds, NoDeadRank
<1> QED BY <1>3, <1>4, <1>5, <1>6 DEF NothingStale

\* Between two trees there are as many additions as there were.
LEMMA CountHolds == Structure => CountNeutral
<1> SUFFICES ASSUME Structure, pc = "next" PROVE Cardinality(Adds(ir)) = Cardinality(Adds(original))
  BY DEF CountNeutral
<1>1. Cardinality(Adds(ir)) = Cardinality(Adds(original)) + 0
  BY DEF Structure, CountOK
<1>2. Graph(original)
  BY DEF Structure, OriginalOK
<1>3. Cardinality(Adds(original)) \in Nat
  BY <1>2, AddsFinite, FS_CardinalityType
<1> QED BY <1>1, <1>3

\* What the ranks of the leaves take is the weight of the leaves.
LEMMA RoomIsWeight ==
  ASSUME Structure, pc = "rank", seq >= Len(leaves), NEW d, DepthsOK(d), NEW D
  PROVE  Room(D) <=> SeqSum(Weight(d), leaves) <= 2^D
<1> DEFINE n == Len(leaves)
           c == [i \in 1 .. n |-> Weight(d)[leaves[i]]]
           Step(g, i) == IF i = 0 THEN 0 ELSE g[i - 1] + 2^depthMemo[leaves[i]]
           Is(g) == g = [i \in 0 .. n |-> Step(g, i)]
<1>1. n \in Nat /\ seq \in Nat /\ leaves \in Seq(Live)
  BY RankFacts
<1>2. Potential(ir, d) /\ RankRoom(d) /\ MemoHolds(d)
  BY DEF DepthsOK
<1>3. \A i \in 1 .. n : c[i] = 2^depthMemo[leaves[i]]
  <2> SUFFICES ASSUME NEW i \in 1 .. n PROVE c[i] = 2^depthMemo[leaves[i]]
    OBVIOUS
  <2>1. leaves[i] \in Live /\ i <= seq
    BY <1>1
  <2>2. leaves[i] \in DOMAIN depthMemo
    BY <1>2, <2>1 DEF RankRoom
  <2>3. depthMemo[leaves[i]] = d[leaves[i]]
    BY <1>2, <2>2 DEF MemoHolds
  <2>4. Weight(d)[leaves[i]] = 2^d[leaves[i]]
    BY <1>2, <2>1, WeightFacts DEF Live
  <2> QED BY <2>3, <2>4
<1> HIDE DEF c
<1>4. PICK t : Partial(t, c, n) /\ t = CHOOSE x : Partial(x, c, n)
  BY <1>1, PartialExists
<1>5. t = [i \in 0 .. n |-> IF i = 0 THEN 0 ELSE t[i - 1] + c[i]]
  BY <1>4 DEF Partial
<1>6. Is(t)
  <2>1. \A i \in 0 .. n : i # 0 => i \in 1 .. n
    BY <1>1
  <2>2. \A i \in 0 .. n : t[i] = Step(t, i)
    BY <1>3, <1>5, <2>1
  <2> HIDE DEF Step
  <2> QED BY <1>5, <2>2
<1>7. PICK g : g = (CHOOSE x : Is(x)) /\ Is(g)
  <2> HIDE DEF Is
  <2> QED BY <1>6
<1>8. Partial(g, c, n)
  <2>1. \A i \in 0 .. n : i # 0 => i \in 1 .. n
    BY <1>1
  <2>2. \A i \in 0 .. n : g[i] = IF i = 0 THEN 0 ELSE g[i - 1] + c[i]
    <3>1. \A i \in 0 .. n : g[i] = Step(g, i)
      <4> HIDE DEF Step
      <4> QED BY <1>7
    <3> HIDE DEF Is
    <3> QED BY <1>3, <2>1, <3>1
  <2>3. g = [i \in 0 .. n |-> g[i]]
    BY <1>7
  <2> QED BY <2>2, <2>3 DEF Partial
<1>9. t[n] = g[n]
  BY <1>1, <1>4, <1>8, PartialUnique
<1>10. SeqSum(Weight(d), leaves) = t[n]
  BY <1>4, Zenon DEF SeqSum, PrefixSum, Total, c
<1>11. Room(D) <=> g[n] <= 2^D
  <2>1. Room(D) <=> (CHOOSE x : Is(x))[n] <= 2^D
    BY Zenon DEF Room
  <2> QED BY <1>7, <2>1
<1> QED BY <1>9, <1>10, <1>11

\* The tree is as shallow as a tree over such leaves can be.
LEMMA TreeIsOptimal == Structure /\ DepthOK => OptimalTree
<1> SUFFICES ASSUME Structure, DepthOK, pc = "rank", seq >= Len(leaves), Cardinality(heap) = 1
             PROVE  Room(Least(heap).rank) /\ ~ Room(Least(heap).rank - 1)
  BY DEF OptimalTree
<1>1. PICK d : DepthsOK(d)
  BY DEF DepthOK
<1>2. PICK D : D = Least(heap).rank
  OBVIOUS
<1>3. /\ D \in Nat /\ D >= 1
      /\ \A E \in Nat : SeqSum(Weight(d), leaves) <= 2^E <=> D <= E
  BY <1>1, <1>2, LastNode
<1>4. Room(D) /\ ~ Room(D - 1)
  <2>1. D - 1 \in Nat /\ ~ (D <= D - 1) /\ D <= D
    BY <1>3
  <2>2. Room(D)
    BY <1>1, <1>3, <2>1, RoomIsWeight
  <2>3. ~ Room(D - 1)
    BY <1>1, <1>3, <2>1, RoomIsWeight
  <2> QED BY <2>2, <2>3
<1> QED BY <1>2, <1>4

\* No operation is deeper than it was.
LEMMA OperationsNotDeeper == Structure /\ DepthOK => NotDeeper
<1> SUFFICES ASSUME Structure, DepthOK, NEW u \in Live, ir[u].kind = "op"
             PROVE  TrueDepth(ir, u) <= TrueDepth(original, u)
  BY DEF NotDeeper
<1>1. /\ Graph(ir) /\ Graph(original) /\ OriginalOK
      /\ \A v \in Live \ DOMAIN original : ir[v].kind = "add"
  BY DEF Structure, ProgramOK, OriginalOK
<1>2. u \in DOMAIN original
  BY <1>1
<1>3. PICK d : Potential(ir, d) /\ NotAbove(d)
  BY DEF DepthOK, DepthsOK
<1>4. PICK e : Potential(original, e)
  BY <1>1, OriginalPotential
<1>5. TrueDepths(ir)[u] = TrueDepth(ir, u) /\ TrueDepths(ir)[u] \in Nat
  BY <1>1, <1>3, TrueDepthFacts DEF Live
<1>6. TrueDepths(original)[u] = TrueDepth(original, u) /\ TrueDepths(original)[u] \in Nat
  BY <1>1, <1>2, <1>4, TrueDepthFacts
<1>7. TrueDepths(ir)[u] <= d[u] /\ d[u] \in Nat
  BY <1>1, <1>3, TrueDepthsGrow DEF Live, Potential
<1>8. d[u] <= TrueDepths(original)[u]
  BY <1>2, <1>3 DEF NotAbove
<1> QED BY <1>5, <1>6, <1>7, <1>8

\* Nothing that the pass holds outlives what it stands for.
THEOREM HoldsNothingStale == Spec => []NothingStale
<1>1. Structure /\ DepthOK => NothingStale
  BY NothingStaleHolds
<1> QED BY <1>1, StructureHolds, PTL

\* The pass makes as many additions as it erases.
THEOREM KeepsCount == Spec => []CountNeutral
<1>1. Structure /\ DepthOK => CountNeutral
  BY CountHolds
<1> QED BY <1>1, StructureHolds, PTL

\* The trees are as shallow as trees over leaves of their ranks can be, and no
\* operation is deeper than it was.
THEOREM StaysShallow == Spec => []Shallow
<1>1. Structure /\ DepthOK => Shallow
  BY TreeIsOptimal, OperationsNotDeeper DEF Shallow
<1> QED BY <1>1, StructureHolds, PTL

-----------------------------------------------------------------------------
\* What the values mean.

\* How often each value has the atom a.
At(s, a) == [v \in DOMAIN s |-> s[v][a]]

GatherSum(s) == \A a \in Atoms(original) :
  SeqSum(At(s, a), worklist) + SeqSum(At(s, a), leaves) = s[Root][a]

RankSum(s) == \A a \in Atoms(original) :
  /\ SeqSum(At(s, a), leaves) = s[Root][a]
  /\ seq <= Len(leaves) => HeapSum(At(s, a), heap, seq) = PrefixSum(At(s, a), leaves, seq)
  /\ seq >= Len(leaves) => HeapSum(At(s, a), heap, seq) = s[Root][a]

\* An operation is applied to what it was applied to.
AppliesSame(s) ==
  \A u \in Live : ir[u].kind = "op" =>
    s[ir[u].operands[1]] = Sum(original, original[u].operands[1])

SenseOK(s) ==
  /\ Meaning(ir, Atoms(original), s) /\ AppliesSame(s)
  /\ pc = "gather" => GatherSum(s)
  /\ pc = "rank" => RankSum(s)

\* The values are sums of the atoms there were, of which the root's is the sum
\* of the leaves'.
MeaningOK == \E s : SenseOK(s)

\* No atom comes or goes.
LEMMA AtomsKept ==
  ASSUME Structure
  PROVE  /\ Atoms(ir) = Atoms(original) /\ Graph(ir) /\ Graph(original) /\ DOMAIN ir = Live
         /\ \A u \in Live : ir[u].kind = "add" <=> u \notin Atoms(original)
         /\ \A u \in Live : u \notin Atoms(original) => Len(ir[u].operands) = 2
<1>1. /\ Graph(ir) /\ Graph(original)
      /\ \A v \in DOMAIN original : original[v].kind # "add" => v \in Live
      /\ \A v \in Live \cap DOMAIN original : ir[v].kind = original[v].kind
      /\ \A v \in Live \ DOMAIN original : ir[v].kind = "add"
  BY DEF Structure, ProgramOK, OriginalOK
<1>2. ASSUME NEW v PROVE v \in Atoms(ir) <=> v \in Atoms(original)
  <2>1. CASE v \in Live /\ v \in DOMAIN original
    BY <1>1, <2>1 DEF Atoms, Live
  <2>2. CASE v \in Live /\ v \notin DOMAIN original
    BY <1>1, <2>2 DEF Atoms, Live
  <2>3. CASE v \notin Live
    BY <1>1, <2>3 DEF Atoms, Live
  <2> QED BY <2>1, <2>2, <2>3
<1>3. Atoms(ir) = Atoms(original)
  BY <1>2
<1>4. \A u \in Live : ir[u].kind = "add" <=> u \notin Atoms(ir)
  BY DEF Atoms, Live
<1>5. \A u \in Live : ir[u].kind = "add" => Len(ir[u].operands) = 2
  BY <1>1, OperandFacts DEF Live, Degree, Arity
<1> QED BY <1>1, <1>3, <1>4, <1>5 DEF Live

\* The counts of an atom.
LEMMA AtFacts ==
  ASSUME NEW G, NEW A, NEW s, Meaning(G, A, s), NEW a \in A
  PROVE  /\ At(s, a) \in [DOMAIN G -> Int]
         /\ \A v \in DOMAIN G : At(s, a)[v] = s[v][a] /\ s[v][a] \in Int
         /\ \A u \in DOMAIN G : u \notin A =>
              s[u][a] = s[G[u].operands[1]][a] + s[G[u].operands[2]][a]
<1>1. s \in [DOMAIN G -> [A -> Int]]
  BY DEF Meaning
<1>2. \A v \in DOMAIN G : s[v][a] \in Int
  BY <1>1
<1>3. DOMAIN s = DOMAIN G
  BY <1>1
<1>4. At(s, a) \in [DOMAIN G -> Int] /\ \A v \in DOMAIN G : At(s, a)[v] = s[v][a]
  BY <1>2, <1>3 DEF At
<1>5. ASSUME NEW u \in DOMAIN G, u \notin A
      PROVE  s[u][a] = s[G[u].operands[1]][a] + s[G[u].operands[2]][a]
  <2>1. s[u] = [b \in A |-> s[G[u].operands[1]][b] + s[G[u].operands[2]][b]]
    BY <1>5 DEF Meaning
  <2> QED BY <2>1
<1> QED BY <1>2, <1>4, <1>5

\* At the start every operation is applied to what it is applied to.
LEMMA InitMeaning == Init => MeaningOK
<1> SUFFICES ASSUME Init PROVE MeaningOK
  OBVIOUS
<1>1. pc = "walk" /\ original = ir
  BY DEF Init
<1>2. Structure /\ DepthOK
  BY InitInv
<1>3. Graph(ir) /\ Atoms(ir) = Atoms(original)
  BY <1>2, AtomsKept
<1>4. PICK d : Potential(ir, d)
  BY <1>2 DEF DepthOK, DepthsOK
<1>5. PICK s : Meaning(ir, Atoms(ir), s)
  BY <1>3, <1>4, MeaningExists
<1>6. \A v \in DOMAIN ir : Sum(ir, v) = s[v]
  BY <1>3, <1>4, <1>5, SumIsMeaning
<1>7. AppliesSame(s)
  <2> SUFFICES ASSUME NEW u \in Live, ir[u].kind = "op"
               PROVE  s[ir[u].operands[1]] = Sum(original, original[u].operands[1])
    BY DEF AppliesSame
  <2>1. Len(ir[u].operands) = 1
    BY <1>3, OperandFacts DEF Live, Degree, Arity
  <2>2. ir[u].operands[1] \in DOMAIN ir
    <3>1. 1 \in 1 .. Len(ir[u].operands)
      BY <2>1
    <3> QED BY <1>3, <3>1, OperandFacts DEF Live
  <2> QED BY <1>1, <1>6, <2>2
<1>8. SenseOK(s)
  BY <1>1, <1>3, <1>5, <1>7 DEF SenseOK
<1> QED BY <1>8 DEF MeaningOK

\* The steps that leave the program as it is.
KeptProgram == ir' = ir /\ original' = original

\* They keep the meanings.
LEMMA KeptMeaning ==
  ASSUME KeptProgram, NEW s, SenseOK(s)
  PROVE  Meaning(ir, Atoms(original), s)' /\ AppliesSame(s)'
BY DEF KeptProgram, SenseOK, AppliesSame, Live

\* The walk keeps the meanings.
LEMMA CollectRootsMeaning == Structure /\ MeaningOK /\ CollectRoots => MeaningOK'
<1> SUFFICES ASSUME MeaningOK, CollectRoots PROVE MeaningOK'
  OBVIOUS
<1>1. pc' = "next" /\ KeptProgram
  BY DEF CollectRoots, KeptProgram
<1>2. PICK s : SenseOK(s)
  BY DEF MeaningOK
<1> QED BY <1>1, <1>2, KeptMeaning DEF MeaningOK, SenseOK

\* A tree that is left as it is keeps the meanings.
LEMMA TooSmallMeaning == Structure /\ MeaningOK /\ TooSmall => MeaningOK'
<1> SUFFICES ASSUME MeaningOK, TooSmall PROVE MeaningOK'
  OBVIOUS
<1>1. pc' = "next" /\ KeptProgram
  BY DEF TooSmall, KeptProgram
<1>2. PICK s : SenseOK(s)
  BY DEF MeaningOK
<1> QED BY <1>1, <1>2, KeptMeaning DEF MeaningOK, SenseOK

\* The end of a tree keeps the meanings.
LEMMA ChainDoneMeaning == Structure /\ MeaningOK /\ ChainDone => MeaningOK'
<1> SUFFICES ASSUME MeaningOK, ChainDone PROVE MeaningOK'
  OBVIOUS
<1>1. pc' = "next" /\ KeptProgram
  BY DEF ChainDone, KeptProgram
<1>2. PICK s : SenseOK(s)
  BY DEF MeaningOK
<1> QED BY <1>1, <1>2, KeptMeaning DEF MeaningOK, SenseOK

\* Nothing changes.
LEMMA StutterMeaning == Structure /\ MeaningOK /\ UNCHANGED vars => MeaningOK'
<1> SUFFICES ASSUME MeaningOK, UNCHANGED vars PROVE MeaningOK'
  OBVIOUS
<1>1. /\ pc' = pc /\ KeptProgram /\ worklist' = worklist /\ leaves' = leaves /\ seq' = seq
      /\ heap' = heap /\ roots' = roots /\ inOrder' = inOrder /\ original' = original
  BY DEF vars, KeptProgram
<1>2. PICK s : SenseOK(s)
  BY DEF MeaningOK
<1>3. Root' = Root
  BY <1>1, SameRoot
<1>4. pc' = "gather" => GatherSum(s)'
  BY <1>1, <1>2, <1>3 DEF SenseOK, GatherSum
<1>5. pc' = "rank" => RankSum(s)'
  BY <1>1, <1>2, <1>3 DEF SenseOK, RankSum
<1> QED BY <1>1, <1>2, <1>4, <1>5, KeptMeaning DEF MeaningOK, SenseOK

\* The root is the sum of its operands.
LEMMA NextRootMeaning == Structure /\ MeaningOK /\ NextRoot => MeaningOK'
<1> SUFFICES ASSUME Structure, MeaningOK, NextRoot PROVE MeaningOK'
  OBVIOUS
<1>1. /\ pc' = "gather" /\ KeptProgram /\ roots' = roots /\ inOrder' = inOrder
      /\ original' = original
  BY DEF NextRoot, KeptProgram
<1>2. PICK s : SenseOK(s)
  BY DEF MeaningOK
<1>3. Root' = Root
  BY <1>1, SameRoot
<1>5. ASSUME NEW a \in Atoms(original)
      PROVE  SeqSum(At(s, a), worklist') + SeqSum(At(s, a), leaves') = s[Root][a]
  <2>1. Meaning(ir, Atoms(original), s)
    BY <1>2 DEF SenseOK
  <2>2. PICK w : w = At(s, a)
    OBVIOUS
  <2>3. /\ w \in [Live -> Int] /\ \A v \in Live : w[v] = s[v][a]
        /\ \A u \in Live : u \notin Atoms(original) =>
              s[u][a] = s[ir[u].operands[1]][a] + s[ir[u].operands[2]][a]
    BY <2>1, <2>2, AtFacts DEF Live
  <2>4. PICK x, p, q : NextRootSums(w, x, p, q)
    BY <2>3, NextRootSum
  <2>5. x \notin Atoms(original)
    BY <2>4, AtomsKept DEF NextRootSums
  <2>6. s[x][a] = w[p] + w[q]
    BY <2>3, <2>4, <2>5 DEF NextRootSums
  <2> QED BY <2>2, <2>4, <2>6 DEF NextRootSums
<1>6. GatherSum(s)'
  BY <1>1, <1>3, <1>5 DEF GatherSum
<1> QED BY <1>1, <1>2, <1>6, KeptMeaning DEF MeaningOK, SenseOK

\* An addition of the interior is the sum of its operands.
LEMMA VisitInteriorMeaning == Structure /\ MeaningOK /\ VisitInterior => MeaningOK'
<1> SUFFICES ASSUME Structure, MeaningOK, VisitInterior PROVE MeaningOK'
  OBVIOUS
<1>1. /\ pc = "gather" /\ pc' = "gather" /\ KeptProgram /\ roots' = roots /\ inOrder' = inOrder
      /\ original' = original /\ leaves' = leaves
  BY DEF VisitInterior, KeptProgram
<1>2. PICK s : SenseOK(s)
  BY DEF MeaningOK
<1>3. Root' = Root
  BY <1>1, SameRoot
<1>5. ASSUME NEW a \in Atoms(original)
      PROVE  SeqSum(At(s, a), worklist') + SeqSum(At(s, a), leaves') = s[Root][a]
  <2>1. Meaning(ir, Atoms(original), s)
    BY <1>2 DEF SenseOK
  <2>2. PICK w : w = At(s, a)
    OBVIOUS
  <2>3. /\ w \in [Live -> Int] /\ \A v \in Live : w[v] = s[v][a]
        /\ \A u \in Live : u \notin Atoms(original) =>
              s[u][a] = s[ir[u].operands[1]][a] + s[ir[u].operands[2]][a]
    BY <2>1, <2>2, AtFacts DEF Live
  <2>4. PICK v, p, q : VisitSums(w, v, p, q)
    BY <2>3, VisitInteriorSum
  <2>5. v \notin Atoms(original)
    BY <2>4, AtomsKept DEF VisitSums
  <2>6. w[v] = w[p] + w[q] /\ w[v] \in Int /\ w[p] \in Int /\ w[q] \in Int
    BY <2>3, <2>4, <2>5 DEF VisitSums
  <2>7. SeqSum(w, worklist) \in Int /\ SeqSum(w, worklist') = SeqSum(w, worklist) - w[v] + w[p] + w[q]
    BY <2>4 DEF VisitSums
  <2>8. SeqSum(w, worklist') = SeqSum(w, worklist)
    BY ONLY <2>6, <2>7
  <2> QED BY <1>1, <1>2, <2>2, <2>8 DEF SenseOK, GatherSum
<1>6. GatherSum(s)'
  BY <1>1, <1>3, <1>5 DEF GatherSum
<1> QED BY <1>1, <1>2, <1>6, KeptMeaning DEF MeaningOK, SenseOK

\* A leaf goes from one summand to another.
LEMMA VisitLeafMeaning == Structure /\ MeaningOK /\ VisitLeaf => MeaningOK'
<1> SUFFICES ASSUME Structure, MeaningOK, VisitLeaf PROVE MeaningOK'
  OBVIOUS
<1>1. /\ pc = "gather" /\ pc' = "gather" /\ KeptProgram /\ roots' = roots /\ inOrder' = inOrder
      /\ original' = original
  BY DEF VisitLeaf, KeptProgram
<1>2. PICK s : SenseOK(s)
  BY DEF MeaningOK
<1>3. Root' = Root
  BY <1>1, SameRoot
<1>5. ASSUME NEW a \in Atoms(original)
      PROVE  SeqSum(At(s, a), worklist') + SeqSum(At(s, a), leaves') = s[Root][a]
  <2>1. Meaning(ir, Atoms(original), s)
    BY <1>2 DEF SenseOK
  <2>2. PICK w : w = At(s, a)
    OBVIOUS
  <2>3. w \in [Live -> Int]
    BY <2>1, <2>2, AtFacts DEF Live
  <2>4. SeqSum(w, worklist') + SeqSum(w, leaves') = SeqSum(w, worklist) + SeqSum(w, leaves)
    BY <2>3, VisitLeafSum
  <2> QED BY <1>1, <1>2, <2>2, <2>4 DEF SenseOK, GatherSum
<1>6. GatherSum(s)'
  BY <1>1, <1>3, <1>5 DEF GatherSum
<1> QED BY <1>1, <1>2, <1>6, KeptMeaning DEF MeaningOK, SenseOK

-----------------------------------------------------------------------------
\* The meanings through the ranking and the rewriting.

\* The root is the sum of the leaves.
LEMMA StartRankingMeaning == Structure /\ MeaningOK /\ StartRanking => MeaningOK'
<1> SUFFICES ASSUME Structure, MeaningOK, StartRanking PROVE MeaningOK'
  OBVIOUS
<1>1. /\ pc = "gather" /\ pc' = "rank" /\ KeptProgram /\ roots' = roots /\ inOrder' = inOrder
      /\ original' = original
  BY DEF StartRanking, KeptProgram, tree
<1>2. PICK s : SenseOK(s)
  BY DEF MeaningOK
<1>3. Root' = Root
  BY <1>1, SameRoot
<1>4. ASSUME NEW a \in Atoms(original)
      PROVE  /\ SeqSum(At(s, a), leaves') = s[Root][a]
             /\ HeapSum(At(s, a), heap', seq') = PrefixSum(At(s, a), leaves', seq')
             /\ ~ (seq' >= Len(leaves'))
  <2>1. Meaning(ir, Atoms(original), s)
    BY <1>2 DEF SenseOK
  <2>2. PICK w : w = At(s, a)
    OBVIOUS
  <2>3. w \in [Live -> Int]
    BY <2>1, <2>2, AtFacts DEF Live
  <2>4. /\ SeqSum(w, worklist) = 0 /\ HeapSum(w, heap, seq) = 0 /\ PrefixSum(w, leaves, seq) = 0
        /\ seq = 0 /\ Len(leaves) >= 3 /\ leaves \in Seq(Live)
        /\ leaves' = leaves /\ seq' = seq /\ heap' = heap
    BY StartSums
  <2>5. SeqSum(w, leaves) \in Int
    <3>1. Len(leaves) \in 0 .. Len(leaves)
      BY <2>4
    <3> QED BY <2>3, <2>4, <3>1, PrefixFacts DEF SeqSum
  <2>6. SeqSum(w, worklist) + SeqSum(w, leaves) = s[Root][a]
    BY <1>1, <1>2, <2>2 DEF SenseOK, GatherSum
  <2>7. SeqSum(w, leaves) = s[Root][a]
    BY <2>4, <2>5, <2>6
  <2> QED BY <2>2, <2>4, <2>7
<1>5. RankSum(s)'
  BY <1>1, <1>3, <1>4 DEF RankSum
<1> QED BY <1>1, <1>2, <1>5, KeptMeaning DEF MeaningOK, SenseOK

\* What is queued is the leaves so far, and in the end the root.
LEMMA RankLeafMeaning == Structure /\ DepthOK /\ MeaningOK /\ RankLeaf => MeaningOK'
<1> SUFFICES ASSUME Structure, DepthOK, MeaningOK, RankLeaf PROVE MeaningOK'
  OBVIOUS
<1>1. /\ pc = "rank" /\ pc' = "rank" /\ KeptProgram /\ roots' = roots /\ inOrder' = inOrder
      /\ original' = original /\ leaves' = leaves
  BY DEF RankLeaf, KeptProgram
<1>2. PICK s : SenseOK(s)
  BY DEF MeaningOK
<1>3. Root' = Root
  BY <1>1, SameRoot
<1>4. PICK leaf : leaf = leaves[seq + 1]
  OBVIOUS
<1>5. Depth[leaf] \in Nat
  BY <1>4, RankLeafDepth
<1>6. ASSUME NEW a \in Atoms(original)
      PROVE  /\ SeqSum(At(s, a), leaves) = s[Root][a]
             /\ HeapSum(At(s, a), heap', seq') = PrefixSum(At(s, a), leaves, seq')
             /\ seq' >= Len(leaves) => HeapSum(At(s, a), heap', seq') = s[Root][a]
  <2>1. Meaning(ir, Atoms(original), s) /\ RankSum(s)
    BY <1>1, <1>2 DEF SenseOK
  <2>2. PICK w : w = At(s, a)
    OBVIOUS
  <2>3. w \in [Live -> Int]
    BY <2>1, <2>2, AtFacts DEF Live
  <2>4. /\ HeapSum(w, heap', seq') = HeapSum(w, heap, seq) + w[leaf]
        /\ PrefixSum(w, leaves, seq + 1) = PrefixSum(w, leaves, seq) + w[leaf]
        /\ seq < Len(leaves) /\ seq \in Nat /\ seq' = seq + 1
    BY <1>4, <1>5, <2>3, RankLeafSum
  <2>5. SeqSum(w, leaves) = s[Root][a] /\ HeapSum(w, heap, seq) = PrefixSum(w, leaves, seq)
    BY <2>1, <2>2, <2>4 DEF RankSum
  <2>6. HeapSum(w, heap', seq') = PrefixSum(w, leaves, seq')
    BY <2>4, <2>5
  <2>7. Len(leaves) \in Nat
    BY <1>1, RankFacts
  <2>8. seq' >= Len(leaves) => seq' = Len(leaves)
    BY <2>4, <2>7
  <2> QED BY <2>2, <2>5, <2>6, <2>8 DEF SeqSum
<1>7. RankSum(s)'
  BY <1>1, <1>3, <1>6 DEF RankSum
<1> QED BY <1>1, <1>2, <1>7, KeptMeaning DEF MeaningOK, SenseOK

\* The sum of a new addition.
WithSum(s, A, n, x, y) ==
  [v \in DOMAIN s \cup {n} |-> IF v = n THEN [a \in A |-> s[x][a] + s[y][a]] ELSE s[v]]

\* It is its meaning.
LEMMA WithSumFacts ==
  ASSUME NEW G, NEW H, NEW n, NEW x, NEW y, NEW b, Graph(G), Added(G, H, n, x, y, b),
         n \notin DOMAIN G, x \in DOMAIN G, y \in DOMAIN G,
         NEW A, n \notin A, NEW s, Meaning(G, A, s),
         \A u \in DOMAIN G : u \notin A => Len(G[u].operands) = 2, NEW t, t = WithSum(s, A, n, x, y)
  PROVE  /\ Meaning(H, A, t)
         /\ \A v \in DOMAIN G : t[v] = s[v]
         /\ \A a \in A : t[n][a] = s[x][a] + s[y][a]
<1>1. s \in [DOMAIN G -> [A -> Int]] /\ DOMAIN H = DOMAIN G \cup {n} /\ \A u \in DOMAIN G : H[u] = G[u]
  BY DEF Meaning, Added
<1>2. PICK f : f = [a \in A |-> s[x][a] + s[y][a]]
  OBVIOUS
<1>3. f \in [A -> Int] /\ \A a \in A : f[a] = s[x][a] + s[y][a]
  BY <1>1, <1>2
<1>4. t = [v \in DOMAIN H |-> IF v = n THEN f ELSE s[v]]
  BY <1>1, <1>2 DEF WithSum
<1>5. t[n] = f /\ \A v \in DOMAIN G : t[v] = s[v]
  BY <1>1, <1>4
<1>6. t \in [DOMAIN H -> [A -> Int]]
  BY <1>1, <1>3, <1>4
<1>7. ASSUME NEW u \in DOMAIN H
      PROVE  t[u] = IF u \in A THEN [a \in A |-> IF a = u THEN 1 ELSE 0]
                    ELSE [a \in A |-> t[H[u].operands[1]][a] + t[H[u].operands[2]][a]]
  <2>1. CASE u = n
    <3>1. H[n].operands[1] = x /\ H[n].operands[2] = y
      BY DEF Added
    <3>2. t[H[n].operands[1]] = s[x] /\ t[H[n].operands[2]] = s[y]
      BY <1>5, <3>1
    <3> QED BY <1>2, <1>5, <2>1, <3>2
  <2>2. CASE u \in DOMAIN G /\ u \in A
    BY <1>5, <2>2 DEF Meaning
  <2>3. CASE u \in DOMAIN G /\ u \notin A /\ Len(G[u].operands) = 2
    <3>1. H[u] = G[u] /\ G[u].operands[1] \in DOMAIN G /\ G[u].operands[2] \in DOMAIN G
      <4>1. 1 \in 1 .. Len(G[u].operands) /\ 2 \in 1 .. Len(G[u].operands)
        BY <2>3
      <4> QED BY <1>1, <2>3, <4>1, OperandFacts
    <3>2. s[u] = [a \in A |-> s[G[u].operands[1]][a] + s[G[u].operands[2]][a]]
      BY <2>3 DEF Meaning
    <3> QED BY <1>5, <2>3, <3>1, <3>2
  <2> QED BY <1>1, <2>1, <2>2, <2>3
<1> QED BY <1>3, <1>5, <1>6, <1>7 DEF Meaning

\* The sum of two nodes takes their place in it.
LEMMA CombineMeaning == Structure /\ MeaningOK /\ Combine => MeaningOK'
<1> SUFFICES ASSUME Structure, MeaningOK, Combine PROVE MeaningOK'
  OBVIOUS
<1>1. /\ pc = "rank" /\ pc' = "rank" /\ seq >= Len(leaves) /\ seq' = seq + 1
      /\ leaves' = leaves /\ original' = original /\ Root' = Root
      /\ \E a, b, n, rb : CombineOf(a, b, n, rb)
  BY CombineFacts
<1>2. PICK s : SenseOK(s)
  BY DEF MeaningOK
<1>3. PICK x, y, n, rb : CombineOf(x, y, n, rb)
  BY <1>1
<1>4. PICK A, t : A = Atoms(original) /\ t = WithSum(s, A, n, x.value, y.value)
  OBVIOUS
<1>5. /\ Meaning(ir, A, s) /\ AppliesSame(s) /\ RankSum(s)
  BY <1>1, <1>2, <1>4 DEF SenseOK
<1>6. /\ Graph(ir) /\ A = Atoms(ir) /\ A \subseteq Live /\ DOMAIN ir = Live
      /\ \A u \in Live : u \notin A => Len(ir[u].operands) = 2
  BY <1>4, AtomsKept DEF Atoms
<1>7. /\ n \notin Live /\ x.value \in Live /\ y.value \in Live
      /\ Added(ir, ir', n, x.value, y.value, rb)
  BY <1>3 DEF CombineOf
<1>8. PICK G, H : G = ir /\ H = ir'
  OBVIOUS
<1>9. /\ Meaning(H, A, t)
      /\ \A v \in DOMAIN G : t[v] = s[v]
      /\ \A a \in A : t[n][a] = s[x.value][a] + s[y.value][a]
  <2>1. /\ Graph(G) /\ Added(G, H, n, x.value, y.value, rb) /\ n \notin DOMAIN G
        /\ x.value \in DOMAIN G /\ y.value \in DOMAIN G /\ n \notin A /\ Meaning(G, A, s)
        /\ \A u \in DOMAIN G : u \notin A => Len(G[u].operands) = 2
    BY <1>5, <1>6, <1>7, <1>8
  <2> QED BY ONLY <1>4, <2>1, WithSumFacts
<1>10. /\ Live' = Live \cup {n} /\ ir'[n].kind = "add" /\ \A u \in Live : ir'[u] = ir[u]
  BY <1>7 DEF Added, Live
<1>11. AppliesSame(t)'
  <2> SUFFICES ASSUME NEW u \in Live', ir'[u].kind = "op"
               PROVE  t[ir'[u].operands[1]] = Sum(original, original[u].operands[1])
    BY <1>1 DEF AppliesSame
  <2>1. u \in Live /\ ir'[u] = ir[u]
    BY <1>10
  <2>2. Len(ir[u].operands) = 1
    BY <1>6, <2>1, OperandFacts DEF Degree, Arity
  <2>3. ir[u].operands[1] \in Live
    <3>1. 1 \in 1 .. Len(ir[u].operands)
      BY <2>2
    <3> QED BY <1>6, <2>1, <3>1, OperandFacts
  <2>4. s[ir[u].operands[1]] = Sum(original, original[u].operands[1])
    BY <1>5, <2>1 DEF AppliesSame
  <2> QED BY <1>6, <1>8, <1>9, <2>1, <2>3, <2>4
<1>12. ASSUME NEW a \in A
       PROVE  /\ SeqSum(At(t, a), leaves) = t[Root][a]
              /\ HeapSum(At(t, a), heap', seq') = t[Root][a]
  <2>1. PICK w, z, W : w = At(s, a) /\ z = At(t, a) /\ W = Live'
    OBVIOUS
  <2>2. w \in [Live -> Int] /\ \A v \in Live : w[v] = s[v][a]
    BY <1>5, <1>6, <2>1, AtFacts
  <2>3. z \in [W -> Int] /\ \A v \in W : z[v] = t[v][a]
    <3>1. DOMAIN H = W
      BY <1>8, <2>1 DEF Live
    <3> QED BY <1>9, <2>1, <3>1, AtFacts
  <2>4. \A v \in Live : v \in W /\ z[v] = w[v]
    BY <1>6, <1>8, <1>9, <1>10, <2>1, <2>2, <2>3
  <2>5. z[n] = w[x.value] + w[y.value]
    BY <1>7, <1>9, <1>10, <2>1, <2>2, <2>3
  <2>6. /\ leaves \in Seq(Live) /\ Len(leaves) \in 0 .. Len(leaves) /\ Root \in Live
        /\ Nodes(heap, seq, Live) /\ seq \in Nat
    BY <1>1, RankFacts
  <2>7. SeqSum(z, leaves) = SeqSum(w, leaves)
    <3>1. \A i \in 1 .. Len(leaves) : z[leaves[i]] = w[leaves[i]]
      BY <2>4, <2>6
    <3> QED BY <2>6, <3>1, SeqSumSame DEF SeqSum
  <2>8. /\ HeapSum(z, heap', seq') = HeapSum(z, heap, seq) - z[x.value] - z[y.value] + z[n]
        /\ HeapSum(z, heap, seq) \in Int /\ z[n] \in Int /\ z[x.value] \in Int /\ z[y.value] \in Int
    BY <1>3, <2>1, <2>3, CombineSum
  <2>9. HeapSum(z, heap, seq) = HeapSum(w, heap, seq)
    <3>1. \A u \in heap : z[u.value] = w[u.value]
      BY <2>4, <2>6, NodeFacts
    <3> QED BY <2>6, <3>1, HeapSumSame
  <2>10. z[x.value] = w[x.value] /\ z[y.value] = w[y.value]
    BY <1>7, <2>4
  <2>11. HeapSum(z, heap', seq') = HeapSum(w, heap, seq)
    BY ONLY <2>5, <2>8, <2>9, <2>10
  <2>12. SeqSum(w, leaves) = s[Root][a] /\ HeapSum(w, heap, seq) = s[Root][a]
    BY <1>1, <1>4, <1>5, <2>1 DEF RankSum
  <2>13. t[Root] = s[Root]
    BY <1>6, <1>8, <1>9, <2>6
  <2> QED BY <2>1, <2>7, <2>11, <2>12, <2>13
<1>13. RankSum(t)'
  <2>1. ~ (seq' <= Len(leaves'))
    <3>1. seq \in Nat /\ Len(leaves) \in Nat
      BY <1>1, RankFacts
    <3> QED BY <1>1, <3>1
  <2> QED BY <1>1, <1>4, <1>12, <2>1 DEF RankSum
<1>14. Meaning(ir, Atoms(original), t)'
  BY <1>1, <1>4, <1>8, <1>9
<1> QED BY <1>1, <1>11, <1>13, <1>14 DEF MeaningOK, SenseOK

\* A program that is one value shorter, and whose operands mean the same.
Shorter(G, H, x, s) ==
  /\ Graph(G) /\ Graph(H) /\ DOMAIN H = DOMAIN G \ {x}
  /\ \A u \in DOMAIN H :
       /\ H[u].kind = G[u].kind /\ Len(H[u].operands) = Len(G[u].operands)
       /\ \A k \in 1 .. Len(G[u].operands) : s[H[u].operands[k]] = s[G[u].operands[k]]

\* Its values mean what they did.
LEMMA ShorterMeaning ==
  ASSUME NEW G, NEW H, NEW x, NEW s, Shorter(G, H, x, s), NEW A, Meaning(G, A, s),
         \A u \in DOMAIN G : u \notin A => Len(G[u].operands) = 2,
         NEW t, t = [v \in DOMAIN H |-> s[v]]
  PROVE  /\ Meaning(H, A, t)
         /\ \A v \in DOMAIN H : \A k \in 1 .. Len(H[v].operands) :
              t[H[v].operands[k]] = s[G[v].operands[k]]
<1>1. /\ s \in [DOMAIN G -> [A -> Int]] /\ Graph(H) /\ DOMAIN H = DOMAIN G \ {x}
      /\ \A u \in DOMAIN H : Len(H[u].operands) = Len(G[u].operands)
      /\ \A u \in DOMAIN H : \A k \in 1 .. Len(G[u].operands) :
            s[H[u].operands[k]] = s[G[u].operands[k]]
  BY DEF Meaning, Shorter
<1>2. \A v \in DOMAIN H : t[v] = s[v]
  OBVIOUS
<1>3. t \in [DOMAIN H -> [A -> Int]]
  BY <1>1
<1>4. ASSUME NEW v \in DOMAIN H, NEW k \in 1 .. Len(H[v].operands)
      PROVE  t[H[v].operands[k]] = s[G[v].operands[k]]
  <2>1. H[v].operands[k] \in DOMAIN H
    BY <1>1, OperandFacts
  <2>2. k \in 1 .. Len(G[v].operands)
    BY <1>1
  <2> QED BY <1>1, <1>2, <2>1, <2>2
<1>5. ASSUME NEW u \in DOMAIN H
      PROVE  t[u] = IF u \in A THEN [a \in A |-> IF a = u THEN 1 ELSE 0]
                    ELSE [a \in A |-> t[H[u].operands[1]][a] + t[H[u].operands[2]][a]]
  <2>1. u \in DOMAIN G /\ t[u] = s[u]
    BY <1>1, <1>2
  <2>2. CASE u \in A
    BY <2>1, <2>2 DEF Meaning
  <2>3. CASE u \notin A
    <3>1. Len(G[u].operands) = 2
      BY <2>1, <2>3
    <3>2. Len(H[u].operands) = 2
      BY <1>1, <3>1
    <3>3. 1 \in 1 .. Len(H[u].operands) /\ 2 \in 1 .. Len(H[u].operands)
      BY <3>2
    <3>4. t[H[u].operands[1]] = s[G[u].operands[1]] /\ t[H[u].operands[2]] = s[G[u].operands[2]]
      BY <1>4, <3>3
    <3>5. s[u] = [a \in A |-> s[G[u].operands[1]][a] + s[G[u].operands[2]][a]]
      BY <2>1, <2>3 DEF Meaning
    <3> QED BY <2>1, <2>3, <3>4, <3>5
  <2> QED BY <2>2, <2>3
<1> QED BY <1>3, <1>4, <1>5 DEF Meaning

\* Such a step keeps the meanings.
LEMMA ShorterKeeps ==
  ASSUME Structure, NEW s, SenseOK(s), NEW x, Shorter(ir, ir', x, s), original' = original,
         pc' = "erase"
  PROVE  MeaningOK'
<1>1. PICK G, H, A : G = ir /\ H = ir' /\ A = Atoms(original)
  OBVIOUS
<1>2. PICK t : t = [v \in DOMAIN H |-> s[v]]
  OBVIOUS
<1>3. /\ Graph(ir) /\ DOMAIN ir = Live
      /\ \A u \in Live : u \notin Atoms(original) => Len(ir[u].operands) = 2
  BY AtomsKept
<1>4. /\ Meaning(H, A, t)
      /\ \A v \in DOMAIN H : \A k \in 1 .. Len(H[v].operands) :
           t[H[v].operands[k]] = s[G[v].operands[k]]
  <2>1. /\ Shorter(G, H, x, s) /\ Meaning(G, A, s)
        /\ \A u \in DOMAIN G : u \notin A => Len(G[u].operands) = 2
    BY <1>1, <1>3 DEF SenseOK
  <2> QED BY ONLY <1>2, <2>1, ShorterMeaning
<1>5. AppliesSame(t)'
  <2> SUFFICES ASSUME NEW u \in Live', ir'[u].kind = "op"
               PROVE  t[ir'[u].operands[1]] = Sum(original, original[u].operands[1])
    BY DEF AppliesSame
  <2>1. /\ u \in DOMAIN H /\ u \in Live /\ ir[u].kind = "op"
        /\ Len(H[u].operands) = Len(ir[u].operands)
    BY <1>1, <1>3 DEF Shorter, Live
  <2>2. Len(ir[u].operands) = 1
    BY <1>3, <2>1, OperandFacts DEF Degree, Arity
  <2>3. 1 \in 1 .. Len(H[u].operands)
    BY <2>1, <2>2
  <2>4. t[H[u].operands[1]] = s[ir[u].operands[1]]
    BY <1>1, <1>4, <2>1, <2>3
  <2>5. s[ir[u].operands[1]] = Sum(original, original[u].operands[1])
    BY <2>1 DEF SenseOK, AppliesSame
  <2> QED BY <1>1, <2>4, <2>5
<1>6. Meaning(ir, Atoms(original), t)'
  BY <1>1, <1>4
<1>7. SenseOK(t)'
  BY <1>5, <1>6 DEF SenseOK
<1> QED BY <1>7 DEF MeaningOK

\* The last node of the queue means what the root does.
LEMMA ReplaceMeaning == Structure /\ MeaningOK /\ Replace => MeaningOK'
<1> SUFFICES ASSUME Structure, MeaningOK, Replace PROVE MeaningOK'
  OBVIOUS
<1>1. /\ pc = "rank" /\ pc' = "erase" /\ original' = original
  BY DEF Replace
<1>2. PICK x, top : ReplaceOf(x, top)
  BY ReplaceFacts
<1>3. PICK s : SenseOK(s)
  BY DEF MeaningOK
<1>4. /\ Meaning(ir, Atoms(original), s) /\ RankSum(s)
  BY <1>1, <1>3 DEF SenseOK
<1>5. /\ heap = {x} /\ top = x.value /\ top \in Live /\ seq = 2 * Len(leaves) - 1
      /\ Rewired(ir, ir', Root, top)
  BY <1>2 DEF ReplaceOf
<1>6. /\ Root \in Live /\ Nodes(heap, seq, Live) /\ Len(leaves) \in Nat /\ Len(leaves) >= 3
      /\ Graph(ir)
  BY <1>1, RankFacts
<1>7. ASSUME NEW a \in Atoms(original) PROVE s[top][a] = s[Root][a]
  <2>1. PICK w : w = At(s, a)
    OBVIOUS
  <2>2. w \in [Live -> Int] /\ \A v \in Live : w[v] = s[v][a]
    BY <1>4, <2>1, AtFacts DEF Live
  <2>3. HeapSum(w, heap, seq) = w[x.value]
    BY <1>5, <1>6, <2>2, HeapSumOne
  <2>4. HeapSum(w, heap, seq) = s[Root][a]
    <3>1. seq >= Len(leaves)
      BY <1>5, <1>6
    <3> QED BY <1>4, <2>1, <3>1 DEF RankSum
  <2> QED BY <1>5, <2>2, <2>3, <2>4
<1>8. s[top] = s[Root]
  <2>1. s[top] \in [Atoms(original) -> Int] /\ s[Root] \in [Atoms(original) -> Int]
    BY <1>4, <1>5, <1>6 DEF Meaning, Live
  <2> QED BY <1>7, <2>1
<1>9. Shorter(ir, ir', Root, s)
  <2>1. /\ Graph(ir') /\ DOMAIN ir' = DOMAIN ir \ {Root}
        /\ \A u \in DOMAIN ir' :
             /\ ir'[u].kind = ir[u].kind /\ Len(ir'[u].operands) = Len(ir[u].operands)
             /\ \A k \in 1 .. Len(ir[u].operands) :
                  ir'[u].operands[k] = IF ir[u].operands[k] = Root THEN top ELSE ir[u].operands[k]
    BY <1>5 DEF Rewired
  <2>2. \A u \in DOMAIN ir' : \A k \in 1 .. Len(ir[u].operands) :
          s[ir'[u].operands[k]] = s[ir[u].operands[k]]
    BY <1>8, <2>1
  <2> QED BY <1>6, <2>1, <2>2 DEF Shorter
<1> QED BY <1>1, <1>3, <1>9, ShorterKeeps

\* Nothing uses what is erased.
LEMMA EraseMeaning == Structure /\ MeaningOK /\ EraseInterior => MeaningOK'
<1> SUFFICES ASSUME Structure, MeaningOK, EraseInterior PROVE MeaningOK'
  OBVIOUS
<1>1. /\ pc' = "erase" /\ original' = original
  BY DEF EraseInterior
<1>2. PICK x : Erased(ir, ir', x)
  BY EraseFacts
<1>3. PICK s : SenseOK(s)
  BY DEF MeaningOK
<1>4. Graph(ir)
  BY AtomsKept
<1>5. Shorter(ir, ir', x, s)
  BY <1>2, <1>4 DEF Erased, Shorter
<1> QED BY <1>1, <1>3, <1>5, ShorterKeeps

\* Every step keeps the meanings.
LEMMA NextMeaning == Structure /\ DepthOK /\ MeaningOK /\ [Next]_vars => MeaningOK'
<1> SUFFICES ASSUME Structure, DepthOK, MeaningOK, [Next]_vars PROVE MeaningOK'
  OBVIOUS
<1>1. CASE CollectRoots
  BY <1>1, CollectRootsMeaning
<1>2. CASE NextRoot
  BY <1>2, NextRootMeaning
<1>3. CASE VisitInterior
  BY <1>3, VisitInteriorMeaning
<1>4. CASE VisitLeaf
  BY <1>4, VisitLeafMeaning
<1>5. CASE TooSmall
  BY <1>5, TooSmallMeaning
<1>6. CASE StartRanking
  BY <1>6, StartRankingMeaning
<1>7. CASE RankLeaf
  BY <1>7, RankLeafMeaning
<1>8. CASE Combine
  BY <1>8, CombineMeaning
<1>9. CASE Replace
  BY <1>9, ReplaceMeaning
<1>10. CASE EraseInterior
  BY <1>10, EraseMeaning
<1>11. CASE ChainDone
  BY <1>11, ChainDoneMeaning
<1>12. CASE UNCHANGED vars
  BY <1>12, StutterMeaning
<1> QED
  BY <1>1, <1>2, <1>3, <1>4, <1>5, <1>6, <1>7, <1>8, <1>9, <1>10, <1>11, <1>12 DEF Next, Terminated

\* What an operation is applied to is the sum it was.
LEMMA MeaningIsKept == Structure /\ DepthOK /\ MeaningOK => MeaningKept
<1> SUFFICES ASSUME Structure, DepthOK, MeaningOK, NEW u \in Live, ir[u].kind = "op"
             PROVE  Sum(ir, ir[u].operands[1]) = Sum(original, original[u].operands[1])
  BY DEF MeaningKept
<1>1. Graph(ir) /\ Atoms(ir) = Atoms(original) /\ DOMAIN ir = Live
  BY AtomsKept
<1>2. PICK d : Potential(ir, d)
  BY DEF DepthOK, DepthsOK
<1>3. PICK s : Meaning(ir, Atoms(ir), s) /\ AppliesSame(s)
  BY <1>1 DEF MeaningOK, SenseOK
<1>4. \A v \in DOMAIN ir : Sum(ir, v) = s[v]
  BY <1>1, <1>2, <1>3, SumIsMeaning
<1>5. Len(ir[u].operands) = 1
  BY <1>1, OperandFacts DEF Degree, Arity
<1>6. ir[u].operands[1] \in DOMAIN ir
  <2>1. 1 \in 1 .. Len(ir[u].operands)
    BY <1>5
  <2> QED BY <1>1, <2>1, OperandFacts
<1> QED BY <1>3, <1>4, <1>6 DEF AppliesSame

\* The rewriting changes no value that an operation other than an addition of
\* one type is applied to, at any step, whatever the function.
THEOREM KeepsMeaning == Spec => []MeaningKept
<1>1. Init => MeaningOK
  BY InitMeaning
<1>2. (Structure /\ DepthOK) /\ MeaningOK /\ [Next]_vars => MeaningOK'
  BY NextMeaning
<1>3. (Structure /\ DepthOK) /\ MeaningOK => MeaningKept
  BY MeaningIsKept
<1> QED BY <1>1, <1>2, <1>3, StructureHolds, PTL DEF Spec

-----------------------------------------------------------------------------
\* The order of the walk, where the blocks are listed in the order of
\* dominance.

\* Every value has a place: an original its own number, a new addition one
\* that is not below its operands'.
Places(l) ==
  /\ l \in [Live -> Nat]
  /\ \A u \in Live : \A k \in 1 .. Len(ir[u].operands) :
       /\ l[ir[u].operands[k]] <= l[u]
       /\ u \in DOMAIN original => l[ir[u].operands[k]] < l[u]
  /\ \A v \in Live \cap DOMAIN original : v # Return => l[v] = v

\* What has been searched is before the roots that are left.
MemoBefore(l) == \A v \in DOMAIN depthMemo : \A r \in roots : l[v] < r

\* So is what the tree is made of.
TreeBefore(l) ==
  pc \in {"gather", "rank"} =>
    /\ \A i \in 1 .. Len(worklist) : l[worklist[i]] < Root
    /\ \A i \in 1 .. Len(leaves) : l[leaves[i]] < Root
    /\ \A x \in heap : l[x.value] < Root

\* The memo has the true depths of what it has: it has the operands', too.
MemoClosed ==
  \A v \in DOMAIN depthMemo :
    /\ \A k \in 1 .. Len(ir[v].operands) : ir[v].operands[k] \in DOMAIN depthMemo
    /\ depthMemo[v] = Above(ir, depthMemo, v)

OrderedBy(l) == Places(l) /\ MemoBefore(l) /\ TreeBefore(l)

OrderOK ==
  inOrder => /\ MemoClosed /\ (pc = "walk" => DOMAIN depthMemo = {})
             /\ \E l : OrderedBy(l)

\* Operands have smaller numbers than their users at the start.
LEMMA InitOrder == Init => OrderOK
<1> SUFFICES ASSUME Init PROVE OrderOK
  OBVIOUS
<1>1. pc = "walk" /\ original = ir /\ depthMemo = <<>> /\ roots = {}
  BY DEF Init
<1>2. DOMAIN depthMemo = {}
  BY <1>1
<1>3. Structure
  BY InitStructure
<1>4. PICK n \in Nat \ {0} :
        /\ DOMAIN original = 0 .. n
        /\ \A u \in 0 .. n : \A k \in 1 .. Len(original[u].operands) :
             original[u].operands[k] \in 1 .. (IF u = Return THEN n ELSE u - 1)
  BY <1>3 DEF Structure, OriginalOK
<1>5. Live = 0 .. n
  BY <1>1, <1>4 DEF Live
<1>6. PICK l : l = [v \in Live |-> IF v = Return THEN n + 1 ELSE v]
  OBVIOUS
<1>7. l \in [Live -> Nat] /\ \A v \in Live : l[v] = IF v = Return THEN n + 1 ELSE v
  BY <1>5, <1>6
<1>8. ASSUME NEW u \in Live, NEW k \in 1 .. Len(ir[u].operands)
      PROVE  l[ir[u].operands[k]] < l[u]
  <2>1. PICK o : o = ir[u].operands[k]
    OBVIOUS
  <2>2. o \in 1 .. (IF u = Return THEN n ELSE u - 1)
    BY <1>1, <1>4, <1>5, <2>1
  <2>3. o \in Live /\ o # Return /\ u \in 0 .. n
    BY <1>5, <2>2 DEF Return
  <2>4. l[o] = o /\ l[u] = IF u = Return THEN n + 1 ELSE u
    BY <1>7, <2>3
  <2>5. o < l[u]
    BY <2>2, <2>3, <2>4
  <2> QED BY <2>1, <2>4, <2>5
<1>9. ASSUME NEW u \in Live, NEW k \in 1 .. Len(ir[u].operands)
      PROVE  l[ir[u].operands[k]] <= l[u]
  <2>1. ir[u].operands[k] \in Live
    BY <1>3, OperandFacts DEF Structure, ProgramOK, Live
  <2>2. l[ir[u].operands[k]] \in Nat /\ l[u] \in Nat
    BY <1>7, <2>1
  <2> QED BY <1>8, <2>2
<1>10. Places(l)
  BY <1>7, <1>8, <1>9 DEF Places
<1>11. OrderedBy(l)
  BY <1>1, <1>2, <1>10 DEF OrderedBy, MemoBefore, TreeBefore
<1> QED BY <1>2, <1>11 DEF OrderOK, MemoClosed

\* The steps that leave the program and the memo as they are.
SameMemo == KeptProgram /\ depthMemo' = depthMemo /\ inOrder' = inOrder

\* They keep the places and the memo.
LEMMA KeptPlaces ==
  ASSUME SameMemo, NEW l, Places(l), MemoClosed
  PROVE  Places(l)' /\ MemoClosed'
<1>1. ir' = ir /\ original' = original /\ depthMemo' = depthMemo
  BY DEF SameMemo, KeptProgram
<1>2. Places(l)'
  BY <1>1 DEF Places, Live
<1>3. MemoClosed'
  <2>1. ASSUME NEW v \in DOMAIN depthMemo
        PROVE  /\ \A k \in 1 .. Len(ir[v].operands) : ir[v].operands[k] \in DOMAIN depthMemo
               /\ depthMemo[v] = Above(ir, depthMemo, v)
    BY <2>1 DEF MemoClosed
  <2> QED BY <1>1, <2>1 DEF MemoClosed
<1> QED BY <1>2, <1>3

\* Nothing is in the memo yet.
LEMMA CollectRootsOrder == Structure /\ OrderOK /\ CollectRoots => OrderOK'
<1> SUFFICES ASSUME OrderOK, CollectRoots, inOrder PROVE OrderOK'
  BY DEF OrderOK, CollectRoots
<1>1. pc = "walk" /\ pc' = "next" /\ SameMemo
  BY DEF CollectRoots, KeptProgram, SameMemo
<1>2. MemoClosed /\ DOMAIN depthMemo = {}
  BY <1>1 DEF OrderOK
<1>3. PICK l : OrderedBy(l)
  BY DEF OrderOK
<1>4. Places(l)' /\ MemoClosed'
  BY <1>1, <1>2, <1>3, KeptPlaces DEF OrderedBy
<1>5. DOMAIN depthMemo' = {}
  BY <1>1, <1>2 DEF SameMemo
<1>6. OrderedBy(l)'
  BY <1>1, <1>4, <1>5 DEF OrderedBy, MemoBefore, TreeBefore
<1> QED BY <1>4, <1>5, <1>6 DEF OrderOK

\* A tree is done with.
LEMMA DoneOrder ==
  ASSUME OrderOK, SameMemo, roots' \subseteq roots, pc' = "next"
  PROVE  OrderOK'
<1> SUFFICES ASSUME inOrder PROVE OrderOK'
  BY DEF OrderOK, SameMemo
<1>1. PICK l : OrderedBy(l) /\ MemoClosed
  BY DEF OrderOK
<1>2. Places(l)' /\ MemoClosed'
  BY <1>1, KeptPlaces DEF OrderedBy
<1>3. MemoBefore(l)'
  BY <1>1 DEF OrderedBy, MemoBefore, SameMemo
<1>4. OrderedBy(l)'
  BY <1>2, <1>3 DEF OrderedBy, TreeBefore
<1> QED BY <1>2, <1>4 DEF OrderOK

\* A tree that is left as it is.
LEMMA TooSmallOrder == OrderOK /\ TooSmall => OrderOK'
BY DoneOrder DEF TooSmall, SameMemo, KeptProgram

\* A tree that is rewritten.
LEMMA ChainDoneOrder == OrderOK /\ ChainDone => OrderOK'
BY DoneOrder DEF ChainDone, SameMemo, KeptProgram

\* A tree goes on.
LEMMA GatherOrder ==
  ASSUME OrderOK, SameMemo, roots' = roots, pc' # "walk",
         \A l : inOrder /\ OrderedBy(l) => TreeBefore(l)'
  PROVE  OrderOK'
<1> SUFFICES ASSUME inOrder PROVE OrderOK'
  BY DEF OrderOK, SameMemo
<1>1. PICK l : OrderedBy(l) /\ MemoClosed
  BY DEF OrderOK
<1>2. Places(l)' /\ MemoClosed'
  BY <1>1, KeptPlaces DEF OrderedBy
<1>3. MemoBefore(l)'
  BY <1>1 DEF OrderedBy, MemoBefore, SameMemo
<1>4. OrderedBy(l)'
  BY <1>1, <1>2, <1>3 DEF OrderedBy
<1> QED BY <1>2, <1>4 DEF OrderOK

\* The root is in its place.
LEMMA RootPlace ==
  ASSUME Structure, pc \in {"next", "gather", "rank"}, roots # {}, NEW l, Places(l)
  PROVE  /\ Root \in roots /\ Root \in Live /\ Root \in DOMAIN original /\ Root # Return
         /\ l[Root] = Root /\ Root \in Nat
<1>1. Root \in roots /\ roots \subseteq DOMAIN original \ {Return} /\ Graph(original)
  BY ChainFacts
<1>2. Root \in Live
  BY <1>1 DEF Structure, RootsOK
<1>3. Root \in Nat
  BY <1>1 DEF Graph
<1> QED BY <1>1, <1>2, <1>3 DEF Places

\* The operands of a root are before it.
LEMMA NextRootOrder == Structure /\ OrderOK /\ NextRoot => OrderOK'
<1> SUFFICES ASSUME Structure, OrderOK, NextRoot PROVE OrderOK'
  OBVIOUS
<1>1. /\ pc = "next" /\ roots # {} /\ pc' = "gather" /\ SameMemo /\ roots' = roots
      /\ inOrder' = inOrder /\ original' = original /\ heap' = {}
  BY DEF NextRoot, SameMemo, KeptProgram
<1>2. Root' = Root
  BY <1>1, SameRoot
<1>3. ASSUME NEW l, OrderedBy(l) PROVE TreeBefore(l)'
  <2>1. Places(l)
    BY <1>3 DEF OrderedBy
  <2>2. Root \in Live /\ Root \in DOMAIN original /\ l[Root] = Root
    BY <1>1, <2>1, RootPlace
  <2>3. PICK w : w = [v \in Live |-> 0]
    OBVIOUS
  <2>4. PICK x, p, q : NextRootSums(w, x, p, q)
    BY <2>3, NextRootSum
  <2>5. /\ x = Root /\ p = ir[x].operands[1] /\ q = ir[x].operands[2] /\ Len(ir[x].operands) = 2
        /\ \A i \in 1 .. Len(worklist') : worklist'[i] \in {p, q}
        /\ Len(leaves') = 0
    BY <2>4 DEF NextRootSums
  <2>6. 1 \in 1 .. Len(ir[x].operands) /\ 2 \in 1 .. Len(ir[x].operands)
    BY <2>5
  <2>7. l[p] < Root /\ l[q] < Root
    BY <2>1, <2>2, <2>5, <2>6 DEF Places
  <2>8. \A i \in 1 .. Len(worklist') : l[worklist'[i]] < Root
    BY <2>5, <2>7
  <2>9. \A i \in 1 .. Len(leaves') : l[leaves'[i]] < Root
    BY <2>5
  <2> QED BY <1>1, <1>2, <2>8, <2>9 DEF TreeBefore
<1> QED BY <1>1, <1>3, GatherOrder

\* The operands of an addition are before the root, too.
LEMMA VisitInteriorOrder == Structure /\ OrderOK /\ VisitInterior => OrderOK'
<1> SUFFICES ASSUME Structure, OrderOK, VisitInterior PROVE OrderOK'
  OBVIOUS
<1>1. /\ pc = "gather" /\ pc' = "gather" /\ SameMemo /\ roots' = roots
      /\ inOrder' = inOrder /\ original' = original /\ heap' = heap /\ leaves' = leaves
  BY DEF VisitInterior, SameMemo, KeptProgram
<1>2. Root' = Root
  BY <1>1, SameRoot
<1>3. ASSUME NEW l, OrderedBy(l) PROVE TreeBefore(l)'
  <2>1. Places(l) /\ TreeBefore(l)
    BY <1>3 DEF OrderedBy
  <2>2. Root \in Nat
    <3>1. Root \in roots
      BY <1>1, GatherFacts
    <3> QED BY <1>1, <2>1, <3>1, RootPlace
  <2>3. PICK w : w = [v \in Live |-> 0]
    OBVIOUS
  <2>4. PICK v, p, q : VisitSums(w, v, p, q)
    BY <2>3, VisitInteriorSum
  <2>5. /\ v \in Live /\ p = ir[v].operands[1] /\ q = ir[v].operands[2] /\ Len(ir[v].operands) = 2
        /\ p \in Live /\ q \in Live
        /\ \E i \in 1 .. Len(worklist) : worklist[i] = v
        /\ \A i \in 1 .. Len(worklist') :
             worklist'[i] \in {p, q} \/ \E j \in 1 .. Len(worklist) : worklist'[i] = worklist[j]
    BY <2>4 DEF VisitSums
  <2>6. 1 \in 1 .. Len(ir[v].operands) /\ 2 \in 1 .. Len(ir[v].operands)
    BY <2>5
  <2>7. /\ l[p] <= l[v] /\ l[q] <= l[v] /\ l[p] \in Nat /\ l[q] \in Nat /\ l[v] \in Nat
    BY <2>1, <2>5, <2>6 DEF Places
  <2>8. l[v] < Root
    BY <1>1, <2>1, <2>5 DEF TreeBefore
  <2>9. l[p] < Root /\ l[q] < Root
    BY <2>2, <2>7, <2>8
  <2>10. \A i \in 1 .. Len(worklist') : l[worklist'[i]] < Root
    BY <1>1, <2>1, <2>5, <2>9 DEF TreeBefore
  <2> QED BY <1>1, <1>2, <2>1, <2>10 DEF TreeBefore
<1> QED BY <1>1, <1>3, GatherOrder

\* Every leaf is before the root.
LEMMA VisitLeafOrder == Structure /\ OrderOK /\ VisitLeaf => OrderOK'
<1> SUFFICES ASSUME Structure, OrderOK, VisitLeaf PROVE OrderOK'
  OBVIOUS
<1>1. /\ pc = "gather" /\ pc' = "gather" /\ SameMemo /\ roots' = roots
      /\ inOrder' = inOrder /\ original' = original /\ heap' = heap
  BY DEF VisitLeaf, SameMemo, KeptProgram
<1>2. Root' = Root
  BY <1>1, SameRoot
<1>3. PICK w : w = [v \in Live |-> 0]
  OBVIOUS
<1>4. /\ \A i \in 1 .. Len(worklist') :
              \E j \in 1 .. Len(worklist) : worklist'[i] = worklist[j]
      /\ \A i \in 1 .. Len(leaves') : \/ \E j \in 1 .. Len(leaves) : leaves'[i] = leaves[j]
                                      \/ \E j \in 1 .. Len(worklist) : leaves'[i] = worklist[j]
  BY <1>3, VisitLeafSum
<1>5. ASSUME NEW l, OrderedBy(l) PROVE TreeBefore(l)'
  BY <1>1, <1>2, <1>4, <1>5 DEF OrderedBy, TreeBefore
<1> QED BY <1>1, <1>5, GatherOrder

\* All leaves are before the root.
LEMMA StartRankingOrder == OrderOK /\ StartRanking => OrderOK'
<1> SUFFICES ASSUME OrderOK, StartRanking PROVE OrderOK'
  OBVIOUS
<1>1. /\ pc = "gather" /\ pc' = "rank" /\ SameMemo /\ roots' = roots
      /\ inOrder' = inOrder /\ original' = original
      /\ heap' = heap /\ leaves' = leaves /\ worklist' = worklist
  BY DEF StartRanking, SameMemo, KeptProgram, tree
<1>2. Root' = Root
  BY <1>1, SameRoot
<1>3. ASSUME NEW l, OrderedBy(l) PROVE TreeBefore(l)'
  BY <1>1, <1>2, <1>3 DEF OrderedBy, TreeBefore
<1> QED BY <1>1, <1>3, GatherOrder

\* Nothing changes.
LEMMA StutterOrder == OrderOK /\ UNCHANGED vars => OrderOK'
<1> SUFFICES ASSUME OrderOK, UNCHANGED vars PROVE OrderOK'
  OBVIOUS
<1>1. /\ pc' = pc /\ SameMemo /\ roots' = roots /\ inOrder' = inOrder /\ original' = original
      /\ heap' = heap /\ leaves' = leaves /\ worklist' = worklist
  BY DEF vars, SameMemo, KeptProgram
<1>2. Root' = Root
  BY <1>1, SameRoot
<1>3. ASSUME NEW l, OrderedBy(l) PROVE TreeBefore(l)'
  BY <1>1, <1>2, <1>3 DEF OrderedBy, TreeBefore
<1>4. CASE pc' # "walk"
  BY <1>1, <1>3, <1>4, GatherOrder
<1>5. CASE pc = "walk" /\ inOrder
  <2>1. PICK l : OrderedBy(l) /\ MemoClosed /\ DOMAIN depthMemo = {}
    BY <1>5 DEF OrderOK
  <2>2. Places(l)' /\ MemoClosed'
    BY <1>1, <2>1, KeptPlaces DEF OrderedBy
  <2>3. DOMAIN depthMemo' = {}
    BY <1>1, <2>1 DEF SameMemo
  <2>4. OrderedBy(l)'
    BY <1>3, <2>1, <2>2, <2>3 DEF OrderedBy, MemoBefore
  <2> QED BY <2>2, <2>3, <2>4 DEF OrderOK
<1>6. CASE ~ inOrder
  BY <1>1, <1>6 DEF OrderOK
<1> QED BY <1>1, <1>4, <1>5, <1>6

\* Operands that are the same have the same above them.
LEMMA AboveAcross ==
  ASSUME NEW G, Graph(G), NEW u \in DOMAIN G, NEW H, H[u].operands = G[u].operands,
         NEW f, NEW g, \A k \in 1 .. Len(G[u].operands) : f[G[u].operands[k]] = g[G[u].operands[k]]
  PROVE  Above(H, f, u) = Above(G, g, u)
<1>1. Above(H, f, u) = Above(G, f, u)
  BY DEF Above
<1>2. Above(G, f, u) = Above(G, g, u)
  BY AboveSame
<1> QED BY <1>1, <1>2

\* The memo loses what nothing that it keeps is made of.
LEMMA MemoKeeps ==
  ASSUME Graph(ir), MemoClosed, DOMAIN depthMemo' \subseteq DOMAIN depthMemo,
         DOMAIN depthMemo \subseteq Live,
         \A v \in DOMAIN depthMemo' :
           /\ depthMemo'[v] = depthMemo[v] /\ ir'[v].operands = ir[v].operands
           /\ \A k \in 1 .. Len(ir[v].operands) : ir[v].operands[k] \in DOMAIN depthMemo'
  PROVE  MemoClosed'
<1> SUFFICES ASSUME NEW v \in DOMAIN depthMemo'
             PROVE  /\ \A k \in 1 .. Len(ir'[v].operands) : ir'[v].operands[k] \in DOMAIN depthMemo'
                    /\ depthMemo'[v] = Above(ir', depthMemo', v)
  BY DEF MemoClosed
<1>1. v \in DOMAIN ir /\ depthMemo[v] = Above(ir, depthMemo, v)
  BY DEF MemoClosed, Live
<1>2. PICK G, H, f, g : G = ir /\ H = ir' /\ f = depthMemo' /\ g = depthMemo
  OBVIOUS
<1>3. Above(H, f, v) = Above(G, g, v)
  <2>1. /\ Graph(G) /\ v \in DOMAIN G /\ H[v].operands = G[v].operands
        /\ \A k \in 1 .. Len(G[v].operands) : f[G[v].operands[k]] = g[G[v].operands[k]]
    BY <1>1, <1>2
  <2> QED BY ONLY <2>1, AboveAcross
<1> QED BY <1>1, <1>2, <1>3

\* What getDepth searches is before the root, and has the depths it finds.
LEMMA RankLeafOrder == Structure /\ DepthOK /\ OrderOK /\ RankLeaf => OrderOK'
<1> SUFFICES ASSUME Structure, DepthOK, OrderOK, RankLeaf, inOrder PROVE OrderOK'
  BY DEF OrderOK, RankLeaf
<1>1. /\ pc = "rank" /\ pc' = "rank" /\ ir' = ir /\ roots' = roots /\ inOrder' = inOrder
      /\ original' = original /\ leaves' = leaves /\ worklist' = worklist /\ seq < Len(leaves)
      /\ heap' = heap \cup {Node(leaves[seq + 1], Depth[leaves[seq + 1]], seq)}
      /\ depthMemo' = [v \in DOMAIN depthMemo \cup Searched[leaves[seq + 1]] |-> Depth[v]]
  BY DEF RankLeaf
<1>2. Root' = Root
  BY <1>1, SameRoot
<1>3. PICK d : Potential(ir, d) /\ MemoHolds(d)
  BY DEF DepthOK, DepthsOK
<1>4. PICK l : Places(l) /\ MemoBefore(l) /\ TreeBefore(l) /\ MemoClosed
  BY DEF OrderOK, OrderedBy
<1>5. /\ Graph(ir) /\ leaves \in Seq(Live) /\ seq \in Nat /\ Len(leaves) \in Nat
      /\ roots \subseteq DOMAIN original \ {Return} /\ Graph(original)
  BY <1>1, RankFacts DEF Structure, RootsOK
<1>6. PICK leaf, S : leaf = leaves[seq + 1] /\ S = Searched[leaf]
  OBVIOUS
<1>7. leaf \in Live /\ l[leaf] < Root
  <2>1. seq + 1 \in 1 .. Len(leaves)
    BY <1>1, <1>5
  <2> QED BY <1>1, <1>4, <1>5, <1>6, <2>1 DEF TreeBefore
<1>8. \A v \in DOMAIN depthMemo : v \in Live /\ depthMemo[v] \in Nat
  BY <1>3 DEF MemoHolds, Potential, Live
<1>9. /\ Depth \in [Live -> Nat]
      /\ \A v \in Live : Depth[v] = IF v \in DOMAIN depthMemo THEN depthMemo[v]
                                    ELSE Above(ir, Depth, v)
  BY <1>3, <1>5, <1>8, DepthFacts
<1>10. Slope(ir, l)
  BY <1>4 DEF Slope, Places, Live
<1>11. /\ S \subseteq Live \ DOMAIN depthMemo
       /\ \A v \in S : \A k \in 1 .. Len(ir[v].operands) :
            ir[v].operands[k] \in S \cup DOMAIN depthMemo
       /\ \A v \in S : l[v] <= l[leaf]
  <2>1. Found(ir, depthMemo, Searched)
    BY <1>3, <1>5, SearchedIsFound
  <2>2. PICK f : f = Searched
    OBVIOUS
  <2>3. /\ f[leaf] \subseteq DOMAIN ir \ DOMAIN depthMemo
        /\ \A v \in f[leaf] : \A k \in 1 .. Len(ir[v].operands) :
             ir[v].operands[k] \in f[leaf] \cup DOMAIN depthMemo
        /\ \A h : Slope(ir, h) => \A v \in f[leaf] : h[v] <= h[leaf]
    <3>1. Found(ir, depthMemo, f) /\ leaf \in DOMAIN ir
      BY <1>7, <2>1, <2>2 DEF Live
    <3> QED BY <1>3, <1>5, <3>1, FoundFacts
  <2> QED BY <1>6, <1>10, <2>2, <2>3 DEF Live
<1>12. PICK M, m : M = DOMAIN depthMemo \cup S /\ m = depthMemo'
  OBVIOUS
<1>13. DOMAIN m = M /\ M \subseteq Live /\ \A v \in M : m[v] = Depth[v]
  BY <1>1, <1>6, <1>8, <1>11, <1>12
<1>14. ASSUME NEW v \in M
       PROVE  /\ \A k \in 1 .. Len(ir[v].operands) : ir[v].operands[k] \in M
              /\ m[v] = Above(ir, m, v)
  <2>1. CASE v \in DOMAIN depthMemo
    <3>1. /\ \A k \in 1 .. Len(ir[v].operands) : ir[v].operands[k] \in DOMAIN depthMemo
          /\ depthMemo[v] = Above(ir, depthMemo, v)
      BY <1>4, <2>1 DEF MemoClosed
    <3>2. \A k \in 1 .. Len(ir[v].operands) : m[ir[v].operands[k]] = depthMemo[ir[v].operands[k]]
      BY <1>8, <1>9, <1>12, <1>13, <3>1
    <3>3. Above(ir, m, v) = Above(ir, depthMemo, v)
      <4>1. v \in DOMAIN ir
        BY <1>13 DEF Live
      <4> QED BY <1>5, <3>2, <4>1, AboveSame
    <3>4. m[v] = depthMemo[v]
      BY <1>9, <1>13, <2>1
    <3> QED BY <1>12, <3>1, <3>3, <3>4
  <2>2. CASE v \in S
    <3>1. \A k \in 1 .. Len(ir[v].operands) : ir[v].operands[k] \in M
      BY <1>11, <1>12, <2>2
    <3>2. \A k \in 1 .. Len(ir[v].operands) : m[ir[v].operands[k]] = Depth[ir[v].operands[k]]
      BY <1>13, <3>1
    <3>3. PICK D : D = Depth
      OBVIOUS
    <3>4. Above(ir, m, v) = Above(ir, D, v)
      <4>1. v \in DOMAIN ir
        BY <1>13 DEF Live
      <4>2. \A k \in 1 .. Len(ir[v].operands) : m[ir[v].operands[k]] = D[ir[v].operands[k]]
        BY <3>2, <3>3
      <4> QED BY <1>5, <4>1, <4>2, AboveSame
    <3>5. Depth[v] = Above(ir, Depth, v)
      BY <1>9, <1>11, <2>2
    <3> QED BY <1>13, <3>1, <3>3, <3>4, <3>5
  <2> QED BY <1>12, <2>1, <2>2
<1>15. MemoClosed'
  BY <1>1, <1>12, <1>13, <1>14 DEF MemoClosed
<1>16. Places(l)'
  BY <1>1, <1>4 DEF Places, Live
<1>17. MemoBefore(l)'
  <2>1. ASSUME NEW v \in S, NEW r \in roots PROVE l[v] < r
    <3>1. Root \in roots /\ Root \in Nat /\ r \in Nat
      <4>1. roots # {}
        BY <2>1
      <4> QED BY <1>1, <1>4, <1>5, <4>1, RootPlace DEF Graph
    <3>2. Root <= r
      <4>1. r # Root => ListedBefore(Root, r)
        BY <1>5, <2>1, RootFacts
      <4> QED BY <3>1, <4>1 DEF ListedBefore
    <3>3. l[v] \in Nat /\ l[leaf] \in Nat /\ l[v] <= l[leaf]
      BY <1>4, <1>7, <1>11 DEF Places
    <3> QED BY <1>7, <3>1, <3>2, <3>3
  <2> QED BY <1>1, <1>4, <1>12, <1>13, <2>1 DEF MemoBefore
<1>18. TreeBefore(l)'
  <2>1. \A x \in heap' : l[x.value] < Root
    BY <1>1, <1>4, <1>6, <1>7 DEF TreeBefore, Node
  <2> QED BY <1>1, <1>2, <1>4, <2>1 DEF TreeBefore
<1> QED BY <1>1, <1>15, <1>16, <1>17, <1>18 DEF OrderOK, OrderedBy

\* A new addition has the place of the later of its operands.
LEMMA CombineOrder == Structure /\ DepthOK /\ OrderOK /\ Combine => OrderOK'
<1> SUFFICES ASSUME Structure, DepthOK, OrderOK, Combine, inOrder PROVE OrderOK'
  BY DEF OrderOK, Combine
<1>1. /\ pc = "rank" /\ pc' = "rank" /\ worklist' = worklist /\ leaves' = leaves
      /\ inOrder' = inOrder /\ roots' = roots /\ original' = original
      /\ depthMemo' = depthMemo /\ Root' = Root /\ \E a, b, n, rb : CombineOf(a, b, n, rb)
  BY CombineFacts
<1>2. PICK a, b, n, rb : CombineOf(a, b, n, rb)
  BY <1>1
<1>3. /\ a \in heap /\ b \in heap /\ a.value \in Live /\ b.value \in Live
      /\ n \in Nat \ Live /\ \A v \in Live : v < n
      /\ heap' = (heap \ {a, b}) \cup {Node(n, b.rank + 1, seq)}
      /\ Added(ir, ir', n, a.value, b.value, rb)
  BY <1>2 DEF CombineOf
<1>4. PICK l : Places(l) /\ MemoBefore(l) /\ TreeBefore(l) /\ MemoClosed
  BY DEF OrderOK, OrderedBy
<1>5. /\ Graph(ir) /\ Root \in Live /\ worklist = <<>> /\ leaves \in Seq(Live)
      /\ Nodes(heap, seq, Live)
  BY <1>1, RankFacts
<1>6. \A v \in DOMAIN depthMemo : v \in Live
  BY DEF DepthOK, DepthsOK, MemoHolds
<1>7. /\ Live' = Live \cup {n} /\ \A u \in Live : ir'[u] = ir[u]
      /\ Len(ir'[n].operands) = 2 /\ ir'[n].operands[1] = a.value /\ ir'[n].operands[2] = b.value
  BY <1>3 DEF Added, Live
<1>8. n \notin DOMAIN original
  <2>1. PICK v \in Live : \A u \in DOMAIN original : u <= v
    BY DEF Structure, NumbersOK
  <2>2. v < n /\ v \in Nat /\ n \in Nat
    BY <1>3, <1>5, <2>1 DEF Graph, Live
  <2> QED BY <2>1, <2>2
<1>9. PICK p, h, W : /\ p = (IF l[a.value] <= l[b.value] THEN l[b.value] ELSE l[a.value])
                     /\ W = Live' /\ h = [v \in W |-> IF v = n THEN p ELSE l[v]]
  OBVIOUS
<1>10. /\ l[a.value] \in Nat /\ l[b.value] \in Nat /\ p \in Nat
       /\ l[a.value] <= p /\ l[b.value] <= p /\ p < Root
  <2>1. l[a.value] \in Nat /\ l[b.value] \in Nat
    BY <1>3, <1>4 DEF Places
  <2>2. l[a.value] < Root /\ l[b.value] < Root
    BY <1>1, <1>3, <1>4 DEF TreeBefore
  <2> QED BY <1>9, <2>1, <2>2
<1>11. h[n] = p /\ \A v \in Live : h[v] = l[v]
  BY <1>3, <1>7, <1>9
<1>12. h \in [W -> Nat]
  <2>1. \A v \in Live : l[v] \in Nat
    BY <1>4 DEF Places
  <2> QED BY <1>7, <1>9, <1>10, <2>1
<1>13. ASSUME NEW u \in W, NEW k \in 1 .. Len(ir'[u].operands)
       PROVE  /\ h[ir'[u].operands[k]] <= h[u]
              /\ u \in DOMAIN original => h[ir'[u].operands[k]] < h[u]
  <2>1. CASE u = n
    <3>1. k = 1 \/ k = 2
      <4>1. Len(ir'[u].operands) = 2
        BY <1>7, <2>1
      <4>2. k \in 1 .. 2
        BY <4>1
      <4> QED BY <4>2
    <3>2. h[ir'[u].operands[k]] <= p
      BY <1>3, <1>7, <1>10, <1>11, <2>1, <3>1
    <3> QED BY <1>8, <1>11, <2>1, <3>2
  <2>2. CASE u \in Live
    <3>1. ir'[u] = ir[u] /\ ir[u].operands[k] \in Live
      BY <1>5, <1>7, <2>2, OperandFacts DEF Live
    <3>2. k \in 1 .. Len(ir[u].operands)
      BY <3>1
    <3> QED BY <1>4, <1>11, <2>2, <3>1, <3>2 DEF Places
  <2> QED BY <1>7, <1>9, <2>1, <2>2
<1>14. \A v \in W \cap DOMAIN original : v # Return => h[v] = v
  BY <1>4, <1>7, <1>8, <1>9, <1>11 DEF Places
<1>15. Places(h)'
  BY <1>1, <1>9, <1>12, <1>13, <1>14 DEF Places
<1>16. MemoBefore(h)'
  BY <1>1, <1>4, <1>6, <1>11 DEF MemoBefore
<1>17. TreeBefore(h)'
  <2>1. \A i \in 1 .. Len(leaves) : h[leaves[i]] < Root
    BY <1>1, <1>4, <1>5, <1>11 DEF TreeBefore
  <2>2. ASSUME NEW x \in heap' PROVE h[x.value] < Root
    <3>1. CASE x \in heap
      <4>1. x.value \in Live
        BY <1>5, <3>1, NodeFacts
      <4> QED BY <1>1, <1>4, <1>11, <3>1, <4>1 DEF TreeBefore
    <3>2. CASE x = Node(n, b.rank + 1, seq)
      BY <1>10, <1>11, <3>2 DEF Node
    <3> QED BY <1>3, <3>1, <3>2
  <2>3. Len(worklist) = 0
    BY <1>5
  <2> QED BY <1>1, <2>1, <2>2, <2>3 DEF TreeBefore
<1>18. MemoClosed'
  <2>1. \A v \in DOMAIN depthMemo : \A k \in 1 .. Len(ir[v].operands) :
          ir[v].operands[k] \in DOMAIN depthMemo
    BY <1>4 DEF MemoClosed
  <2> QED BY <1>1, <1>4, <1>5, <1>6, <1>7, <2>1, MemoKeeps
<1> QED BY <1>1, <1>15, <1>16, <1>17, <1>18 DEF OrderOK, OrderedBy

\* What reads the root is not in the memo: the root's new depth makes no entry
\* false.
LEMMA ReplaceOrder == Structure /\ DepthOK /\ OrderOK /\ Replace => OrderOK'
<1> SUFFICES ASSUME Structure, DepthOK, OrderOK, Replace, inOrder PROVE OrderOK'
  BY DEF OrderOK, Replace
<1>1. /\ pc = "rank" /\ pc' = "erase" /\ original' = original /\ roots' = roots
      /\ inOrder' = inOrder /\ depthMemo' = Without(depthMemo, ToSet(interior))
  BY DEF Replace
<1>2. PICK x, top : ReplaceOf(x, top)
  BY ReplaceFacts
<1>3. /\ x \in heap /\ top = x.value /\ top \in Live \ {Root} /\ Rewired(ir, ir', Root, top)
  BY <1>2 DEF ReplaceOf
<1>4. PICK l : Places(l) /\ MemoBefore(l) /\ TreeBefore(l) /\ MemoClosed
  BY DEF OrderOK, OrderedBy
<1>5. /\ Root \in roots /\ Graph(ir) /\ interior[1] = Root /\ Len(interior) \in Nat
      /\ \A v : v \in ToSet(interior) <=> \E j \in 1 .. Len(interior) : interior[j] = v
  BY <1>1, RankFacts
<1>6. Root \in Live /\ Root \in Nat /\ l[Root] = Root
  BY <1>1, <1>4, <1>5, RootPlace
<1>7. l[top] < Root /\ l[top] \in Nat
  BY <1>1, <1>3, <1>4 DEF TreeBefore, Places
<1>8. /\ Graph(ir') /\ Live' = Live \ {Root}
      /\ \A u \in Live' :
           /\ Len(ir'[u].operands) = Len(ir[u].operands)
           /\ \A k \in 1 .. Len(ir[u].operands) :
                ir'[u].operands[k] = IF ir[u].operands[k] = Root THEN top ELSE ir[u].operands[k]
  BY <1>3 DEF Rewired, Live
<1>9. PICK W, h : W = Live' /\ h = [v \in W |-> l[v]]
  OBVIOUS
<1>10. h \in [W -> Nat] /\ \A v \in W : h[v] = l[v] /\ l[v] \in Nat
  BY <1>4, <1>8, <1>9 DEF Places
<1>11. ASSUME NEW u \in W, NEW k \in 1 .. Len(ir'[u].operands)
       PROVE  /\ h[ir'[u].operands[k]] <= h[u]
              /\ u \in DOMAIN original => h[ir'[u].operands[k]] < h[u]
  <2>1. u \in Live /\ u \in Live' /\ k \in 1 .. Len(ir[u].operands)
    BY <1>8, <1>9
  <2>2. PICK o : o = ir[u].operands[k]
    OBVIOUS
  <2>3. o \in Live
    BY <1>5, <2>1, <2>2, OperandFacts DEF Live
  <2>4. /\ l[o] <= l[u] /\ (u \in DOMAIN original => l[o] < l[u])
        /\ l[o] \in Nat /\ l[u] \in Nat /\ h[u] = l[u]
    BY <1>4, <1>10, <2>1, <2>2, <2>3 DEF Places
  <2>5. ir'[u].operands[k] = IF o = Root THEN top ELSE o
    BY <1>8, <2>1, <2>2
  <2>6. CASE o = Root
    <3>1. h[top] = l[top]
      BY <1>3, <1>8, <1>9, <1>10
    <3> QED BY <1>6, <1>7, <2>4, <2>5, <2>6, <3>1
  <2>7. CASE o # Root
    <3>1. h[o] = l[o]
      BY <1>8, <1>9, <1>10, <2>3, <2>7
    <3> QED BY <2>4, <2>5, <2>7, <3>1
  <2> QED BY <2>6, <2>7
<1>12. \A v \in W \cap DOMAIN original : v # Return => h[v] = v
  BY <1>4, <1>8, <1>9, <1>10 DEF Places
<1>13. Places(h)'
  BY <1>1, <1>9, <1>10, <1>11, <1>12 DEF Places
<1>14. /\ DOMAIN depthMemo' = DOMAIN depthMemo \ ToSet(interior)
       /\ \A v \in DOMAIN depthMemo' : depthMemo'[v] = depthMemo[v]
  BY <1>1 DEF Without
<1>15. DOMAIN depthMemo \subseteq Live
  BY DEF DepthOK, DepthsOK, MemoHolds
<1>16. Root \notin DOMAIN depthMemo
  BY <1>4, <1>5, <1>6 DEF MemoBefore
<1>17. ASSUME NEW v \in DOMAIN depthMemo', NEW k \in 1 .. Len(ir[v].operands)
       PROVE  ir[v].operands[k] \in DOMAIN depthMemo' /\ ir[v].operands[k] # Root
  <2>1. PICK o : o = ir[v].operands[k]
    OBVIOUS
  <2>2. v \in DOMAIN depthMemo /\ v \notin ToSet(interior) /\ v \in Live
    BY <1>14, <1>15
  <2>3. o \in DOMAIN depthMemo
    BY <1>4, <2>1, <2>2 DEF MemoClosed
  <2>4. o \notin ToSet(interior)
    <3> SUFFICES ASSUME o \in ToSet(interior) PROVE FALSE
      OBVIOUS
    <3>1. PICK j \in 1 .. Len(interior) : interior[j] = o
      BY <1>5
    <3>2. j > 1
      BY <1>5, <1>16, <2>3, <3>1
    <3>3. <<v, k>> \in UsesIn(ir, o)
      BY <1>5, <2>1, <2>2, UsesOfGraph DEF Live
    <3>4. PICK i \in 1 .. j - 1 : <<v, k>>[1] = interior[i]
      BY <1>1, <3>1, <3>2, <3>3 DEF Structure, InteriorOK, InChain
    <3>5. i \in 1 .. Len(interior) /\ v = interior[i]
      BY <1>5, <3>4
    <3> QED BY <1>5, <2>2, <3>5
  <2> QED BY <1>14, <1>16, <2>1, <2>3, <2>4
<1>18. ASSUME NEW v \in DOMAIN depthMemo' PROVE ir'[v].operands = ir[v].operands
  <2>1. v \in Live /\ v \in Live'
    BY <1>8, <1>14, <1>15, <1>16
  <2>2. PICK s, t : s = ir[v].operands /\ t = ir'[v].operands
    OBVIOUS
  <2>3. s \in Seq(Live) /\ t \in Seq(Live')
    BY <1>5, <1>8, <2>1, <2>2 DEF Graph, Live
  <2>4. Len(t) = Len(s) /\ \A k \in 1 .. Len(s) : t[k] = s[k]
    BY <1>8, <1>17, <2>1, <2>2
  <2>5. s = t
    BY ONLY <2>3, <2>4
  <2> QED BY <2>2, <2>5
<1>19. MemoClosed'
  BY <1>4, <1>5, <1>14, <1>15, <1>17, <1>18, MemoKeeps
<1>20. MemoBefore(h)'
  BY <1>1, <1>4, <1>8, <1>9, <1>10, <1>14, <1>15, <1>16 DEF MemoBefore
<1>21. OrderedBy(h)'
  BY <1>1, <1>13, <1>20 DEF OrderedBy, TreeBefore
<1> QED BY <1>1, <1>19, <1>21 DEF OrderOK

\* What is erased is not in the memo.
LEMMA EraseOrder == Structure /\ DepthOK /\ OrderOK /\ EraseInterior => OrderOK'
<1> SUFFICES ASSUME Structure, DepthOK, OrderOK, EraseInterior, inOrder PROVE OrderOK'
  BY DEF OrderOK, EraseInterior
<1>1. /\ pc = "erase" /\ pc' = "erase" /\ original' = original /\ roots' = roots
      /\ inOrder' = inOrder /\ depthMemo' = depthMemo
  BY DEF EraseInterior
<1>2. PICK x : Erased(ir, ir', x) /\ Peel(x, x)
  BY EraseFacts
<1>3. PICK l : Places(l) /\ MemoBefore(l) /\ MemoClosed
  BY DEF OrderOK, OrderedBy
<1>4. Graph(ir') /\ Live' = Live \ {x} /\ \A u \in Live' : ir'[u] = ir[u]
  BY <1>2 DEF Erased, Live
<1>5. PICK W, h : W = Live' /\ h = [v \in W |-> l[v]]
  OBVIOUS
<1>6. h \in [W -> Nat] /\ \A v \in W : h[v] = l[v]
  BY <1>3, <1>4, <1>5 DEF Places
<1>7. ASSUME NEW u \in W, NEW k \in 1 .. Len(ir'[u].operands)
      PROVE  /\ h[ir'[u].operands[k]] <= h[u]
             /\ u \in DOMAIN original => h[ir'[u].operands[k]] < h[u]
  <2>1. u \in Live /\ ir'[u] = ir[u]
    BY <1>4, <1>5
  <2>2. ir'[u].operands[k] \in W
    <3>1. PICK H : H = ir'
      OBVIOUS
    <3>2. Graph(H) /\ u \in DOMAIN H
      BY <1>4, <1>5, <3>1 DEF Live
    <3>3. H[u].operands[k] \in DOMAIN H
      BY <3>1, <3>2, OperandFacts
    <3> QED BY <1>5, <3>1, <3>3 DEF Live
  <2> QED BY <1>3, <1>6, <2>1, <2>2 DEF Places
<1>8. \A v \in W \cap DOMAIN original : v # Return => h[v] = v
  BY <1>3, <1>4, <1>5, <1>6 DEF Places
<1>9. Places(h)'
  BY <1>1, <1>5, <1>6, <1>7, <1>8 DEF Places
<1>10. DOMAIN depthMemo \subseteq Live /\ DOMAIN depthMemo \cap ToSet(interior) = {}
  BY <1>1 DEF DepthOK, DepthsOK, MemoHolds
<1>11. x \in ToSet(interior)
  <2>1. interior \in Seq(Live) /\ interior # <<>> /\ x = interior[1]
    BY <1>2 DEF Structure, InteriorOK, Peel
  <2> QED BY <2>1, TailSet
<1>12. DOMAIN depthMemo \subseteq Live'
  BY <1>4, <1>10, <1>11
<1>13. MemoClosed'
  <2>1. \A v \in DOMAIN depthMemo : \A k \in 1 .. Len(ir[v].operands) :
          ir[v].operands[k] \in DOMAIN depthMemo
    BY <1>3 DEF MemoClosed
  <2>2. Graph(ir)
    BY DEF Structure, ProgramOK
  <2> QED BY <1>1, <1>3, <1>4, <1>10, <1>12, <2>1, <2>2, MemoKeeps
<1>14. MemoBefore(h)'
  BY <1>1, <1>3, <1>5, <1>6, <1>12 DEF MemoBefore
<1>15. OrderedBy(h)'
  BY <1>1, <1>9, <1>14 DEF OrderedBy, TreeBefore
<1> QED BY <1>1, <1>13, <1>15 DEF OrderOK

\* Every step keeps the order.
LEMMA NextOrder == Structure /\ DepthOK /\ OrderOK /\ [Next]_vars => OrderOK'
<1> SUFFICES ASSUME Structure, DepthOK, OrderOK, [Next]_vars PROVE OrderOK'
  OBVIOUS
<1>1. CASE CollectRoots
  BY <1>1, CollectRootsOrder
<1>2. CASE NextRoot
  BY <1>2, NextRootOrder
<1>3. CASE VisitInterior
  BY <1>3, VisitInteriorOrder
<1>4. CASE VisitLeaf
  BY <1>4, VisitLeafOrder
<1>5. CASE TooSmall
  BY <1>5, TooSmallOrder
<1>6. CASE StartRanking
  BY <1>6, StartRankingOrder
<1>7. CASE RankLeaf
  BY <1>7, RankLeafOrder
<1>8. CASE Combine
  BY <1>8, CombineOrder
<1>9. CASE Replace
  BY <1>9, ReplaceOrder
<1>10. CASE EraseInterior
  BY <1>10, EraseOrder
<1>11. CASE ChainDone
  BY <1>11, ChainDoneOrder
<1>12. CASE UNCHANGED vars
  BY <1>12, StutterOrder
<1> QED
  BY <1>1, <1>2, <1>3, <1>4, <1>5, <1>6, <1>7, <1>8, <1>9, <1>10, <1>11, <1>12 DEF Next, Terminated

\* A memo that is closed has the true depths.
LEMMA MemoIsTrue ==
  ASSUME Structure, DepthOK, MemoClosed
  PROVE  \A v \in DOMAIN depthMemo : v \in Live /\ depthMemo[v] = TrueDepth(ir, v)
<1>1. Graph(ir)
  BY DEF Structure, ProgramOK
<1>2. PICK d : Potential(ir, d)
  BY DEF DepthOK, DepthsOK
<1>3. DOMAIN depthMemo \subseteq Live
  BY DEF DepthOK, DepthsOK, MemoHolds
<1>4. PICK t : t = TrueDepths(ir)
  OBVIOUS
<1>5. \A v \in DOMAIN ir : t[v] = Above(ir, t, v) /\ t[v] = TrueDepth(ir, v)
  BY <1>1, <1>2, <1>4, TrueDepthFacts
<1> DEFINE B == {v \in DOMAIN ir : v \in DOMAIN depthMemo => depthMemo[v] = t[v]}
<1>6. ASSUME NEW v \in DOMAIN ir, \A k \in 1 .. Len(ir[v].operands) : ir[v].operands[k] \in B
      PROVE  v \in B
  <2> SUFFICES ASSUME v \in DOMAIN depthMemo PROVE depthMemo[v] = t[v]
    OBVIOUS
  <2>1. /\ \A k \in 1 .. Len(ir[v].operands) : ir[v].operands[k] \in DOMAIN depthMemo
        /\ depthMemo[v] = Above(ir, depthMemo, v)
    BY DEF MemoClosed
  <2>2. \A k \in 1 .. Len(ir[v].operands) : depthMemo[ir[v].operands[k]] = t[ir[v].operands[k]]
    BY <1>6, <2>1
  <2>3. Above(ir, depthMemo, v) = Above(ir, t, v)
    BY <1>1, <2>2, AboveSame
  <2> QED BY <1>5, <2>1, <2>3
<1> HIDE DEF B
<1>7. \A v \in DOMAIN ir : v \in B
  BY <1>1, <1>2, <1>6, Everywhere
<1> QED BY <1>3, <1>5, <1>7 DEF B, Live

\* A leaf in the queue is in the memo, whose entry is its true depth.
LEMMA RanksAreTrue == Structure /\ DepthOK /\ OrderOK => RanksAreDepths
<1> SUFFICES ASSUME Structure, DepthOK, OrderOK, inOrder, pc = "rank",
                    NEW x \in heap, x.value \in ToSet(leaves)
             PROVE  x.rank = TrueDepth(ir, x.value)
  BY DEF RanksAreDepths
<1>1. PICK d : RankRoom(d) /\ MemoHolds(d)
  BY DEF DepthOK, DepthsOK
<1>2. Nodes(heap, seq, Live) /\ Len(leaves) \in Nat /\ seq \in Nat
  BY RankFacts
<1>3. x.seq \in 0 .. seq - 1
  BY <1>2, NodeFacts
<1>4. x.seq < Len(leaves) /\ x.value = leaves[x.seq + 1]
  BY DEF Structure, HeapOK
<1>5. x.seq + 1 \in 1 .. Len(leaves) /\ x.seq + 1 <= seq
  BY <1>2, <1>3, <1>4
<1>6. x.value \in DOMAIN depthMemo
  BY <1>1, <1>4, <1>5 DEF RankRoom
<1>7. x.rank = depthMemo[x.value]
  BY <1>1, <1>6 DEF RankRoom, MemoHolds
<1> QED BY <1>6, <1>7, MemoIsTrue DEF OrderOK

\* The ranks of the leaves are the depths of their definitions, where the
\* blocks are listed in the order of dominance, although the memo outlives the
\* trees that are rewritten.
THEOREM RanksStayDepths == Spec => []RanksAreDepths
<1>1. Init => OrderOK
  BY InitOrder
<1>2. (Structure /\ DepthOK) /\ OrderOK /\ [Next]_vars => OrderOK'
  BY NextOrder
<1>3. (Structure /\ DepthOK) /\ OrderOK => RanksAreDepths
  BY RanksAreTrue
<1> QED BY <1>1, <1>2, <1>3, StructureHolds, PTL DEF Spec
=============================================================================
