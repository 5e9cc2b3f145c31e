---------------------------- MODULE PathTreeProofs ----------------------------
(***************************************************************************)
(* Proofs about PathTree and VersionTree, for every set of names, depth    *)
(* and number of nodes: whatever is set, moved, copied and removed, the    *)
(* pointers between nodes make trees, and the trees are maps from paths.   *)
(***************************************************************************)
EXTENDS VersionTree, FunctionTheorems, FiniteSetTheorems, SequenceTheorems, WellFoundedInduction, TLAPS

-----------------------------------------------------------------------------
(* The inductive invariant *)

Typed(h) ==
  /\ h.node \in [Nodes -> Files \cup {Dir, Free}]
  /\ h.kids \in [Nodes -> [Names -> Nodes \cup {None}]]

OnlyDirs(h) == \A n \in Nodes : ~IsDir(h, n) => h.kids[n] = NoKids

InUse(h) == Nodes \ FreeNodes(h)

NoDangling(h) ==
  \A m \in Nodes, x \in Names : h.kids[m][x] # None => h.kids[m][x] \in InUse(h)

NoParent(h, c) == \A m \in Nodes, x \in Names : h.kids[m][x] # c

OneParent(h, ns) ==
  \A m, n \in ns, x, y \in Names :
    h.kids[m][x] # None /\ h.kids[m][x] = h.kids[n][y] => m = n /\ x = y

\* No node is below itself.
NoCycle(h) == \A n \in Nodes, x \in Names : h.kids[n][x] # None => n \notin Has(h, h.kids[n][x])

Linked(h) == Typed(h) /\ OnlyDirs(h) /\ NoDangling(h) /\ NoCycle(h)

\* The nodes that the caller has: its tree is no part of another.
Held(h, t, s) ==
  /\ t \in InUse(h) /\ NoParent(h, t)
  /\ s \in InUse(h) \cup {None}

\* What a call leaves, before what nobody has is gone.
Sound(h, t, s) == Linked(h) /\ Held(h, t, s) /\ OneParent(h, Live(h, t, s))

\* What is left of it: nodes that have one parent each; the other node that the caller
\* has is a tree of its own, or in the tree.
Shape(h, t, s) ==
  /\ Linked(h) /\ Held(h, t, s)
  /\ OneParent(h, Nodes)
  /\ s # None => NoParent(h, s) \/ s \in Has(h, t)

TreeInv == Shape(heap, tree, sub)

-----------------------------------------------------------------------------
(* Recursive functions on 0..n *)

LEMMA Least ==
  ASSUME NEW A, A \subseteq Nat, A # {}
  PROVE  \E x \in A : \A y \in A : x <= y
<1>1. \E x \in A : \A y \in A : ~(<<y, x>> \in OpToRel(<, Nat))
  BY NatLessThanWellFounded, WFMin, Zenon
<1>2. PICK x \in A : \A y \in A : ~(<<y, x>> \in OpToRel(<, Nat))
  BY <1>1, Zenon
<1>3. \A y \in A : ~(y < x)
  BY <1>2 DEF OpToRel
<1> QED
  BY <1>3

\* What holds at 0 and goes on from each number to the next holds up to n.
LEMMA UpTo ==
  ASSUME NEW n \in Nat, NEW A, 0 \in A, \A k \in A : k \in 0..(n - 1) => k + 1 \in A
  PROVE  0..n \subseteq A
<1> DEFINE Out == 0..n \ A
<1>1. SUFFICES ASSUME Out # {} PROVE FALSE
  BY DEF Out
<1>2. PICK k \in Out : \A j \in Out : k <= j
  BY <1>1, Least, Out \subseteq Nat
<1>3. k - 1 \in 0..(n - 1) /\ k - 1 \in A
  BY <1>2
<1>4. k - 1 + 1 \in A
  BY <1>3
<1> QED
  BY <1>2, <1>4

IsSteps(h, n, p, f, k) ==
  f = [i \in 0..k |-> IF i = 0 THEN n ELSE IF f[i - 1] = None THEN None ELSE h.kids[f[i - 1]][p[i]]]

LEMMA StepsFcn ==
  ASSUME NEW h, NEW n, NEW p, Len(p) \in Nat
  PROVE  IsSteps(h, n, p, Steps(h, n, p), Len(p))
<1> DEFINE Is(f, k) == f = [i \in 0..k |-> IF i = 0 THEN n ELSE IF f[i - 1] = None THEN None
                                           ELSE h.kids[f[i - 1]][p[i]]]
           Done == {k \in 0..Len(p) : \E f : Is(f, k)}
<1>1. 0 \in Done
  <2>1. Is([i \in 0..0 |-> n], 0)
    OBVIOUS
  <2> HIDE DEF Is
  <2> QED
    BY <2>1
<1>2. ASSUME NEW k \in Done, k \in 0..(Len(p) - 1)
      PROVE  k + 1 \in Done
  <2>1. PICK f : Is(f, k)
    OBVIOUS
  <2> DEFINE g == [i \in 0..(k + 1) |-> IF i <= k THEN f[i] ELSE IF f[k] = None THEN None
                                        ELSE h.kids[f[k]][p[k + 1]]]
  <2>2. \A i \in 0..(k + 1) :
          g[i] = IF i = 0 THEN n ELSE IF g[i - 1] = None THEN None ELSE h.kids[g[i - 1]][p[i]]
    <3> TAKE i \in 0..(k + 1)
    <3>1. CASE i = 0
      BY <2>1, <1>2, <3>1
    <3>2. CASE i \in 1..k
      <4>1. g[i] = f[i] /\ g[i - 1] = f[i - 1]
        BY <3>2, <1>2
      <4>2. f[i] = IF f[i - 1] = None THEN None ELSE h.kids[f[i - 1]][p[i]]
        BY <2>1, <3>2
      <4> QED
        BY <4>1, <4>2, <3>2
    <3>3. CASE i = k + 1
      <4>1. g[k] = f[k] /\ i - 1 = k /\ ~(i <= k) /\ i # 0
        BY <3>3, <1>2
      <4> QED
        BY <4>1, <3>3
    <3> QED
      BY <3>1, <3>2, <3>3, <1>2
  <2>3. Is(g, k + 1)
    <3> HIDE DEF g
    <3>1. g = [i \in 0..(k + 1) |-> g[i]]
      BY DEF g
    <3> QED
      BY <3>1, <2>2, Zenon
  <2> HIDE DEF Is
  <2> QED
    BY <2>3, <1>2
<1>3. Len(p) \in Done
  <2> HIDE DEF Done
  <2> QED
    BY <1>1, <1>2, UpTo
<1>4. \E f : Is(f, Len(p))
  BY <1>3
<1>5. Is(Steps(h, n, p), Len(p))
  <2>1. Steps(h, n, p) = CHOOSE f : Is(f, Len(p))
    BY Zenon DEF Steps
  <2> HIDE DEF Is
  <2> QED
    BY <1>4, <2>1, Zenon
<1> QED
  BY <1>5, Zenon DEF IsSteps

-----------------------------------------------------------------------------
(* Has(h, n) is the least set that has n, and the children of all it has *)

Closed(h, C) == \A m \in C, x \in Names : h.kids[m][x] # None => h.kids[m][x] \in C

Grown(h, C) == C \cup Kids(h, C)

IsUpTo(h, n, f, k) == f = [i \in 0..k |-> IF i = 0 THEN {n} ELSE Grown(h, f[i - 1])]

LEMMA HasFcn ==
  ASSUME NEW h, NEW n
  PROVE  \E f : /\ f[0] = {n}
                /\ \A k \in 0..(MaxNode - 1) : f[k + 1] = Grown(h, f[k])
                /\ Has(h, n) = f[MaxNode]
<1> DEFINE Done == {k \in 0..MaxNode : \E f : IsUpTo(h, n, f, k)}
<1>0. MaxNode \in Nat
  BY TreeAssumption
<1>1. 0 \in Done
  <2>1. IsUpTo(h, n, [i \in 0..0 |-> {n}], 0)
    BY DEF IsUpTo
  <2> QED
    BY <2>1, <1>0
<1>2. ASSUME NEW k \in Done, k \in 0..(MaxNode - 1)
      PROVE  k + 1 \in Done
  <2>0. k \in Nat /\ k < MaxNode
    BY <1>0, <1>2
  <2>1. PICK f : IsUpTo(h, n, f, k)
    OBVIOUS
  <2> HIDE DEF Done
  <2> DEFINE g == [i \in 0..(k + 1) |-> IF i <= k THEN f[i] ELSE Grown(h, f[k])]
  <2>2. (\A i \in 0..k : g[i] = f[i]) /\ g[k + 1] = Grown(h, f[k])
    BY <2>0
  <2>a. g = [i \in 0..(k + 1) |-> g[i]]
    OBVIOUS
  <2> HIDE DEF g
  <2>3. ASSUME NEW i \in 0..(k + 1)
        PROVE  g[i] = IF i = 0 THEN {n} ELSE Grown(h, g[i - 1])
    <3>1. CASE i = 0
      BY <2>0, <2>1, <2>2, <3>1 DEF IsUpTo
    <3>2. CASE i \in 1..k
      <4>1. g[i] = f[i] /\ g[i - 1] = f[i - 1] /\ i # 0 /\ i \in 0..k
        BY <3>2, <2>0, <2>2
      <4>2. f[i] = Grown(h, f[i - 1])
        BY <2>1, <4>1 DEF IsUpTo
      <4> QED
        BY <4>1, <4>2, Zenon
    <3>3. CASE i = k + 1
      <4>1. g[k] = f[k] /\ i - 1 = k /\ i # 0
        BY <3>3, <2>0, <2>2
      <4> QED
        BY <4>1, <3>3, <2>2, Zenon
    <3> QED
      BY <3>1, <3>2, <3>3, <2>0
  <2>4. IsUpTo(h, n, g, k + 1)
    BY <2>a, <2>3, Zenon DEF IsUpTo
  <2>5. k + 1 \in 0..MaxNode
    BY <2>0, <1>0
  <2> QED
    BY <2>4, <2>5, Zenon DEF Done
<1>3. MaxNode \in Done
  <2> HIDE DEF Done
  <2> QED
    BY <1>0, <1>1, <1>2, UpTo
<1>4. \E f : IsUpTo(h, n, f, MaxNode)
  BY <1>3
<1>5. Has(h, n) = (CHOOSE f : IsUpTo(h, n, f, MaxNode))[MaxNode]
  BY DEF Has, IsUpTo, Grown
<1>6. IsUpTo(h, n, CHOOSE f : IsUpTo(h, n, f, MaxNode), MaxNode)
  BY <1>4, Zenon
<1>7. PICK f : IsUpTo(h, n, f, MaxNode) /\ Has(h, n) = f[MaxNode]
  BY <1>5, <1>6, Zenon
<1>8. f[0] = {n}
  BY <1>0, <1>7 DEF IsUpTo
<1>9. ASSUME NEW k \in 0..(MaxNode - 1) PROVE f[k + 1] = Grown(h, f[k])
  <2>1. PICK i \in 0..MaxNode : i = k + 1
    BY <1>0
  <2>2. f[i] = IF i = 0 THEN {n} ELSE Grown(h, f[i - 1])
    BY <1>7, Zenon DEF IsUpTo
  <2>3. i # 0 /\ i - 1 = k
    BY <2>1, <1>0
  <2>4. f[i] = Grown(h, f[k])
    BY <2>2, <2>3, Zenon
  <2> QED
    BY <2>1, <2>4, Zenon
<1> QED
  BY <1>7, <1>8, <1>9, Zenon

LEMMA HasLeast ==
  ASSUME NEW h, NEW n, NEW C, n \in C, Closed(h, C)
  PROVE  Has(h, n) \subseteq C
<1>1. PICK f : /\ f[0] = {n}
               /\ \A k \in 0..(MaxNode - 1) : f[k + 1] = Grown(h, f[k])
               /\ Has(h, n) = f[MaxNode]
  BY HasFcn
<1> DEFINE A == {i \in 0..MaxNode : f[i] \subseteq C}
<1>2. MaxNode \in Nat
  BY TreeAssumption
<1>3. 0 \in A
  BY <1>1, <1>2
<1>4. ASSUME NEW k \in A, k \in 0..(MaxNode - 1) PROVE k + 1 \in A
  <2>1. f[k + 1] = Grown(h, f[k])
    BY <1>1, <1>4
  <2>2. f[k] \subseteq C
    BY <1>4
  <2>3. Kids(h, f[k]) \subseteq C
    BY <2>2 DEF Kids, Closed
  <2> QED
    BY <2>1, <2>2, <2>3, <1>4, <1>2 DEF Grown
<1>5. MaxNode \in A
  <2> HIDE DEF A
  <2> QED
    BY <1>2, <1>3, <1>4, UpTo
<1> QED
  BY <1>1, <1>5

LEMMA KidsOfNodes ==
  ASSUME NEW h, Typed(h), NEW C, C \subseteq Nodes
  PROVE  Kids(h, C) \subseteq Nodes
BY DEF Kids, Typed

\* The set grows with each round until it is closed, and there are MaxNode nodes.
LEMMA HasClosed ==
  ASSUME NEW h, Typed(h), NEW n \in Nodes
  PROVE  /\ n \in Has(h, n)
         /\ Has(h, n) \subseteq Nodes
         /\ Closed(h, Has(h, n))
<1>1. PICK f : /\ f[0] = {n}
               /\ \A k \in 0..(MaxNode - 1) : f[k + 1] = Grown(h, f[k])
               /\ Has(h, n) = f[MaxNode]
  BY HasFcn
<1>2. MaxNode \in Nat /\ IsFiniteSet(Nodes) /\ Cardinality(Nodes) = MaxNode
  BY TreeAssumption, FS_Interval DEF Nodes
<1> DEFINE Full(k) == Kids(h, f[k]) \subseteq f[k]
           A == {k \in 0..MaxNode : /\ n \in f[k] /\ f[k] \subseteq Nodes
                                    /\ Full(k) \/ Cardinality(f[k]) > k}
<1>3. 0 \in A
  <2>1. f[0] = {n}
    BY <1>1, <1>2
  <2> QED
    BY <2>1, <1>2, FS_Singleton
<1>4. ASSUME NEW k \in A, k \in 0..(MaxNode - 1) PROVE k + 1 \in A
  <2>1. f[k + 1] = Grown(h, f[k])
    BY <1>1, <1>4
  <2>2. f[k + 1] \subseteq Nodes /\ n \in f[k + 1]
    <3>1. n \in f[k] /\ f[k] \subseteq Nodes
      BY <1>4
    <3> QED
      BY <2>1, <3>1, KidsOfNodes DEF Grown
  <2>3. CASE Full(k)
    <3>1. f[k + 1] = f[k]
      BY <2>1, <2>3 DEF Grown
    <3> QED
      BY <3>1, <2>2, <2>3, <1>4, <1>2
  <2>4. CASE ~Full(k)
    <3>1. IsFiniteSet(f[k + 1]) /\ Cardinality(f[k + 1]) \in Nat
      BY <2>2, <1>2, FS_Subset, FS_CardinalityType
    <3>2. f[k] \subseteq f[k + 1] /\ f[k] # f[k + 1]
      BY <2>1, <2>4 DEF Grown
    <3>3. /\ Cardinality(f[k]) <= Cardinality(f[k + 1])
          /\ Cardinality(f[k]) # Cardinality(f[k + 1])
      BY <3>1, <3>2, FS_Subset
    <3>4. Cardinality(f[k]) \in Nat
      BY <3>1, <3>2, FS_Subset, FS_CardinalityType
    <3>5. Cardinality(f[k + 1]) > k + 1
      BY <3>1, <3>3, <3>4, <2>4, <1>4, <1>2
    <3> QED
      BY <3>5, <2>2, <1>4, <1>2
  <2> QED
    BY <2>3, <2>4
<1>5. MaxNode \in A
  <2> HIDE DEF A
  <2> QED
    BY <1>2, <1>3, <1>4, UpTo
<1>6. Cardinality(f[MaxNode]) <= MaxNode /\ Cardinality(f[MaxNode]) \in Nat
  BY <1>5, <1>2, FS_Subset, FS_CardinalityType
<1>7. Full(MaxNode)
  BY <1>5, <1>6, <1>2
<1>8. Closed(h, f[MaxNode])
  BY <1>7 DEF Kids, Closed
<1> QED
  BY <1>1, <1>5, <1>8

LEMMA HasTransitive ==
  ASSUME NEW h, Typed(h), NEW n \in Nodes, NEW m \in Has(h, n)
  PROVE  Has(h, m) \subseteq Has(h, n)
BY HasClosed, HasLeast

LEMMA HasChild ==
  ASSUME NEW h, Typed(h), NEW n \in Nodes, NEW m \in Has(h, n), NEW x \in Names,
         h.kids[m][x] # None
  PROVE  h.kids[m][x] \in Has(h, n) /\ h.kids[m][x] \in Nodes
BY HasClosed DEF Closed

\* A node is had through a parent.
LEMMA HasParent ==
  ASSUME NEW h, Typed(h), NEW n \in Nodes, NEW k \in Has(h, n), k # n
  PROVE  \E b \in Has(h, n), x \in Names : h.kids[b][x] = k
<1>1. SUFFICES ASSUME \A b \in Has(h, n), x \in Names : h.kids[b][x] # k
               PROVE FALSE
  OBVIOUS
<1>2. Closed(h, Has(h, n) \ {k})
  BY <1>1, HasClosed DEF Closed
<1> QED
  BY <1>2, HasLeast, HasClosed

LEMMA NoParentHas ==
  ASSUME NEW h, Typed(h), NEW n \in Nodes, NEW c, NoParent(h, c), n # c
  PROVE  c \notin Has(h, n)
BY HasParent, HasClosed DEF NoParent

\* Where nothing is added, nothing more is had.
LEMMA HasFewer ==
  ASSUME NEW h, Typed(h), NEW g, Typed(g), NEW n \in Nodes,
         \A a \in Has(h, n), x \in Names :
            g.kids[a][x] # None => g.kids[a][x] = h.kids[a][x]
  PROVE  Has(g, n) \subseteq Has(h, n)
<1>1. Closed(g, Has(h, n))
  BY HasClosed DEF Closed
<1> QED
  BY <1>1, HasClosed, HasLeast

\* A change elsewhere makes no difference.
LEMMA HasAway ==
  ASSUME NEW h, Typed(h), NEW g, Typed(g), NEW n \in Nodes,
         \A a \in Has(h, n) : g.kids[a] = h.kids[a]
  PROVE  Has(g, n) = Has(h, n)
<1>1. Has(g, n) \subseteq Has(h, n)
  BY HasFewer
<1>2. Has(h, n) \subseteq Has(g, n)
  BY <1>1, HasFewer
<1> QED
  BY <1>1, <1>2

\* Two trees, neither of which is in the other, have no node in common.
LEMMA Disjoint ==
  ASSUME NEW h, Typed(h), NEW n \in Nodes, NEW c \in Nodes, NoParent(h, c), n \notin Has(h, c),
         OneParent(h, Has(h, n) \cup Has(h, c))
  PROVE  Has(h, n) \cap Has(h, c) = {}
<1> DEFINE apart == Has(h, n) \ Has(h, c)
<1>1. ASSUME NEW a \in apart, NEW x \in Names, h.kids[a][x] # None
      PROVE  h.kids[a][x] \in apart
  <2>1. h.kids[a][x] \in Has(h, n)
    BY <1>1, HasChild
  <2>2. ASSUME h.kids[a][x] \in Has(h, c) PROVE FALSE
    <3>1. h.kids[a][x] # c
      BY HasClosed DEF NoParent
    <3>2. PICK b \in Has(h, c), y \in Names : h.kids[b][y] = h.kids[a][x]
      BY <2>2, <3>1, HasParent
    <3>3. a = b
      BY <1>1, <3>2 DEF OneParent
    <3> QED
      BY <3>3
  <2> QED
    BY <2>1, <2>2
<1>2. Closed(h, apart)
  BY <1>1 DEF Closed
<1>3. n \in apart
  BY HasClosed
<1>4. Has(h, n) \subseteq apart
  <2> HIDE DEF apart
  <2> QED
    BY <1>2, <1>3, HasLeast
<1> QED
  BY <1>4

-----------------------------------------------------------------------------
(* One change to the heap *)

\* g is h with the child x of m replaced by c.
IsLink(g, h, m, x, c) ==
  /\ Typed(g)
  /\ g.node = h.node
  /\ \A a \in Nodes, y \in Names :
       g.kids[a][y] = IF a = m /\ y = x THEN c ELSE h.kids[a][y]

LEMMA LinkIs ==
  ASSUME NEW h, Typed(h), NEW m \in Nodes, NEW x \in Names, NEW c \in Nodes \cup {None}
  PROVE  IsLink(Link(h, m, x, c), h, m, x, c)
<1> DEFINE g == Link(h, m, x, c)
<1>1. g.node = h.node /\ g.kids = [h.kids EXCEPT ![m][x] = c]
  BY DEF Link
<1>2. /\ h.kids \in [Nodes -> [Names -> Nodes \cup {None}]]
      /\ h.node \in [Nodes -> Files \cup {Dir, Free}]
  BY DEF Typed
<1> HIDE DEF g
<1>3. Typed(g)
  BY <1>1, <1>2 DEF Typed
<1>4. ASSUME NEW a \in Nodes, NEW y \in Names
      PROVE  g.kids[a][y] = IF a = m /\ y = x THEN c ELSE h.kids[a][y]
  BY <1>1, <1>2
<1> QED
  BY <1>1, <1>3, <1>4 DEF IsLink, g

LEMMA LinkHas ==
  ASSUME NEW h, Typed(h), NEW m \in Nodes, NEW x \in Names, NEW c \in Nodes \cup {None},
         NEW g, IsLink(g, h, m, x, c), NEW n \in Nodes
  PROVE  /\ m \notin Has(h, n) => Has(g, n) = Has(h, n)
         /\ c = None => Has(g, n) \subseteq Has(h, n)
         /\ c # None => Has(g, n) \subseteq Has(h, n) \cup Has(h, c)
<1>1. ASSUME m \notin Has(h, n) PROVE Has(g, n) = Has(h, n)
  <2>1. ASSUME NEW a \in Has(h, n) PROVE g.kids[a] = h.kids[a]
    <3>1. a \in Nodes /\ a # m
      BY <1>1, HasClosed
    <3>2. \A y \in Names : g.kids[a][y] = h.kids[a][y]
      BY <3>1 DEF IsLink
    <3> QED
      BY <3>1, <3>2 DEF IsLink, Typed
  <2> QED
    BY <2>1, HasAway DEF IsLink
<1>2. ASSUME c = None PROVE Has(g, n) \subseteq Has(h, n)
  <2>1. \A a \in Has(h, n), y \in Names : g.kids[a][y] # None => g.kids[a][y] = h.kids[a][y]
    BY <1>2, HasClosed DEF IsLink
  <2> QED
    BY <2>1, HasFewer DEF IsLink
<1>3. ASSUME c # None PROVE Has(g, n) \subseteq Has(h, n) \cup Has(h, c)
  <2> DEFINE all == Has(h, n) \cup Has(h, c)
  <2>1. c \in Nodes
    BY <1>3
  <2>2. ASSUME NEW a \in all, NEW y \in Names, g.kids[a][y] # None
        PROVE  g.kids[a][y] \in all
    <3>1. a \in Nodes /\ c \in Has(h, c)
      BY <2>1, HasClosed
    <3>2. g.kids[a][y] = c \/ g.kids[a][y] = h.kids[a][y]
      BY <3>1 DEF IsLink
    <3>3. h.kids[a][y] # None => h.kids[a][y] \in all
      BY <2>1, HasChild
    <3> QED
      BY <2>2, <3>1, <3>2, <3>3
  <2>3. Closed(g, all) /\ n \in all
    BY <2>2, HasClosed DEF Closed
  <2> QED
    BY <2>3, HasLeast, Zenon
<1> QED
  BY <1>1, <1>2, <1>3

\* A child that m is not below makes no cycle.
LEMMA LinkNoCycle ==
  ASSUME NEW h, Typed(h), NoCycle(h), NEW m \in Nodes, NEW x \in Names,
         NEW c \in Nodes \cup {None}, c # None => m \notin Has(h, c),
         NEW g, IsLink(g, h, m, x, c)
  PROVE  NoCycle(g)
<1> SUFFICES ASSUME NEW n \in Nodes, NEW y \in Names, g.kids[n][y] # None,
                    n \in Has(g, g.kids[n][y])
             PROVE  FALSE
  BY DEF NoCycle
<1> DEFINE k == g.kids[n][y]
<1>1. k \in Nodes
  BY DEF IsLink, Typed
<1>2. k = h.kids[n][y] \/ (n = m /\ k = c)
  BY DEF IsLink
<1>3. k = h.kids[n][y] => n \notin Has(h, k)
  BY DEF NoCycle
<1> HIDE DEF k
<1>4. n \in Has(g, k)
  BY DEF k
<1>5. CASE m \notin Has(h, k)
  <2>1. n \in Has(h, k)
    BY <1>1, <1>4, <1>5, LinkHas
  <2> QED
    BY <1>2, <1>3, <1>5, <2>1
<1>6. CASE m \in Has(h, k)
  <2>1. c # k
    BY <1>1, <1>6, TreeAssumption
  <2>2. k = h.kids[n][y] /\ n \notin Has(h, k)
    BY <1>2, <1>3, <2>1
  <2>3. c # None /\ n \in Has(h, c)
    BY <1>1, <1>4, <2>2, LinkHas
  <2>4. c \in Nodes
    BY <2>3
  <2>5. k \in Has(h, c)
    BY <2>2, <2>3, <2>4, <1>1, HasChild, TreeAssumption
  <2>6. m \in Has(h, c)
    BY <2>4, <2>5, <1>6, HasTransitive
  <2> QED
    BY <2>3, <2>6
<1> QED
  BY <1>5, <1>6

LEMMA LinkLinked ==
  ASSUME NEW h, Linked(h), NEW m \in Nodes, IsDir(h, m), NEW x \in Names,
         NEW c \in InUse(h) \cup {None}, c # None => m \notin Has(h, c),
         NEW g, IsLink(g, h, m, x, c)
  PROVE  Linked(g) /\ InUse(g) = InUse(h)
<1>1. InUse(g) = InUse(h) /\ InUse(h) \subseteq Nodes
  BY DEF InUse, FreeNodes, IsLink
<1>2. NoCycle(g)
  BY <1>1, LinkNoCycle DEF Linked
<1>3. NoDangling(g)
  BY <1>1 DEF Linked, NoDangling, IsLink
<1>4. OnlyDirs(g)
  <2> SUFFICES ASSUME NEW n \in Nodes, ~IsDir(g, n) PROVE g.kids[n] = NoKids
    BY DEF OnlyDirs
  <2>1. n # m /\ h.kids[n] = NoKids
    BY DEF IsLink, IsDir, Linked, OnlyDirs
  <2>2. \A y \in Names : g.kids[n][y] = None
    BY <2>1 DEF IsLink, NoKids
  <2> QED
    BY <2>2 DEF IsLink, Typed, NoKids
<1> QED
  BY <1>1, <1>2, <1>3, <1>4 DEF Linked, IsLink

\* Who has no parent still has none, but for the node that is set.
LEMMA LinkParents ==
  ASSUME NEW h, NEW m \in Nodes, NEW x \in Names, NEW c, NEW g, IsLink(g, h, m, x, c)
  PROVE  /\ \A k : k # c /\ NoParent(h, k) => NoParent(g, k)
         /\ OneParent(h, Nodes) /\ (c # None => NoParent(h, c)) => OneParent(g, Nodes)
<1>1. ASSUME NEW k, k # c, NoParent(h, k) PROVE NoParent(g, k)
  BY <1>1 DEF NoParent, IsLink
<1>2. ASSUME OneParent(h, Nodes), c # None => NoParent(h, c)
      PROVE  OneParent(g, Nodes)
  BY <1>2 DEF OneParent, NoParent, IsLink
<1> QED
  BY <1>1, <1>2

\* A node that was free has no children and is nobody's child.
LEMMA FreeAlone ==
  ASSUME NEW h, Linked(h), NEW k \in FreeNodes(h)
  PROVE  k \in Nodes /\ h.kids[k] = NoKids /\ NoParent(h, k)
<1>1. k \in Nodes /\ h.kids[k] = NoKids
  BY TreeAssumption DEF FreeNodes, Linked, OnlyDirs, IsDir
<1>2. NoParent(h, k)
  BY <1>1, TreeAssumption DEF NoParent, Linked, NoDangling, InUse
<1> QED
  BY <1>1, <1>2

\* A new node, which nobody has yet.
IsNew(g, h, k, v) ==
  /\ g.node = [h.node EXCEPT ![k] = v]
  /\ g.kids = h.kids

LEMMA NewLinked ==
  ASSUME NEW h, Linked(h), NEW k \in FreeNodes(h), NEW v \in Files \cup {Dir},
         NEW g, IsNew(g, h, k, v)
  PROVE  /\ Linked(g) /\ InUse(g) = InUse(h) \cup {k}
         /\ \A n \in Nodes : Has(g, n) = Has(h, n)
         /\ \A n : NoParent(h, n) => NoParent(g, n)
         /\ OneParent(h, Nodes) => OneParent(g, Nodes)
<1>1. k \in Nodes /\ h.kids[k] = NoKids /\ NoParent(h, k)
  BY FreeAlone
<1>2. Typed(g)
  BY <1>1 DEF Typed, Linked, IsNew
<1>3. ASSUME NEW n \in Nodes PROVE Has(g, n) = Has(h, n)
  BY <1>2, HasAway DEF IsNew, Linked
<1>4. InUse(g) = InUse(h) \cup {k}
  BY <1>1, TreeAssumption DEF InUse, FreeNodes, IsNew, Linked, Typed
<1>5. OnlyDirs(g)
  BY <1>1 DEF OnlyDirs, IsDir, Linked, IsNew, Typed
<1>6. NoDangling(g)
  BY <1>4 DEF NoDangling, Linked, IsNew
<1>7. NoCycle(g)
  <2>1. ASSUME NEW n \in Nodes, NEW x \in Names, g.kids[n][x] # None
        PROVE  n \notin Has(g, g.kids[n][x])
    <3>1. g.kids[n][x] \in Nodes
      BY <2>1, <1>2 DEF Typed
    <3> QED
      BY <2>1, <3>1, <1>3 DEF IsNew, Linked, NoCycle
  <2> QED
    BY <2>1 DEF NoCycle
<1>8. ASSUME NEW n, NoParent(h, n) PROVE NoParent(g, n)
  BY <1>8 DEF NoParent, IsNew
<1>9. OneParent(h, Nodes) => OneParent(g, Nodes)
  BY DEF OneParent, IsNew
<1> QED
  BY <1>2, <1>3, <1>4, <1>5, <1>6, <1>7, <1>8, <1>9 DEF Linked

-----------------------------------------------------------------------------
(* Room for new nodes *)

FreeCount(h) == Cardinality(FreeNodes(h))

LEMMA FreeFinite ==
  ASSUME NEW h
  PROVE  FreeNodes(h) \subseteq Nodes /\ IsFiniteSet(FreeNodes(h)) /\ FreeCount(h) \in Nat
<1>1. IsFiniteSet(Nodes) /\ FreeNodes(h) \subseteq Nodes
  BY TreeAssumption, FS_Interval DEF Nodes, FreeNodes
<1> QED
  BY <1>1, FS_Subset, FS_CardinalityType DEF FreeCount

LEMMA NewNodeFree ==
  ASSUME NEW h, FreeCount(h) > 0
  PROVE  NewNode(h) \in FreeNodes(h)
<1>1. FreeNodes(h) # {} /\ FreeNodes(h) \subseteq Nat
  BY FreeFinite, FS_EmptySet DEF FreeCount, Nodes
<1>2. \E n \in FreeNodes(h) : \A m \in FreeNodes(h) : n <= m
  BY <1>1, Least
<1> QED
  BY <1>2, Zenon DEF NewNode

LEMMA NewIsNew ==
  ASSUME NEW h, Linked(h), FreeCount(h) > 0, NEW v \in Files \cup {Dir}
  PROVE  /\ NewNode(h) \in FreeNodes(h)
         /\ IsNew(New(h, v), h, NewNode(h), v)
         /\ FreeCount(New(h, v)) = FreeCount(h) - 1
<1> DEFINE k == NewNode(h)
           g == New(h, v)
<1>1. k \in FreeNodes(h)
  BY NewNodeFree
<1>2. k \in Nodes /\ h.kids[k] = NoKids
  BY <1>1, FreeAlone
<1>3. g.node = [h.node EXCEPT ![k] = v] /\ g.kids = [h.kids EXCEPT ![k] = NoKids]
  BY DEF New, Put
<1>4. h.kids \in [Nodes -> [Names -> Nodes \cup {None}]] /\ h.node \in [Nodes -> Files \cup {Dir, Free}]
  BY DEF Linked, Typed
<1> HIDE DEF k, g
<1>5. g.kids = h.kids
  BY <1>2, <1>3, <1>4
<1>6. FreeNodes(g) = FreeNodes(h) \ {k}
  BY <1>2, <1>3, <1>4, TreeAssumption DEF FreeNodes
<1>7. FreeCount(g) = FreeCount(h) - 1
  BY <1>1, <1>6, FreeFinite, FS_RemoveElement DEF FreeCount
<1> QED
  BY <1>1, <1>3, <1>5, <1>7 DEF IsNew, k, g

-----------------------------------------------------------------------------
(* MkdirAll *)

LEMMA MkdirAllFcn ==
  ASSUME NEW h, NEW n, NEW p, Len(p) \in Nat
  PROVE  \E at : /\ at[0] = [h |-> h, n |-> n, ok |-> p # <<>> \/ IsDir(h, n)]
                 /\ \A k \in 0..(Len(p) - 1) : at[k + 1] = MkdirStep(at[k], p[k + 1])
                 /\ MkdirAll(h, n, p) = at[Len(p)]
<1> DEFINE first == [h |-> h, n |-> n, ok |-> p # <<>> \/ IsDir(h, n)]
           Is(f, k) == f = [i \in 0..k |-> IF i = 0 THEN first ELSE MkdirStep(f[i - 1], p[i])]
           Done == {k \in 0..Len(p) : \E f : Is(f, k)}
<1>1. 0 \in Done
  <2>1. Is([i \in 0..0 |-> first], 0)
    <3> HIDE DEF first
    <3> QED
      OBVIOUS
  <2> HIDE DEF Is
  <2> QED
    BY <2>1
<1>2. ASSUME NEW k \in Done, k \in 0..(Len(p) - 1)
      PROVE  k + 1 \in Done
  <2>0. k \in Nat /\ k < Len(p)
    BY <1>2
  <2>1. PICK f : Is(f, k)
    BY Zenon
  <2> HIDE DEF Done, first
  <2> DEFINE g == [i \in 0..(k + 1) |-> IF i <= k THEN f[i] ELSE MkdirStep(f[k], p[k + 1])]
  <2>2. (\A i \in 0..k : g[i] = f[i]) /\ g[k + 1] = MkdirStep(f[k], p[k + 1])
    BY <2>0
  <2>3. g = [i \in 0..(k + 1) |-> g[i]]
    OBVIOUS
  <2> HIDE DEF g
  <2>4. ASSUME NEW i \in 0..(k + 1)
        PROVE  g[i] = IF i = 0 THEN first ELSE MkdirStep(g[i - 1], p[i])
    <3>1. CASE i = 0
      BY <2>0, <2>1, <2>2, <3>1
    <3>2. CASE i \in 1..k
      <4>1. g[i] = f[i] /\ g[i - 1] = f[i - 1] /\ i # 0 /\ i \in 0..k
        BY <3>2, <2>0, <2>2
      <4>2. f[i] = MkdirStep(f[i - 1], p[i])
        BY <2>1, <4>1, Zenon
      <4> QED
        BY <4>1, <4>2, Zenon
    <3>3. CASE i = k + 1
      <4>1. g[k] = f[k] /\ i - 1 = k /\ i # 0
        BY <3>3, <2>0, <2>2
      <4> QED
        BY <4>1, <3>3, <2>2, Zenon
    <3> QED
      BY <3>1, <3>2, <3>3, <2>0
  <2>5. Is(g, k + 1)
    BY <2>3, <2>4, Zenon
  <2>6. k + 1 \in 0..Len(p)
    BY <2>0
  <2> QED
    BY <2>5, <2>6, Zenon DEF Done
<1>3. Len(p) \in Done
  <2> HIDE DEF Done
  <2> QED
    BY <1>1, <1>2, UpTo
<1>4. \E f : Is(f, Len(p))
  BY <1>3, Zenon
<1>5. MkdirAll(h, n, p) = (CHOOSE f : Is(f, Len(p)))[Len(p)]
  BY DEF MkdirAll
<1>6. PICK f : Is(f, Len(p)) /\ MkdirAll(h, n, p) = f[Len(p)]
  BY <1>4, <1>5, Zenon
<1> HIDE DEF first
<1>7. f[0] = first
  BY <1>6
<1>8. ASSUME NEW k \in 0..(Len(p) - 1) PROVE f[k + 1] = MkdirStep(f[k], p[k + 1])
  <2>1. PICK i \in 0..Len(p) : i = k + 1
    OBVIOUS
  <2>2. f[i] = IF i = 0 THEN first ELSE MkdirStep(f[i - 1], p[i])
    BY <1>6, Zenon
  <2>3. i # 0 /\ i - 1 = k
    BY <2>1
  <2>4. f[i] = MkdirStep(f[k], p[i])
    BY <2>2, <2>3, Zenon
  <2> QED
    BY <2>1, <2>4, Zenon
<1> QED
  BY <1>6, <1>7, <1>8, Zenon DEF first

\* What the making of directories below n keeps: g is h with some more of them.
Grows(g, h, n) ==
  /\ Linked(g) /\ OneParent(g, Nodes)
  /\ InUse(h) \subseteq InUse(g)
  /\ \A k \in InUse(h) : NoParent(h, k) => NoParent(g, k)
  /\ \A c \in InUse(h) : NoParent(h, c) /\ n \notin Has(h, c) => n \notin Has(g, c)

MkdirInv(st, h, n, i) ==
  /\ st = [h |-> st.h, n |-> st.n, ok |-> st.ok]
  /\ Grows(st.h, h, n)
  /\ st.n \in InUse(st.h) /\ st.n \in Has(st.h, n)
  /\ FreeCount(st.h) + i >= FreeCount(h)
  /\ st.h # h => st.ok /\ IsDir(st.h, st.n) /\ st.h.kids[st.n] = NoKids

LEMMA MkdirStepNew ==
  ASSUME NEW st, st = [h |-> st.h, n |-> st.n, ok |-> st.ok], st.ok,
         Linked(st.h), st.n \in InUse(st.h), IsDir(st.h, st.n), FreeCount(st.h) > 0,
         NEW x \in Names, st.h.kids[st.n][x] = None
  PROVE  /\ MkdirStep(st, x) = [h |-> MkdirStep(st, x).h, n |-> NewNode(st.h), ok |-> st.ok]
         /\ NewNode(st.h) \in FreeNodes(st.h)
         /\ IsNew(New(st.h, Dir), st.h, NewNode(st.h), Dir)
         /\ IsLink(MkdirStep(st, x).h, New(st.h, Dir), st.n, x, NewNode(st.h))
         /\ FreeCount(MkdirStep(st, x).h) = FreeCount(st.h) - 1
<1> DEFINE h == st.h
           n == st.n
           k == NewNode(h)
           g0 == New(h, Dir)
           g == Link(g0, n, x, k)
<1>1. k \in FreeNodes(h) /\ IsNew(g0, h, k, Dir) /\ FreeCount(g0) = FreeCount(h) - 1
  BY NewIsNew
<1>2. k \in Nodes /\ Linked(g0)
  BY <1>1, FreeAlone, NewLinked
<1>3. MkdirStep(st, x) = [st EXCEPT !.h = g, !.n = k]
  BY Zenon DEF MkdirStep
<1>5. n \in Nodes
  BY DEF InUse
<1> HIDE DEF g, g0, k
<1>6. MkdirStep(st, x) = [h |-> g, n |-> k, ok |-> st.ok]
  BY <1>3
<1> HIDE DEF h, n
<1>8. IsLink(g, g0, n, x, k)
  BY <1>2, <1>5, LinkIs DEF Linked, g
<1>9. FreeCount(g) = FreeCount(g0)
  BY <1>8 DEF IsLink, FreeCount, FreeNodes
<1>10. MkdirStep(st, x).h = g
  BY <1>6
<1> QED
  BY <1>1, <1>6, <1>8, <1>9, <1>10, Zenon DEF g0, k, h, n

LEMMA MkdirStepInv ==
  ASSUME NEW h, Linked(h), NEW n \in InUse(h), NEW i \in Nat, FreeCount(h) > i,
         NEW st, MkdirInv(st, h, n, i), NEW x \in Names
  PROVE  MkdirInv(MkdirStep(st, x), h, n, i + 1)
<1> DEFINE r == MkdirStep(st, x)
           f == st.h
           m == st.n
<1>1. /\ st = [h |-> f, n |-> m, ok |-> st.ok]
      /\ Grows(f, h, n) /\ m \in InUse(f) /\ m \in Has(f, n)
      /\ FreeCount(f) + i >= FreeCount(h)
      /\ f # h => st.ok /\ IsDir(f, m) /\ f.kids[m] = NoKids
  BY DEF MkdirInv
<1>2. FreeCount(f) > 0 /\ FreeCount(f) \in Nat /\ FreeCount(h) \in Nat
  BY <1>1, FreeFinite
<1>3. Typed(f) /\ Linked(f) /\ m \in Nodes /\ n \in Nodes
  BY <1>1 DEF Grows, Linked, InUse
<1>4. CASE ~st.ok \/ ~IsDir(f, m)
  <2>1. r = [st EXCEPT !.ok = FALSE]
    BY <1>4, Zenon DEF MkdirStep
  <2>2. r.h = f /\ r.n = m /\ r.ok = FALSE /\ r = [h |-> f, n |-> m, ok |-> FALSE]
    BY <1>1, <2>1
  <2>3. f = h
    BY <1>1, <1>4
  <2> HIDE DEF r
  <2>4. MkdirInv(r, h, n, i + 1)
    BY <1>1, <1>2, <2>2, <2>3 DEF MkdirInv
  <2> QED
    BY <2>4 DEF r
<1>5. CASE st.ok /\ IsDir(f, m) /\ f.kids[m][x] # None
  <2>1. r = [st EXCEPT !.n = f.kids[m][x]]
    BY <1>5, Zenon DEF MkdirStep
  <2>2. r.h = f /\ r.n = f.kids[m][x] /\ r.ok = st.ok /\ r = [h |-> r.h, n |-> r.n, ok |-> r.ok]
    BY <1>1, <2>1
  <2>3. r.n \in InUse(f) /\ f = h
    BY <1>1, <1>3, <1>5, <2>2 DEF Linked, NoDangling, NoKids
  <2>4. r.n \in Has(f, n)
    BY <1>1, <1>3, <1>5, <2>2, HasChild
  <2> QED
    BY <1>1, <1>2, <2>2, <2>3, <2>4 DEF MkdirInv
<1>6. CASE st.ok /\ IsDir(f, m) /\ f.kids[m][x] = None
  <2> DEFINE k == NewNode(f)
             g0 == New(f, Dir)
             g == r.h
  <2>2. /\ r = [h |-> g, n |-> k, ok |-> st.ok]
        /\ k \in FreeNodes(f) /\ IsNew(g0, f, k, Dir) /\ IsLink(g, g0, m, x, k)
        /\ FreeCount(g) = FreeCount(f) - 1
    BY <1>1, <1>2, <1>3, <1>6, MkdirStepNew
  <2> HIDE DEF g0, k
  <2>3. k \in Nodes /\ f.kids[k] = NoKids /\ NoParent(f, k) /\ k \notin InUse(f)
    BY <1>3, <2>2, FreeAlone DEF InUse
  <2>4. /\ Linked(g0) /\ InUse(g0) = InUse(f) \cup {k} /\ OneParent(g0, Nodes)
        /\ \A a \in Nodes : Has(g0, a) = Has(f, a)
        /\ \A a : NoParent(f, a) => NoParent(g0, a)
    BY <1>1, <1>3, <2>2, NewLinked DEF Grows
  <2>5. m \notin Has(g0, k)
    <3>1. Closed(f, {k})
      BY <2>3 DEF Closed, NoKids
    <3>2. Has(f, k) \subseteq {k}
      BY <3>1, HasLeast
    <3> QED
      BY <1>1, <2>3, <2>4, <3>2
  <2>6. Linked(g) /\ InUse(g) = InUse(g0)
    <3>1. IsDir(g0, m)
      BY <1>1, <1>3, <1>6, <2>2, <2>3 DEF IsDir, IsNew, Linked, Typed
    <3> QED
      BY <1>3, <2>2, <2>4, <2>5, <3>1, LinkLinked
  <2>7. OneParent(g, Nodes) /\ \A a : a # k /\ NoParent(f, a) => NoParent(g, a)
    BY <1>3, <2>2, <2>3, <2>4, LinkParents
  <2>8. ASSUME NEW c \in InUse(h), NoParent(h, c), n \notin Has(h, c)
        PROVE  n \notin Has(g, c)
    <3>1. c \in Nodes /\ NoParent(f, c) /\ n \notin Has(f, c)
      BY <1>1, <2>8 DEF Grows, InUse
    <3>2. OneParent(f, Has(f, n) \cup Has(f, c))
      BY <1>1, <1>3, <3>1, HasClosed DEF Grows, OneParent
    <3>3. m \notin Has(g0, c)
      BY <1>1, <1>3, <2>4, <3>1, <3>2, Disjoint
    <3>4. Has(g, c) = Has(g0, c)
      BY <1>3, <2>2, <2>3, <2>4, <3>1, <3>3, LinkHas DEF Linked
    <3> QED
      BY <2>4, <3>1, <3>4
  <2>9. k \in Has(g, n)
    <3>1. Typed(g0) /\ Typed(g)
      BY <2>4, <2>6 DEF Linked
    <3>2. \A a \in Has(g, n), y \in Names : g0.kids[a][y] # None => g0.kids[a][y] = g.kids[a][y]
      BY <1>3, <1>6, <2>2, <3>1, HasClosed DEF IsLink, IsNew
    <3>3. m \in Has(g, n)
      BY <1>1, <1>3, <2>4, <3>1, <3>2, HasFewer
    <3>4. g.kids[m][x] = k /\ k # None
      BY <1>3, <2>2, <2>3, TreeAssumption DEF IsLink
    <3> QED
      BY <1>3, <3>1, <3>3, <3>4, HasChild
  <2>10. Grows(g, h, n)
    BY <1>1, <2>3, <2>4, <2>6, <2>7, <2>8 DEF Grows
  <2>11. r.n = k /\ r.ok = st.ok /\ r = [h |-> r.h, n |-> r.n, ok |-> r.ok]
    BY <2>2
  <2>12. FreeCount(g) + (i + 1) >= FreeCount(h)
    BY <1>1, <1>2, <2>2
  <2>13. k \in InUse(g)
    BY <2>4, <2>6
  <2> HIDE DEF r
  <2>14. r.n \in InUse(r.h) /\ r.n \in Has(r.h, n)
    BY <2>9, <2>11, <2>13
  <2>15. IsDir(g, k) /\ g.kids[k] = NoKids
    <3>1. IsDir(g0, k) /\ g0.kids[k] = NoKids /\ k # m
      BY <1>1, <1>3, <2>2, <2>3 DEF IsDir, IsNew, Linked, Typed
    <3>2. \A y \in Names : g.kids[k][y] = None
      BY <2>2, <2>3, <3>1 DEF IsLink, NoKids
    <3> QED
      BY <2>2, <2>3, <3>1, <3>2 DEF IsLink, Typed, NoKids, IsDir
  <2>16. MkdirInv(r, h, n, i + 1)
    BY <1>6, <2>10, <2>11, <2>12, <2>14, <2>15, Zenon DEF MkdirInv
  <2> QED
    BY <2>16 DEF r
<1> QED
  BY <1>4, <1>5, <1>6

LEMMA PathLen ==
  ASSUME NEW p \in Paths
  PROVE  Len(p) \in Nat /\ Len(p) <= Depth /\ p \in [1..Len(p) -> Names] /\ (p = <<>> <=> Len(p) = 0)
<1>1. PICK m \in 0..Depth : p \in [1..m -> Names]
  BY DEF Paths
<1>2. m \in Nat /\ Depth \in Nat
  BY TreeAssumption
<1>3. p \in Seq(Names)
  BY <1>1, <1>2
<1>4. Len(p) = m
  BY <1>1, <1>2, <1>3
<1> QED
  BY <1>1, <1>2, <1>3, <1>4

LEMMA MkdirAllInv ==
  ASSUME NEW h, Linked(h), OneParent(h, Nodes), NEW n \in InUse(h),
         NEW p, Len(p) \in Nat, p \in [1..Len(p) -> Names], FreeCount(h) >= Len(p)
  PROVE  MkdirInv(MkdirAll(h, n, p), h, n, Len(p))
<1>1. PICK at : /\ at[0] = [h |-> h, n |-> n, ok |-> p # <<>> \/ IsDir(h, n)]
                /\ \A k \in 0..(Len(p) - 1) : at[k + 1] = MkdirStep(at[k], p[k + 1])
                /\ MkdirAll(h, n, p) = at[Len(p)]
  BY MkdirAllFcn
<1>2. FreeCount(h) \in Nat
  BY FreeFinite
<1> DEFINE A == {k \in 0..Len(p) : MkdirInv(at[k], h, n, k)}
<1>3. 0 \in A
  <2>1. at[0].h = h /\ at[0].n = n /\ at[0] = [h |-> at[0].h, n |-> at[0].n, ok |-> at[0].ok]
    BY <1>1
  <2>2. Grows(h, h, n) /\ n \in Has(h, n)
    BY HasClosed DEF Grows, Linked, InUse
  <2> QED
    BY <1>2, <2>1, <2>2 DEF MkdirInv
<1>4. ASSUME NEW k \in A, k \in 0..(Len(p) - 1) PROVE k + 1 \in A
  <2>1. MkdirInv(at[k], h, n, k)
    BY <1>4
  <2>2. p[k + 1] \in Names /\ k \in Nat /\ FreeCount(h) > k /\ k + 1 \in 0..Len(p)
    BY <1>2, <1>4
  <2>3. MkdirInv(MkdirStep(at[k], p[k + 1]), h, n, k + 1)
    BY <2>1, <2>2, MkdirStepInv
  <2>4. at[k + 1] = MkdirStep(at[k], p[k + 1])
    BY <1>1, <1>4
  <2> QED
    BY <2>2, <2>3, <2>4
<1>5. Len(p) \in A
  <2> HIDE DEF A
  <2> QED
    BY <1>3, <1>4, UpTo
<1> QED
  BY <1>1, <1>5

-----------------------------------------------------------------------------
(* Set *)

LEMMA LenIs ==
  ASSUME NEW T, NEW n \in Nat, NEW q \in [1..n -> T]
  PROVE  Len(q) = n /\ q \in Seq(T)
OBVIOUS

LEMMA FrontIs ==
  ASSUME NEW p \in Paths, p # <<>>
  PROVE  /\ Len(p) \in Nat \ {0}
         /\ Len(S!Front(p)) = Len(p) - 1
         /\ S!Front(p) \in [1..(Len(p) - 1) -> Names]
         /\ \A i \in 1..(Len(p) - 1) : S!Front(p)[i] = p[i]
         /\ S!Last(p) = p[Len(p)] /\ S!Last(p) \in Names
<1>1. Len(p) \in Nat \ {0} /\ p \in [1..Len(p) -> Names] /\ p \in Seq(Names)
  BY PathLen
<1>2. S!Front(p) = SubSeq(p, 1, Len(p) - 1) /\ S!Last(p) = p[Len(p)]
  BY DEF S!Front, S!Last
<1> DEFINE f == SubSeq(p, 1, Len(p) - 1)
           m == Len(p)
           k == Len(f)
<1>3. /\ f \in Seq(Names)
      /\ k = IF 1 <= m - 1 THEN m - 1 - 1 + 1 ELSE 0
      /\ \A i \in 1..(m - 1 - 1 + 1) : f[i] = p[1 + i - 1]
  BY <1>1, SubSeqProperties
<1>4. m \in Nat \ {0}
  BY <1>1
<1> HIDE DEF f, m, k
<1>5. k = m - 1
  BY <1>3, <1>4
<1>6. ASSUME NEW i \in 1..(m - 1) PROVE f[i] = p[i]
  <2>1. 1 + i - 1 = i /\ i \in 1..(m - 1 - 1 + 1)
    BY <1>4
  <2> QED
    BY <1>3, <2>1
<1>7. f \in [1..(m - 1) -> Names]
  BY <1>3, <1>5 DEF k
<1> QED
  BY <1>1, <1>2, <1>5, <1>6, <1>7 DEF f, m, k

SetIs(r, h, n, c, p, mk) ==
  \/ Related(h, n, c) /\ r = [h |-> h, result |-> "error"]
  \/ ~Related(h, n, c) /\ ~mk.ok /\ r = [h |-> mk.h, result |-> "error"]
  \/ ~Related(h, n, c) /\ mk.ok /\ ~IsDir(mk.h, mk.n) /\ r = [h |-> mk.h, result |-> "panic"]
  \/ /\ ~Related(h, n, c) /\ mk.ok /\ IsDir(mk.h, mk.n)
     /\ r = [h |-> Link(mk.h, mk.n, S!Last(p), c), result |-> "ok"]

LEMMA SetCases ==
  ASSUME NEW h, NEW n, NEW c, NEW p, NEW mk, mk = MkdirAll(h, n, S!Front(p))
  PROVE  /\ p \notin Paths => Set(h, n, p, c) = [h |-> h, result |-> "error"]
         /\ p = <<>> => Set(h, n, p, c) = [h |-> Put(h, n, h.node[c], h.kids[c]), result |-> "ok"]
         /\ p \in Paths /\ p # <<>> => SetIs(Set(h, n, p, c), h, n, c, p, mk)
<1> DEFINE bad == [h |-> h, result |-> "error"]
           put == [h |-> Put(h, n, h.node[c], h.kids[c]), result |-> "ok"]
           fail == [h |-> mk.h, result |-> "error"]
           panic == [h |-> mk.h, result |-> "panic"]
           done == [h |-> Link(mk.h, mk.n, S!Last(p), c), result |-> "ok"]
           deep == CASE Related(h, n, c) -> bad
                     [] ~Related(h, n, c) /\ ~mk.ok -> fail
                     [] ~Related(h, n, c) /\ mk.ok /\ ~IsDir(mk.h, mk.n) -> panic
                     [] OTHER -> done
<1>1. Set(h, n, p, c) = CASE ~ValidPath(p) -> bad [] p = <<>> -> put
                          [] p # <<>> /\ ValidPath(p) -> deep
  BY DEF Set
<1>2. <<>> \in Paths
  BY TreeAssumption DEF Paths
<1> HIDE DEF bad, put, fail, panic, done
<1>3. p \notin Paths => Set(h, n, p, c) = bad
  BY <1>1, <1>2 DEF ValidPath
<1>4. p = <<>> => Set(h, n, p, c) = put
  BY <1>1, <1>2 DEF ValidPath
<1>5. p \in Paths /\ p # <<>> => Set(h, n, p, c) = deep
  BY <1>1 DEF ValidPath
<1>6. \/ Related(h, n, c) /\ deep = bad
      \/ ~Related(h, n, c) /\ ~mk.ok /\ deep = fail
      \/ ~Related(h, n, c) /\ mk.ok /\ ~IsDir(mk.h, mk.n) /\ deep = panic
      \/ ~Related(h, n, c) /\ mk.ok /\ IsDir(mk.h, mk.n) /\ deep = done
  OBVIOUS
<1> HIDE DEF deep
<1>7. p \in Paths /\ p # <<>> => SetIs(Set(h, n, p, c), h, n, c, p, mk)
  BY <1>5, <1>6, Zenon DEF bad, fail, panic, done, SetIs
<1> QED
  BY <1>3, <1>4, <1>7, Zenon DEF bad, put

\* A node that is had is the first one, or is had through a child of it.
LEMMA HasVia ==
  ASSUME NEW h, Typed(h), NEW n \in Nodes, NEW k \in Has(h, n), k # n
  PROVE  IsParentOf(h, n, k)
<1> DEFINE below == {m \in Nodes : m = n \/ IsParentOf(h, n, m)}
<1>1. ASSUME NEW a \in below, NEW x \in Names, h.kids[a][x] # None
      PROVE  h.kids[a][x] \in below
  <2>1. h.kids[a][x] \in Nodes
    BY <1>1 DEF Typed
  <2>2. CASE a = n
    <3>1. h.kids[a][x] \in Has(h, h.kids[a][x])
      BY <2>1, HasClosed
    <3> QED
      BY <1>1, <2>1, <2>2, <3>1 DEF IsParentOf
  <2>3. CASE IsParentOf(h, n, a)
    <3>1. PICK y \in Names : h.kids[n][y] # None /\ a \in Has(h, h.kids[n][y])
      BY <2>3 DEF IsParentOf
    <3>2. h.kids[n][y] \in Nodes
      BY <3>1 DEF Typed
    <3>3. h.kids[a][x] \in Has(h, h.kids[n][y])
      BY <1>1, <3>1, <3>2, HasChild
    <3> QED
      BY <2>1, <3>1, <3>3 DEF IsParentOf
  <2> QED
    BY <2>2, <2>3
<1>2. Closed(h, below)
  BY <1>1 DEF Closed
<1>3. Has(h, n) \subseteq below
  <2> HIDE DEF below
  <2>1. n \in below
    BY DEF below
  <2> QED
    BY <1>2, <2>1, HasLeast
<1> QED
  BY <1>3

LEMMA SetInto ==
  ASSUME NEW h, Linked(h), OneParent(h, Nodes), NEW n \in InUse(h), NEW c \in InUse(h), n # c,
         ~Related(h, n, c) => NoParent(h, c),
         NEW p \in Paths, p # <<>>, FreeCount(h) >= Len(p) - 1
  PROVE  LET r == Set(h, n, p, c)
         IN  /\ r.result \in {"ok", "error", "panic"}
             /\ r.result # "ok" => r.h = h
             /\ r.result = "ok" =>
                  /\ Linked(r.h) /\ OneParent(r.h, Nodes) /\ InUse(h) \subseteq InUse(r.h)
                  /\ \A k \in InUse(h) : k # c /\ NoParent(h, k) => NoParent(r.h, k)
                  /\ NoParent(h, c) /\ c \notin Has(h, n) /\ n \notin Has(h, c)
<1> DEFINE r == Set(h, n, p, c)
           q == S!Front(p)
           x == S!Last(p)
           mk == MkdirAll(h, n, q)
           g == mk.h
           m == mk.n
           e == Link(g, m, x, c)
<1>1. x \in Names /\ Len(q) \in Nat /\ q \in [1..Len(q) -> Names] /\ FreeCount(h) >= Len(q)
  BY FrontIs, PathLen, FreeFinite
<1>2. /\ mk = [h |-> g, n |-> m, ok |-> mk.ok]
      /\ Grows(g, h, n) /\ m \in InUse(g) /\ m \in Has(g, n)
      /\ g # h => mk.ok /\ IsDir(g, m)
  <2>1. MkdirInv(mk, h, n, Len(q))
    BY <1>1, MkdirAllInv
  <2> QED
    BY <2>1 DEF MkdirInv
<1>3. \/ r = [h |-> h, result |-> "error"]
      \/ r = [h |-> g, result |-> "error"] /\ g = h
      \/ r = [h |-> g, result |-> "panic"] /\ g = h
      \/ ~Related(h, n, c) /\ mk.ok /\ IsDir(g, m) /\ r = [h |-> e, result |-> "ok"]
  <2>1. SetIs(r, h, n, c, p, mk)
    BY SetCases
  <2> HIDE DEF r, mk
  <2> QED
    BY <1>2, <2>1, Zenon DEF SetIs
<1>4. ASSUME ~Related(h, n, c), mk.ok, IsDir(g, m)
      PROVE  /\ Linked(e) /\ OneParent(e, Nodes) /\ InUse(h) \subseteq InUse(e)
             /\ \A k \in InUse(h) : k # c /\ NoParent(h, k) => NoParent(e, k)
             /\ NoParent(h, c) /\ c \notin Has(h, n) /\ n \notin Has(h, c)
  <2> HIDE DEF r, mk, e, x, q
  <2>2. NoParent(h, c) /\ c \notin Has(h, n) /\ n \notin Has(h, c)
    BY <1>4, HasVia DEF Related, Linked, InUse
  <2>3. NoParent(g, c) /\ n \notin Has(g, c) /\ Linked(g) /\ OneParent(g, Nodes)
    BY <1>2, <2>2 DEF Grows
  <2>4. /\ m \in Nodes /\ n \in Nodes /\ c \in Nodes /\ c \in InUse(g)
        /\ Typed(g)
    BY <1>2, <2>3 DEF Grows, InUse, Linked
  <2>5. OneParent(g, Has(g, n) \cup Has(g, c))
    BY <2>3, <2>4, HasClosed DEF OneParent
  <2>6. m \notin Has(g, c)
    BY <1>2, <2>3, <2>4, <2>5, Disjoint
  <2>7. IsLink(e, g, m, x, c)
    BY <1>1, <2>4, LinkIs DEF e
  <2>8. Linked(e) /\ InUse(e) = InUse(g)
    BY <1>1, <1>4, <2>3, <2>4, <2>6, <2>7, LinkLinked
  <2>9. OneParent(e, Nodes) /\ \A k : k # c /\ NoParent(g, k) => NoParent(e, k)
    BY <1>1, <2>3, <2>4, <2>7, LinkParents
  <2> QED
    BY <1>2, <2>2, <2>8, <2>9 DEF Grows
<1> HIDE DEF r, e, mk
<1>5. CASE r = [h |-> h, result |-> "error"] \/ (r = [h |-> g, result |-> "error"] /\ g = h)
           \/ (r = [h |-> g, result |-> "panic"] /\ g = h)
  <2>1. r.h = h /\ r.result \in {"error", "panic"}
    BY <1>5
  <2> QED
    BY <2>1 DEF r
<1>6. CASE ~Related(h, n, c) /\ mk.ok /\ IsDir(g, m) /\ r = [h |-> e, result |-> "ok"]
  <2>1. r.h = e /\ r.result = "ok"
    BY <1>6
  <2> QED
    BY <1>4, <1>6, <2>1 DEF r
<1> QED
  BY <1>3, <1>5, <1>6

\* Set(".", child): c's children are n's as well, but nothing leads to c from n.
LEMMA SetRoot ==
  ASSUME NEW h, Linked(h), OneParent(h, Nodes), NEW n \in InUse(h), NEW c \in InUse(h), n # c,
         NoParent(h, n), NEW g, g = Put(h, n, h.node[c], h.kids[c])
  PROVE  /\ Linked(g) /\ InUse(g) = InUse(h)
         /\ \A k : NoParent(h, k) => NoParent(g, k)
         /\ OneParent(g, Nodes \ {c}) /\ c \notin Has(g, n)
<1>1. Typed(h) /\ n \in Nodes /\ c \in Nodes /\ h.node[c] # Free /\ h.node[n] # Free
  BY DEF Linked, InUse, FreeNodes
<1>2. g.node = [h.node EXCEPT ![n] = h.node[c]] /\ g.kids = [h.kids EXCEPT ![n] = h.kids[c]]
  BY DEF Put
<1>3. /\ h.kids \in [Nodes -> [Names -> Nodes \cup {None}]]
      /\ h.node \in [Nodes -> Files \cup {Dir, Free}]
  BY <1>1 DEF Typed
<1>4. /\ g.kids[n] = h.kids[c] /\ g.node[n] = h.node[c]
      /\ \A a \in Nodes : a # n => g.kids[a] = h.kids[a] /\ g.node[a] = h.node[a]
  BY <1>1, <1>2, <1>3
<1>5. Typed(g)
  BY <1>1, <1>2, <1>3 DEF Typed
<1>6. InUse(g) = InUse(h)
  BY <1>1, <1>4 DEF InUse, FreeNodes
<1>7. OnlyDirs(g)
  <2> SUFFICES ASSUME NEW a \in Nodes, ~IsDir(g, a) PROVE g.kids[a] = NoKids
    BY DEF OnlyDirs
  <2> QED
    BY <1>1, <1>4 DEF Linked, OnlyDirs, IsDir
<1>8. NoDangling(g)
  <2> SUFFICES ASSUME NEW a \in Nodes, NEW x \in Names, g.kids[a][x] # None
               PROVE  g.kids[a][x] \in InUse(g)
    BY DEF NoDangling
  <2> QED
    BY <1>1, <1>4, <1>6 DEF Linked, NoDangling
<1>9. ASSUME NEW k, NoParent(h, k) PROVE NoParent(g, k)
  BY <1>1, <1>4, <1>9 DEF NoParent
<1>10. ASSUME NEW k \in Nodes, k # n PROVE n \notin Has(g, k) /\ Has(g, k) = Has(h, k)
  <2>1. n \notin Has(g, k) /\ n \notin Has(h, k)
    BY <1>1, <1>5, <1>9, <1>10, NoParentHas
  <2>2. \A a \in Has(h, k) : g.kids[a] = h.kids[a]
    BY <1>1, <1>4, <1>10, <2>1, HasClosed
  <2> QED
    BY <1>1, <1>5, <2>1, <2>2, HasAway
<1>11. NoCycle(g)
  <2> SUFFICES ASSUME NEW a \in Nodes, NEW x \in Names, g.kids[a][x] # None,
                      a \in Has(g, g.kids[a][x])
               PROVE  FALSE
    BY DEF NoCycle
  <2>0. NoParent(g, n)
    BY <1>9
  <2>1. g.kids[a][x] \in Nodes /\ g.kids[a][x] # n
    BY <1>5, <2>0 DEF Typed, NoParent
  <2>2. a # n /\ a \in Has(h, g.kids[a][x])
    BY <1>10, <2>1
  <2> QED
    BY <1>1, <1>4, <2>2 DEF Linked, NoCycle
<1>12. OneParent(g, Nodes \ {c})
  <2> SUFFICES ASSUME NEW a \in Nodes \ {c}, NEW b \in Nodes \ {c}, NEW x \in Names, NEW y \in Names,
                      g.kids[a][x] # None, g.kids[a][x] = g.kids[b][y]
               PROVE  a = b /\ x = y
    BY DEF OneParent
  <2>1. CASE a # n /\ b # n
    BY <1>4, <2>1 DEF OneParent
  <2>2. CASE a = n /\ b # n
    BY <1>1, <1>4, <2>2 DEF OneParent
  <2>3. CASE a # n /\ b = n
    BY <1>1, <1>4, <2>3 DEF OneParent
  <2>4. CASE a = n /\ b = n
    BY <1>1, <1>4, <2>4 DEF OneParent
  <2> QED
    BY <2>1, <2>2, <2>3, <2>4
<1>13. c \notin Has(g, n)
  <2> DEFINE rest == (Has(h, c) \ {c}) \cup {n}
  <2>1. ASSUME NEW x \in Names, NEW a \in Has(h, c), h.kids[a][x] # None
        PROVE  h.kids[a][x] \in Has(h, c) \ {c}
    <3>1. h.kids[a][x] \in Has(h, c) /\ a \in Nodes
      BY <1>1, <2>1, HasChild, HasClosed
    <3>2. h.kids[a][x] = c => FALSE
      BY <2>1, <3>1 DEF Linked, NoCycle
    <3> QED
      BY <3>1, <3>2
  <2>2. ASSUME NEW a \in rest, NEW x \in Names, g.kids[a][x] # None
        PROVE  g.kids[a][x] \in rest
    <3>1. CASE a = n
      BY <1>1, <1>4, <2>1, <2>2, <3>1, HasClosed
    <3>2. CASE a # n
      <4>1. a \in Has(h, c) /\ a \in Nodes
        BY <1>1, <3>2, HasClosed
      <4> QED
        BY <1>4, <2>1, <2>2, <3>2, <4>1
    <3> QED
      BY <3>1, <3>2
  <2>3. Closed(g, rest)
    BY <2>2 DEF Closed
  <2>4. n \in rest /\ c \notin rest
    OBVIOUS
  <2> HIDE DEF rest
  <2> QED
    BY <2>3, <2>4, HasLeast
<1> QED
  BY <1>5, <1>6, <1>7, <1>8, <1>9, <1>11, <1>12, <1>13 DEF Linked

-----------------------------------------------------------------------------
(* What nobody has is gone *)

LEMMA LiveIs ==
  ASSUME NEW g, Linked(g), NEW t, NEW s, Held(g, t, s)
  PROVE  /\ Live(g, t, s) \subseteq InUse(g) /\ Closed(g, Live(g, t, s))
         /\ t \in Live(g, t, s) /\ (s # None => s \in Live(g, t, s))
<1>1. ASSUME NEW n \in InUse(g)
      PROVE  Has(g, n) \subseteq InUse(g) /\ Closed(g, Has(g, n)) /\ n \in Has(g, n)
  <2>1. Typed(g) /\ n \in Nodes
    BY DEF Linked, InUse
  <2>2. Closed(g, InUse(g))
    BY DEF Closed, Linked, NoDangling, InUse
  <2> QED
    BY <2>1, <2>2, HasLeast, HasClosed
<1>2. t \in InUse(g) /\ (s = None \/ s \in InUse(g))
  BY DEF Held
<1>3. CASE s = None
  BY <1>1, <1>2, <1>3 DEF Live
<1>4. CASE s # None
  <2>1. Live(g, t, s) = Has(g, t) \cup Has(g, s)
    BY <1>4 DEF Live
  <2> QED
    BY <1>1, <1>2, <1>4, <2>1 DEF Closed
<1> QED
  BY <1>3, <1>4

LEMMA CollectedShape ==
  ASSUME NEW g, NEW t, NEW s, Sound(g, t, s), NEW k, k = Collected(g, Live(g, t, s))
  PROVE  Shape(k, t, s)
<1> DEFINE live == Live(g, t, s)
<1>1. Linked(g) /\ Typed(g) /\ Held(g, t, s) /\ OneParent(g, live)
  BY DEF Sound, Linked
<1>2. /\ live \subseteq InUse(g) /\ InUse(g) \subseteq Nodes
      /\ Closed(g, live) /\ t \in live /\ (s # None => s \in live)
  BY <1>1, LiveIs DEF InUse
<1>3. /\ k.node = [n \in Nodes |-> IF n \in live THEN g.node[n] ELSE Free]
      /\ k.kids = [n \in Nodes |-> IF n \in live THEN g.kids[n] ELSE NoKids]
  BY DEF Collected
<1> HIDE DEF live
<1>4. /\ g.kids \in [Nodes -> [Names -> Nodes \cup {None}]]
      /\ g.node \in [Nodes -> Files \cup {Dir, Free}]
      /\ NoKids \in [Names -> Nodes \cup {None}]
      /\ \A x \in Names : NoKids[x] = None
  BY <1>1 DEF Typed, NoKids
<1>5. Typed(k)
  BY <1>3, <1>4 DEF Typed
<1>6. \A n \in Nodes : k.node[n] # Free => n \in live
  BY <1>3
<1>7. \A n \in live : k.node[n] = g.node[n] /\ k.kids[n] = g.kids[n]
  BY <1>2, <1>3
<1>8. \A n \in Nodes, x \in Names : k.kids[n][x] # None => n \in live /\ k.kids[n][x] = g.kids[n][x]
  BY <1>3, <1>4
<1>9. live = InUse(k)
  BY <1>2, <1>6, <1>7 DEF InUse, FreeNodes
<1>10. OnlyDirs(k)
  <2> SUFFICES ASSUME NEW n \in Nodes, ~IsDir(k, n) PROVE k.kids[n] = NoKids
    BY DEF OnlyDirs
  <2> QED
    BY <1>1, <1>3 DEF Linked, OnlyDirs, IsDir
<1>11. NoDangling(k)
  BY <1>2, <1>8, <1>9 DEF NoDangling, Closed
<1>12. ASSUME NEW n \in live PROVE Has(k, n) = Has(g, n)
  <2>1. n \in Nodes /\ Has(g, n) \subseteq live
    BY <1>2, HasLeast
  <2>2. \A a \in Has(g, n) : k.kids[a] = g.kids[a]
    BY <1>7, <2>1
  <2> QED
    BY <1>1, <1>5, <2>1, <2>2, HasAway
<1>13. NoCycle(k)
  <2> SUFFICES ASSUME NEW n \in Nodes, NEW x \in Names, k.kids[n][x] # None,
                      n \in Has(k, k.kids[n][x])
               PROVE  FALSE
    BY DEF NoCycle
  <2>1. k.kids[n][x] = g.kids[n][x] /\ k.kids[n][x] \in live
    BY <1>2, <1>8 DEF Closed
  <2> QED
    BY <1>1, <1>12, <2>1 DEF Linked, NoCycle
<1>14. Linked(k)
  BY <1>5, <1>10, <1>11, <1>13 DEF Linked
<1>15. OneParent(k, Nodes)
  <2> SUFFICES ASSUME NEW a \in Nodes, NEW b \in Nodes, NEW x \in Names, NEW y \in Names,
                      k.kids[a][x] # None, k.kids[a][x] = k.kids[b][y]
               PROVE  a = b /\ x = y
    BY DEF OneParent
  <2>1. /\ a \in live /\ k.kids[a][x] = g.kids[a][x]
        /\ b \in live /\ k.kids[b][y] = g.kids[b][y]
    BY <1>8
  <2>2. g.kids[a][x] # None /\ g.kids[a][x] = g.kids[b][y]
    BY <2>1
  <2>3. OneParent(g, live)
    BY <1>1
  <2> QED
    BY <2>1, <2>2, <2>3 DEF OneParent
<1>16. Held(k, t, s)
  <2>1. NoParent(k, t)
    BY <1>1, <1>2, <1>3, <1>4, <1>8, TreeAssumption DEF Held, NoParent
  <2> QED
    BY <1>1, <1>2, <1>9, <2>1 DEF Held
<1>17. ASSUME s # None, ~NoParent(k, s) PROVE s \in Has(k, t)
  <2>1. s \in live /\ s \in Nodes /\ t \in Nodes
    BY <1>2, <1>17
  <2>2. PICK a \in Nodes, x \in Names : k.kids[a][x] = s
    BY <1>17 DEF NoParent
  <2>3. a \in live /\ g.kids[a][x] = s
    BY <1>8, <1>17, <2>2
  <2>4. a \notin Has(g, s)
    BY <1>1, <1>17, <2>2, <2>3 DEF Linked, NoCycle
  <2>5. a \in Has(g, t)
    BY <2>3, <2>4 DEF live, Live
  <2>6. s \in Has(g, t)
    BY <1>1, <1>17, <2>1, <2>3, <2>5, HasChild
  <2> QED
    BY <1>2, <1>12, <2>6
<1> QED
  BY <1>14, <1>15, <1>16, <1>17 DEF Shape

LEMMA SoundIf ==
  ASSUME NEW g, Linked(g), OneParent(g, Nodes), NEW t, NEW s, Held(g, t, s)
  PROVE  Sound(g, t, s)
<1>1. Live(g, t, s) \subseteq Nodes
  BY LiveIs DEF InUse
<1>2. OneParent(g, Live(g, t, s))
  BY <1>1 DEF OneParent
<1> QED
  BY <1>2 DEF Sound

LEMMA ReturnsInv ==
  ASSUME TreeInv, NEW r, NEW t, NEW s, Returns(r, t, s), Sound(r.h, t, s)
  PROVE  TreeInv'
<1>1. heap' = Collected(r.h, Live(r.h, t, s)) /\ tree' = t /\ sub' = s
  BY DEF Returns
<1>2. Shape(heap', t, s)
  BY <1>1, CollectedShape
<1> QED
  BY <1>1, <1>2 DEF TreeInv

-----------------------------------------------------------------------------
(* Paths *)

LEMMA StepsIs ==
  ASSUME NEW h, NEW n, NEW p, Len(p) \in Nat, NEW f, f = Steps(h, n, p)
  PROVE  /\ f[0] = n
         /\ \A k \in 0..(Len(p) - 1) :
              f[k + 1] = IF f[k] = None THEN None ELSE h.kids[f[k]][p[k + 1]]
<1>0. IsSteps(h, n, p, f, Len(p))
  BY StepsFcn
<1>1. ASSUME NEW i \in 0..Len(p)
      PROVE  f[i] = IF i = 0 THEN n ELSE IF f[i - 1] = None THEN None ELSE h.kids[f[i - 1]][p[i]]
  BY <1>0, Zenon DEF IsSteps
<1>2. f[0] = n
  BY <1>1
<1>3. ASSUME NEW k \in 0..(Len(p) - 1)
      PROVE  f[k + 1] = IF f[k] = None THEN None ELSE h.kids[f[k]][p[k + 1]]
  <2>1. PICK i \in 0..Len(p) : i = k + 1
    OBVIOUS
  <2>2. f[i] = IF i = 0 THEN n ELSE IF f[i - 1] = None THEN None ELSE h.kids[f[i - 1]][p[i]]
    BY <1>1, Zenon
  <2>3. i # 0 /\ i - 1 = k
    BY <2>1
  <2>4. f[i] = IF f[k] = None THEN None ELSE h.kids[f[k]][p[i]]
    BY <2>2, <2>3, Zenon
  <2> QED
    BY <2>1, <2>4, Zenon
<1> QED
  BY <1>2, <1>3

LEMMA StepsHas ==
  ASSUME NEW h, Typed(h), NEW n \in Nodes, NEW p, Len(p) \in Nat, p \in [1..Len(p) -> Names]
  PROVE  \A i \in 0..Len(p) : Steps(h, n, p)[i] \in Has(h, n) \cup {None}
<1> DEFINE f == Steps(h, n, p)
           A == {i \in 0..Len(p) : f[i] \in Has(h, n) \cup {None}}
<1>1. /\ f[0] = n
      /\ \A k \in 0..(Len(p) - 1) :
           f[k + 1] = IF f[k] = None THEN None ELSE h.kids[f[k]][p[k + 1]]
  BY StepsIs
<1> HIDE DEF f
<1>2. 0 \in A
  BY <1>1, HasClosed
<1>3. ASSUME NEW k \in A, k \in 0..(Len(p) - 1) PROVE k + 1 \in A
  <2>1. f[k + 1] = IF f[k] = None THEN None ELSE h.kids[f[k]][p[k + 1]]
    BY <1>1, <1>3
  <2>2. f[k] \in Has(h, n) \cup {None} /\ p[k + 1] \in Names /\ k + 1 \in 0..Len(p)
    BY <1>3
  <2>3. f[k] # None => h.kids[f[k]][p[k + 1]] \in Has(h, n) \cup {None}
    BY <2>2, HasChild
  <2> QED
    BY <2>1, <2>2, <2>3
<1>4. 0..Len(p) \subseteq A
  <2> HIDE DEF A
  <2> QED
    BY <1>2, <1>3, UpTo
<1> QED
  BY <1>4 DEF f

\* Two walks that agree on the names go the same way.
LEMMA StepsAgree ==
  ASSUME NEW h, NEW n, NEW p, NEW q, Len(p) \in Nat, Len(q) \in Nat, NEW m \in Nat,
         m <= Len(p), m <= Len(q), \A i \in 1..m : p[i] = q[i]
  PROVE  \A i \in 0..m : Steps(h, n, p)[i] = Steps(h, n, q)[i]
<1> DEFINE f == Steps(h, n, p)
           g == Steps(h, n, q)
           A == {i \in 0..m : f[i] = g[i]}
<1>1. /\ f[0] = n
      /\ \A k \in 0..(Len(p) - 1) :
           f[k + 1] = IF f[k] = None THEN None ELSE h.kids[f[k]][p[k + 1]]
  BY StepsIs
<1>2. /\ g[0] = n
      /\ \A k \in 0..(Len(q) - 1) :
           g[k + 1] = IF g[k] = None THEN None ELSE h.kids[g[k]][q[k + 1]]
  BY StepsIs
<1> HIDE DEF f, g
<1>3. 0 \in A
  BY <1>1, <1>2
<1>4. ASSUME NEW k \in A, k \in 0..(m - 1) PROVE k + 1 \in A
  <2>1. k + 1 \in 0..m /\ k \in 0..(Len(p) - 1) /\ k \in 0..(Len(q) - 1) /\ f[k] = g[k]
    BY <1>4
  <2>2. p[k + 1] = q[k + 1]
    BY <2>1
  <2>3. f[k + 1] = g[k + 1]
    BY <1>1, <1>2, <2>1, <2>2
  <2> QED
    BY <2>1, <2>3
<1>5. 0..m \subseteq A
  <2> HIDE DEF A
  <2> QED
    BY <1>3, <1>4, UpTo
<1> QED
  BY <1>5 DEF f, g

LEMMA DownFront ==
  ASSUME NEW h, NEW n, NEW p \in Paths, p # <<>>
  PROVE  Down(h, n, p) = IF Down(h, n, S!Front(p)) = None THEN None
                         ELSE h.kids[Down(h, n, S!Front(p))][S!Last(p)]
<1> DEFINE l == Len(p)
           f == Steps(h, n, p)
           g == Steps(h, n, S!Front(p))
<1>1. l \in Nat \ {0} /\ Len(S!Front(p)) = l - 1 /\ S!Last(p) = p[l]
      /\ \A i \in 1..(l - 1) : S!Front(p)[i] = p[i]
  BY FrontIs
<1>2. \A k \in 0..(l - 1) : f[k + 1] = IF f[k] = None THEN None ELSE h.kids[f[k]][p[k + 1]]
  BY <1>1, StepsIs
<1>3. \A i \in 0..(l - 1) : g[i] = f[i]
  BY <1>1, StepsAgree
<1>4. Down(h, n, p) = f[l] /\ Down(h, n, S!Front(p)) = g[l - 1]
  BY <1>1 DEF Down
<1> HIDE DEF f, g
<1>5. l - 1 + 1 = l /\ l - 1 \in 0..(l - 1)
  BY <1>1
<1>6. f[l] = IF f[l - 1] = None THEN None ELSE h.kids[f[l - 1]][p[l]]
  BY <1>2, <1>5
<1>7. g[l - 1] = f[l - 1]
  BY <1>3, <1>5
<1> QED
  BY <1>1, <1>4, <1>6, <1>7

LEMMA DownHas ==
  ASSUME NEW h, Typed(h), NEW n \in Nodes, NEW p, Len(p) \in Nat, p \in [1..Len(p) -> Names]
  PROVE  Down(h, n, p) \in Has(h, n) \cup {None}
BY StepsHas DEF Down

-----------------------------------------------------------------------------
(* Remove *)

LEMMA DownEmpty ==
  ASSUME NEW h, NEW n
  PROVE  Down(h, n, <<>>) = n
BY StepsIs DEF Down

LEMMA RemoveCases ==
  ASSUME NEW h, NEW n, n # None, NEW p
  PROVE  /\ Down(h, n, p) = None => Remove(h, n, p) = [h |-> h, n |-> None]
         /\ Down(h, n, p) # None /\ p = <<>> =>
              Remove(h, n, p) =
                [h |-> Put(Put(h, NewNode(h), h.node[n], h.kids[n]),
                           n, IF IsDir(h, n) THEN Dir ELSE Zero, NoKids),
                 n |-> NewNode(h)]
         /\ Down(h, n, p) # None /\ p # <<>> =>
              Remove(h, n, p) = [h |-> Link(h, Down(h, n, S!Front(p)), S!Last(p), None),
                                 n |-> Down(h, n, p)]
<1> DEFINE none == [h |-> h, n |-> None]
           copy == [h |-> Put(Put(h, NewNode(h), h.node[n], h.kids[n]),
                              n, IF IsDir(h, n) THEN Dir ELSE Zero, NoKids),
                    n |-> NewNode(h)]
           cut == [h |-> Link(h, Down(h, n, S!Front(p)), S!Last(p), None), n |-> Down(h, n, p)]
<1>1. Remove(h, n, p) = CASE Down(h, n, p) = None -> none [] p = <<>> -> copy [] OTHER -> cut
  BY DEF Remove
<1> HIDE DEF none, copy, cut
<1>2. p = <<>> => Down(h, n, p) # None
  BY DownEmpty
<1>3. /\ Down(h, n, p) = None => Remove(h, n, p) = none
      /\ p = <<>> => Remove(h, n, p) = copy
      /\ Down(h, n, p) # None /\ p # <<>> => Remove(h, n, p) = cut
  BY <1>1, <1>2
<1> QED
  BY <1>2, <1>3 DEF none, copy, cut

\* What is taken out is a tree of its own, and the rest is as it was.
Removed(g, h, n, c) ==
  /\ Linked(g) /\ OneParent(g, Nodes) /\ InUse(h) \subseteq InUse(g)
  /\ c \in InUse(g) /\ c # n /\ NoParent(g, c)
  /\ \A k \in InUse(h) : NoParent(h, k) => NoParent(g, k)
  /\ FreeCount(g) >= FreeCount(h) - 1

LEMMA RemoveBelow ==
  ASSUME NEW h, Linked(h), OneParent(h, Nodes), NEW n \in InUse(h), NoParent(h, n),
         NEW p \in Paths, p # <<>>, Down(h, n, p) # None
  PROVE  Removed(Remove(h, n, p).h, h, n, Remove(h, n, p).n)
<1> DEFINE m == Down(h, n, S!Front(p))
           x == S!Last(p)
           c == Down(h, n, p)
           g == Link(h, m, x, None)
<1>1. Remove(h, n, p) = [h |-> g, n |-> c]
  BY RemoveCases, TreeAssumption DEF InUse
<1>2. Remove(h, n, p).h = g /\ Remove(h, n, p).n = c
  BY <1>1
<1>3. Typed(h) /\ n \in Nodes /\ x \in Names
  BY FrontIs DEF Linked, InUse
<1>4. c = h.kids[m][x] /\ m # None /\ c # None
  BY DownFront
<1>5. m \in Nodes
  <2>1. m \in Has(h, n) \cup {None}
    BY <1>3, FrontIs, PathLen, DownHas
  <2> QED
    BY <1>3, <1>4, <2>1, HasClosed
<1> HIDE DEF m, x, c, g
<1>6. IsLink(g, h, m, x, None)
  BY <1>3, <1>5, LinkIs DEF g
<1>7. IsDir(h, m)
  BY <1>3, <1>4, <1>5 DEF Linked, OnlyDirs, NoKids
<1>8. Linked(g) /\ InUse(g) = InUse(h)
  BY <1>3, <1>5, <1>6, <1>7, LinkLinked
<1>9. OneParent(g, Nodes) /\ \A k : k # None /\ NoParent(h, k) => NoParent(g, k)
  BY <1>3, <1>5, <1>6, LinkParents
<1>10. c \in InUse(h) /\ c # n
  BY <1>3, <1>4, <1>5 DEF Linked, NoDangling, NoParent
<1>11. NoParent(g, c)
  BY <1>3, <1>4, <1>5, <1>6 DEF NoParent, OneParent, IsLink
<1>12. FreeCount(g) = FreeCount(h) /\ FreeCount(h) \in Nat
  BY <1>6, FreeFinite DEF FreeCount, FreeNodes, IsLink
<1>13. None \notin InUse(h)
  BY TreeAssumption DEF InUse
<1> QED
  BY <1>2, <1>8, <1>9, <1>10, <1>11, <1>12, <1>13 DEF Removed

LEMMA RemoveRoot ==
  ASSUME NEW h, Linked(h), OneParent(h, Nodes), NEW n \in InUse(h), NoParent(h, n), FreeCount(h) > 0
  PROVE  /\ Removed(Remove(h, n, <<>>).h, h, n, Remove(h, n, <<>>).n)
         /\ Remove(h, n, <<>>).n \notin InUse(h)
<1> DEFINE c == NewNode(h)
           v == IF IsDir(h, n) THEN Dir ELSE Zero
           g0 == Put(h, c, h.node[n], h.kids[n])
           g == Put(g0, n, v, NoKids)
<1>1. /\ Remove(h, n, <<>>).h = g
      /\ Remove(h, n, <<>>).n = c
  <2>1. Remove(h, n, <<>>) = [h |-> g, n |-> c]
    BY RemoveCases, DownEmpty, TreeAssumption DEF InUse
  <2> QED
    BY <2>1
<1>2. /\ c \in Nodes /\ h.kids[c] = NoKids /\ NoParent(h, c) /\ h.node[c] = Free
  BY NewNodeFree, FreeAlone DEF FreeNodes
<1>3. /\ n \in Nodes /\ n # c /\ Typed(h) /\ h.node[n] # Free
      /\ v \in Files \cup {Dir} /\ v # Free
  BY <1>2, TreeAssumption DEF InUse, FreeNodes, Linked
<1>4. /\ g.node = [[h.node EXCEPT ![c] = h.node[n]] EXCEPT ![n] = v]
      /\ g.kids = [[h.kids EXCEPT ![c] = h.kids[n]] EXCEPT ![n] = NoKids]
  BY DEF Put
<1> HIDE DEF c, g0, g, v
<1>5. /\ h.kids \in [Nodes -> [Names -> Nodes \cup {None}]]
      /\ h.node \in [Nodes -> Files \cup {Dir, Free}]
      /\ NoKids \in [Names -> Nodes \cup {None}]
      /\ \A x \in Names : NoKids[x] = None
  BY <1>3 DEF Typed, NoKids
<1>6. /\ g.node[c] = h.node[n] /\ g.kids[c] = h.kids[n]
      /\ g.node[n] = v /\ g.kids[n] = NoKids
      /\ \A a \in Nodes : a # n /\ a # c => g.node[a] = h.node[a] /\ g.kids[a] = h.kids[a]
  BY <1>2, <1>3, <1>4, <1>5
<1>7. Typed(g)
  BY <1>2, <1>3, <1>4, <1>5 DEF Typed
<1>8. FreeNodes(g) = FreeNodes(h) \ {c}
  BY <1>2, <1>3, <1>6 DEF FreeNodes
<1>9. InUse(g) = InUse(h) \cup {c}
  BY <1>2, <1>8 DEF InUse
<1>10. FreeCount(g) >= FreeCount(h) - 1
  <2>1. c \in FreeNodes(h)
    BY <1>2 DEF FreeNodes
  <2>2. FreeCount(g) = FreeCount(h) - 1
    BY <1>8, <2>1, FreeFinite, FS_RemoveElement DEF FreeCount
  <2> QED
    BY <2>2, FreeFinite
<1>11. ASSUME NEW a \in Nodes, NEW x \in Names, g.kids[a][x] # None
       PROVE  a # n /\ g.kids[a][x] = h.kids[IF a = c THEN n ELSE a][x]
  BY <1>5, <1>6, <1>11
<1>12. ASSUME NEW k \in InUse(h) \cup {c}, NoParent(h, k) PROVE NoParent(g, k)
  BY <1>2, <1>3, <1>11, <1>12, TreeAssumption DEF NoParent, InUse
<1>13. OneParent(g, Nodes)
  <2> SUFFICES ASSUME NEW a \in Nodes, NEW b \in Nodes, NEW x \in Names, NEW y \in Names,
                      g.kids[a][x] # None, g.kids[a][x] = g.kids[b][y]
               PROVE  a = b /\ x = y
    BY DEF OneParent
  <2> DEFINE d == IF a = c THEN n ELSE a
             e == IF b = c THEN n ELSE b
  <2>1. a # n /\ b # n /\ h.kids[d][x] # None /\ h.kids[d][x] = h.kids[e][y]
    BY <1>11
  <2>2. d \in Nodes /\ e \in Nodes
    BY <1>3
  <2>3. d = e /\ x = y
    BY <2>1, <2>2 DEF OneParent
  <2> QED
    BY <2>1, <2>3
<1>14. OnlyDirs(g)
  <2> SUFFICES ASSUME NEW a \in Nodes, ~IsDir(g, a) PROVE g.kids[a] = NoKids
    BY DEF OnlyDirs
  <2> QED
    BY <1>3, <1>6 DEF Linked, OnlyDirs, IsDir
<1>15. NoDangling(g)
  <2> SUFFICES ASSUME NEW a \in Nodes, NEW x \in Names, g.kids[a][x] # None
               PROVE  g.kids[a][x] \in InUse(g)
    BY DEF NoDangling
  <2> QED
    BY <1>3, <1>9, <1>11 DEF Linked, NoDangling
<1>16. ASSUME NEW k \in Nodes, k # c PROVE c \notin Has(h, k) /\ Has(g, k) \subseteq Has(h, k)
  <2>1. c \notin Has(h, k)
    BY <1>2, <1>3, <1>16, NoParentHas
  <2>2. \A a \in Has(h, k), x \in Names : g.kids[a][x] # None => g.kids[a][x] = h.kids[a][x]
    BY <1>3, <1>11, <1>16, <2>1, HasClosed
  <2> QED
    BY <1>3, <1>7, <1>16, <2>1, <2>2, HasFewer
<1>17. NoCycle(g)
  <2> SUFFICES ASSUME NEW a \in Nodes, NEW x \in Names, g.kids[a][x] # None,
                      a \in Has(g, g.kids[a][x])
               PROVE  FALSE
    BY DEF NoCycle
  <2> DEFINE b == g.kids[a][x]
  <2>1. NoParent(g, c)
    BY <1>2, <1>12
  <2>2. b \in Nodes /\ b # c
    BY <1>7, <2>1 DEF Typed, NoParent
  <2>3. a \in Has(h, b) /\ a # c
    BY <1>16, <2>2
  <2>4. b = h.kids[a][x]
    BY <1>11, <2>3
  <2> QED
    BY <2>3, <2>4 DEF Linked, NoCycle
<1>18. Linked(g)
  BY <1>7, <1>14, <1>15, <1>17 DEF Linked
<1> QED
  BY <1>1, <1>2, <1>3, <1>9, <1>10, <1>12, <1>13, <1>18 DEF Removed, InUse, FreeNodes

\* What is not there is not removed.
LEMMA RemoveIs ==
  ASSUME NEW h, Linked(h), OneParent(h, Nodes), NEW n \in InUse(h), NoParent(h, n), FreeCount(h) > 0,
         NEW p \in Paths
  PROVE  LET r == Remove(h, n, p)
         IN  /\ r.n = None <=> Down(h, n, p) = None
             /\ r.n # None => Removed(r.h, h, n, r.n)
             /\ r.n # None /\ p # <<>> => r.n = Down(h, n, p)
             /\ r.n # None /\ p = <<>> => r.n \notin InUse(h)
<1> DEFINE r == Remove(h, n, p)
<1>1. CASE Down(h, n, p) = None
  <2>1. r = [h |-> h, n |-> None]
    BY <1>1, RemoveCases, TreeAssumption DEF InUse
  <2>2. r.n = None
    BY <2>1
  <2> QED
    BY <1>1, <2>2
<1>2. CASE Down(h, n, p) # None
  <2>1. Removed(r.h, h, n, r.n)
    BY <1>2, RemoveRoot, RemoveBelow
  <2>2. r.n # None
    BY <2>1, TreeAssumption DEF Removed, InUse
  <2>3. p # <<>> => r.n = Down(h, n, p)
    <3>1. n # None
      BY TreeAssumption DEF InUse
    <3>2. p # <<>> => r = [h |-> Link(h, Down(h, n, S!Front(p)), S!Last(p), None), n |-> Down(h, n, p)]
      BY <1>2, <3>1, RemoveCases
    <3> QED
      BY <3>2
  <2>4. p = <<>> => r.n \notin InUse(h)
    BY RemoveRoot
  <2> QED
    BY <1>2, <2>1, <2>2, <2>3, <2>4
<1> QED
  BY <1>1, <1>2

-----------------------------------------------------------------------------
(* RemoveEmptyDirs *)

LEMMA FewerLinked ==
  ASSUME NEW h, Linked(h), OneParent(h, Nodes), NEW g, Typed(g), g.node = h.node,
         \A a \in Nodes, x \in Names : g.kids[a][x] # None => g.kids[a][x] = h.kids[a][x]
  PROVE  /\ Linked(g) /\ OneParent(g, Nodes) /\ InUse(g) = InUse(h)
         /\ \A k \in Nodes : NoParent(h, k) => NoParent(g, k)
<1>1. InUse(g) = InUse(h) /\ Typed(h)
  BY DEF InUse, FreeNodes, Linked
<1>2. ASSUME NEW k \in Nodes, NoParent(h, k) PROVE NoParent(g, k)
  BY <1>2, TreeAssumption DEF NoParent
<1>3. OneParent(g, Nodes)
  BY DEF OneParent
<1>4. OnlyDirs(g)
  <2> SUFFICES ASSUME NEW n \in Nodes, ~IsDir(g, n) PROVE g.kids[n] = NoKids
    BY DEF OnlyDirs
  <2>1. h.kids[n] = NoKids
    BY DEF IsDir, Linked, OnlyDirs
  <2>2. \A y \in Names : g.kids[n][y] = None
    BY <2>1 DEF NoKids
  <2> QED
    BY <2>2 DEF Typed, NoKids
<1>5. NoDangling(g)
  BY <1>1 DEF NoDangling, Linked
<1>6. NoCycle(g)
  <2> SUFFICES ASSUME NEW n \in Nodes, NEW x \in Names, g.kids[n][x] # None,
                      n \in Has(g, g.kids[n][x])
               PROVE  FALSE
    BY DEF NoCycle
  <2>1. g.kids[n][x] \in Nodes /\ g.kids[n][x] = h.kids[n][x]
    BY DEF Typed
  <2>2. Has(g, g.kids[n][x]) \subseteq Has(h, g.kids[n][x])
    BY <1>1, <2>1, HasClosed, HasFewer
  <2> QED
    BY <2>1, <2>2 DEF Linked, NoCycle
<1> QED
  BY <1>1, <1>2, <1>3, <1>4, <1>5, <1>6 DEF Linked

LEMMA RemoveEmptyDirsIs ==
  ASSUME NEW h, Typed(h), NEW n, NEW g, g = RemoveEmptyDirs(h, n)
  PROVE  /\ Typed(g) /\ g.node = h.node
         /\ \A a \in Nodes, x \in Names : g.kids[a][x] # None => g.kids[a][x] = h.kids[a][x]
<1> DEFINE cut(m) == [x \in Names |->
                        IF h.kids[m][x] # None /\ ~HasFile(h, h.kids[m][x]) THEN None ELSE h.kids[m][x]]
<1>1. /\ g.node = h.node
      /\ g.kids = [m \in Nodes |-> IF m \in Has(h, n) THEN cut(m) ELSE h.kids[m]]
  BY DEF RemoveEmptyDirs
<1>2. ASSUME NEW m \in Nodes
      PROVE  /\ cut(m) \in [Names -> Nodes \cup {None}]
             /\ h.kids[m] \in [Names -> Nodes \cup {None}]
             /\ \A x \in Names : cut(m)[x] # None => cut(m)[x] = h.kids[m][x]
  BY DEF Typed
<1> HIDE DEF cut
<1>3. Typed(g)
  BY <1>1, <1>2 DEF Typed
<1> QED
  BY <1>1, <1>2, <1>3

-----------------------------------------------------------------------------
(* Copy *)

LEMMA InjectionExists ==
  ASSUME NEW A, NEW B, IsFiniteSet(A), IsFiniteSet(B), Cardinality(A) <= Cardinality(B)
  PROVE  \E f \in S!Injection(A, B) : TRUE
<1> DEFINE k == Cardinality(A)
           l == Cardinality(B)
<1>1. k \in Nat /\ l \in Nat /\ ExistsBijection(1..k, A) /\ ExistsBijection(1..l, B)
  BY FS_CardinalityType
<1>2. PICK to \in Bijection(A, 1..k) : TRUE
  BY <1>1, Fun_ExistsBijSymmetric, Fun_ExistsBij
<1>3. PICK from \in Bijection(1..l, B) : TRUE
  BY <1>1, Fun_ExistsBij
<1> DEFINE f == [a \in A |-> from[to[a]]]
<1>4. \A a \in A : to[a] \in 1..l
  BY <1>1, <1>2, Fun_BijectionProperties
<1>5. f \in [A -> B]
  <2>1. from \in [1..l -> B]
    BY <1>3, Fun_BijectionProperties
  <2> QED
    BY <1>4, <2>1
<1>6. \A a, b \in A : f[a] = f[b] => a = b
  <2>1. \A a, b \in A : to[a] = to[b] => a = b
    BY <1>2, Fun_BijectionProperties
  <2>2. \A i, j \in 1..l : from[i] = from[j] => i = j
    BY <1>3, Fun_BijectionProperties
  <2> QED
    BY <1>4, <2>1, <2>2
<1>7. f \in S!Injection(A, B)
  BY <1>5, <1>6 DEF S!Injection, S!IsInjective
<1> QED
  BY <1>7

\* g is h with a copy of all that n has, numbered by new.
IsCopy(g, h, n, new) ==
  /\ new \in [Has(h, n) -> FreeNodes(h)]
  /\ \A a, b \in Has(h, n) : new[a] = new[b] => a = b
  /\ Typed(g)
  /\ \A a \in Has(h, n) :
       /\ g.node[new[a]] = h.node[a]
       /\ \A x \in Names : g.kids[new[a]][x] = IF h.kids[a][x] = None THEN None ELSE new[h.kids[a][x]]
  /\ \A c \in Nodes : (\A a \in Has(h, n) : c # new[a]) => g.node[c] = h.node[c] /\ g.kids[c] = h.kids[c]

LEMMA CopyIs ==
  ASSUME NEW h, Linked(h), NEW n \in InUse(h), FreeCount(h) >= Cardinality(Has(h, n))
  PROVE  \E new : IsCopy(Copy(h, n).h, h, n, new) /\ Copy(h, n).n = new[n]
<1> DEFINE A == Has(h, n)
           new == CHOOSE f \in S!Injection(A, FreeNodes(h)) : TRUE
           copies == {new[m] : m \in A}
           Of(c) == CHOOSE m \in A : new[m] = c
           Kid(m, x) == IF h.kids[m][x] = None THEN None ELSE new[h.kids[m][x]]
           node == [c \in Nodes |-> IF c \in copies THEN h.node[Of(c)] ELSE h.node[c]]
           kids == [c \in Nodes |-> IF c \in copies THEN [x \in Names |-> Kid(Of(c), x)] ELSE h.kids[c]]
           g == [node |-> node, kids |-> kids]
<1>1. Copy(h, n) = [h |-> g, n |-> new[n]]
  BY DEF Copy
<1>2. /\ Typed(h) /\ n \in Nodes /\ n \in A /\ A \subseteq Nodes
      /\ \A m \in A, x \in Names : h.kids[m][x] # None => h.kids[m][x] \in A
  BY HasClosed DEF Linked, InUse, Closed
<1>3. new \in S!Injection(A, FreeNodes(h))
  <2>1. IsFiniteSet(A) /\ IsFiniteSet(FreeNodes(h))
    <3>1. IsFiniteSet(Nodes)
      BY TreeAssumption, FS_Interval DEF Nodes
    <3> QED
      BY <1>2, <3>1, FreeFinite, FS_Subset
  <2>2. \E f \in S!Injection(A, FreeNodes(h)) : TRUE
    BY <2>1, InjectionExists DEF FreeCount
  <2> QED
    BY <2>2, Zenon
<1>4. new \in [A -> FreeNodes(h)] /\ \A a, b \in A : new[a] = new[b] => a = b
  BY <1>3 DEF S!Injection, S!IsInjective
<1> HIDE DEF new
<1>5. \A a \in A : new[a] \in copies /\ Of(new[a]) = a
  BY <1>4
<1>6. \A c \in copies : Of(c) \in A
  BY <1>4
<1>7. FreeNodes(h) \subseteq Nodes
  BY DEF FreeNodes
<1>8. copies \subseteq Nodes
  BY <1>4, <1>7
<1>9. /\ h.kids \in [Nodes -> [Names -> Nodes \cup {None}]]
      /\ h.node \in [Nodes -> Files \cup {Dir, Free}]
  BY <1>2 DEF Typed
<1>10. \A c \in Nodes : (\A a \in A : c # new[a]) => c \notin copies
  OBVIOUS
<1> HIDE DEF Of, copies, A
<1>11. \A m \in A, x \in Names : Kid(m, x) \in Nodes \cup {None}
  BY <1>2, <1>4, <1>7
<1> HIDE DEF Kid
<1>12. node \in [Nodes -> Files \cup {Dir, Free}]
  BY <1>2, <1>6, <1>9
<1>13. kids \in [Nodes -> [Names -> Nodes \cup {None}]]
  BY <1>6, <1>9, <1>11
<1>14. ASSUME NEW a \in A, NEW x \in Names
       PROVE  node[new[a]] = h.node[a] /\ kids[new[a]][x] = Kid(a, x)
  BY <1>5, <1>8, <1>14
<1>15. \A c \in Nodes : c \notin copies => node[c] = h.node[c] /\ kids[c] = h.kids[c]
  OBVIOUS
<1>16. ASSUME NEW a \in A PROVE node[new[a]] = h.node[a]
  BY <1>5, <1>8, <1>16
<1> HIDE DEF node, kids
<1>17. g.node = node /\ g.kids = kids
  OBVIOUS
<1> HIDE DEF g
<1>18. Typed(g)
  BY <1>12, <1>13, <1>17 DEF Typed
<1>19. IsCopy(g, h, n, new)
  BY <1>4, <1>10, <1>14, <1>15, <1>16, <1>17, <1>18 DEF IsCopy, A, Kid
<1>20. Copy(h, n).h = g /\ Copy(h, n).n = new[n]
  BY <1>1
<1> QED
  BY <1>19, <1>20

LEMMA CopyLinked ==
  ASSUME NEW h, Linked(h), OneParent(h, Nodes), NEW n \in InUse(h), NoParent(h, n),
         NEW g, NEW new, IsCopy(g, h, n, new)
  PROVE  /\ Linked(g) /\ OneParent(g, Nodes) /\ InUse(h) \subseteq InUse(g)
         /\ new[n] \in InUse(g)
         /\ \A k \in InUse(h) : NoParent(h, k) => NoParent(g, k)
<1> DEFINE A == Has(h, n)
           copies == {new[a] : a \in A}
<1>1. /\ Typed(h) /\ Typed(g) /\ n \in Nodes /\ n \in A /\ A \subseteq InUse(h) /\ InUse(h) \subseteq Nodes
      /\ \A m \in A, x \in Names : h.kids[m][x] # None => h.kids[m][x] \in A
  <2>1. Closed(h, InUse(h))
    BY DEF Closed, Linked, NoDangling, InUse
  <2> QED
    BY <2>1, HasClosed, HasLeast DEF Linked, InUse, Closed, IsCopy
<1>2. /\ \A a \in A : new[a] \in FreeNodes(h)
      /\ \A a, b \in A : new[a] = new[b] => a = b
      /\ \A a \in A : g.node[new[a]] = h.node[a]
      /\ \A a \in A, x \in Names :
           g.kids[new[a]][x] = IF h.kids[a][x] = None THEN None ELSE new[h.kids[a][x]]
      /\ \A c \in Nodes : c \notin copies => g.node[c] = h.node[c] /\ g.kids[c] = h.kids[c]
  BY DEF IsCopy
<1>3. \A c : c \in copies <=> \E a \in A : c = new[a]
  OBVIOUS
<1> HIDE DEF A, copies
<1>4. \A c \in copies : c \in FreeNodes(h) /\ c \in Nodes /\ c \notin InUse(h) /\ NoParent(h, c) /\ c # None
  BY <1>2, <1>3, FreeAlone, TreeAssumption DEF InUse
<1>5. InUse(g) = InUse(h) \cup copies
  <2>1. \A c \in copies : g.node[c] # Free
    BY <1>1, <1>2, <1>3 DEF InUse, FreeNodes
  <2> QED
    BY <1>2, <1>4, <2>1 DEF InUse, FreeNodes
<1>6. ASSUME NEW c \in Nodes, NEW x \in Names, g.kids[c][x] # None
      PROVE  \/ c \notin copies /\ g.kids[c][x] = h.kids[c][x] /\ g.kids[c][x] \notin copies
             \/ \E a \in A : /\ c = new[a] /\ h.kids[a][x] \in A /\ h.kids[a][x] # None
                             /\ g.kids[c][x] = new[h.kids[a][x]] /\ g.kids[c][x] \in copies
  <2>1. CASE c \in copies
    BY <1>1, <1>2, <1>3, <1>6, <2>1
  <2>2. CASE c \notin copies
    BY <1>2, <1>4, <1>6, <2>2 DEF NoParent
  <2> QED
    BY <2>1, <2>2
<1>7. OnlyDirs(g)
  <2> SUFFICES ASSUME NEW c \in Nodes, ~IsDir(g, c) PROVE g.kids[c] = NoKids
    BY DEF OnlyDirs
  <2>1. CASE c \in copies
    <3>1. PICK a \in A : c = new[a]
      BY <1>3, <2>1
    <3>2. h.kids[a] = NoKids
      BY <1>1, <1>2, <3>1 DEF IsDir, Linked, OnlyDirs
    <3>3. \A x \in Names : g.kids[c][x] = None
      BY <1>2, <3>1, <3>2 DEF NoKids
    <3> QED
      BY <1>1, <3>3 DEF Typed, NoKids
  <2>2. CASE c \notin copies
    BY <1>2, <2>2 DEF IsDir, Linked, OnlyDirs
  <2> QED
    BY <2>1, <2>2
<1>8. NoDangling(g)
  <2> SUFFICES ASSUME NEW c \in Nodes, NEW x \in Names, g.kids[c][x] # None
               PROVE  g.kids[c][x] \in InUse(g)
    BY DEF NoDangling
  <2> QED
    BY <1>5, <1>6 DEF Linked, NoDangling
<1>9. OneParent(g, Nodes)
  <2> SUFFICES ASSUME NEW a \in Nodes, NEW b \in Nodes, NEW x \in Names, NEW y \in Names,
                      g.kids[a][x] # None, g.kids[a][x] = g.kids[b][y]
               PROVE  a = b /\ x = y
    BY DEF OneParent
  <2>1. CASE a \notin copies
    <3>1. b \notin copies /\ h.kids[a][x] # None /\ h.kids[a][x] = h.kids[b][y]
      BY <1>3, <1>6, <2>1
    <3> QED
      BY <3>1 DEF OneParent
  <2>2. CASE a \in copies
    <3>1. PICK k \in A : /\ a = new[k] /\ h.kids[k][x] \in A /\ h.kids[k][x] # None
                         /\ g.kids[a][x] = new[h.kids[k][x]] /\ g.kids[a][x] \in copies
      BY <1>6, <2>2
    <3>2. PICK l \in A : b = new[l] /\ h.kids[l][y] \in A /\ g.kids[b][y] = new[h.kids[l][y]]
      BY <1>6, <3>1
    <3>3. h.kids[k][x] = h.kids[l][y]
      BY <1>2, <3>1, <3>2
    <3>4. k = l /\ x = y
      BY <1>1, <3>1, <3>3 DEF OneParent
    <3> QED
      BY <3>1, <3>2, <3>4
  <2> QED
    BY <2>1, <2>2
<1>10. ASSUME NEW k \in InUse(h), NoParent(h, k) PROVE NoParent(g, k)
  BY <1>1, <1>4, <1>6, <1>10, TreeAssumption DEF NoParent
<1>11. ASSUME NEW k \in InUse(h) PROVE Has(g, k) \subseteq InUse(h) /\ Has(g, k) \subseteq Has(h, k)
  <2>1. Closed(h, InUse(h))
    BY DEF Closed, Linked, NoDangling, InUse
  <2>2. Has(h, k) \subseteq InUse(h) /\ k \in Nodes
    BY <1>1, <2>1, HasLeast
  <2>3. \A a \in Has(h, k), x \in Names : g.kids[a][x] # None => g.kids[a][x] = h.kids[a][x]
    BY <1>1, <1>2, <1>4, <2>2
  <2>4. Has(g, k) \subseteq Has(h, k)
    BY <1>1, <2>2, <2>3, HasFewer
  <2> QED
    BY <2>2, <2>4
<1>12. ASSUME NEW a \in A PROVE Has(g, new[a]) \subseteq {new[b] : b \in Has(h, a)}
  <2> DEFINE C == {new[b] : b \in Has(h, a)}
  <2>1. a \in Nodes /\ a \in Has(h, a) /\ Has(h, a) \subseteq A
    BY <1>1, HasClosed, HasTransitive DEF A
  <2>2. ASSUME NEW c \in C, NEW x \in Names, g.kids[c][x] # None PROVE g.kids[c][x] \in C
    <3>1. PICK b \in Has(h, a) : c = new[b]
      OBVIOUS
    <3>2. h.kids[b][x] # None /\ g.kids[c][x] = new[h.kids[b][x]]
      BY <1>2, <2>1, <2>2, <3>1
    <3>3. h.kids[b][x] \in Has(h, a)
      BY <1>1, <2>1, <3>2, HasChild
    <3> QED
      BY <3>2, <3>3
  <2>3. Closed(g, C) /\ new[a] \in C
    BY <2>1, <2>2 DEF Closed
  <2> HIDE DEF C
  <2>4. Has(g, new[a]) \subseteq C
    BY <2>3, HasLeast
  <2> QED
    BY <2>4 DEF C
<1>13. NoCycle(g)
  <2> SUFFICES ASSUME NEW c \in Nodes, NEW x \in Names, g.kids[c][x] # None,
                      c \in Has(g, g.kids[c][x])
               PROVE  FALSE
    BY DEF NoCycle
  <2>1. CASE c \in copies
    <3>1. PICK a \in A : /\ c = new[a] /\ h.kids[a][x] \in A /\ h.kids[a][x] # None
                         /\ g.kids[c][x] = new[h.kids[a][x]]
      BY <1>6, <2>1
    <3>2. PICK b \in Has(h, h.kids[a][x]) : c = new[b]
      BY <1>12, <3>1
    <3>3. a \in Nodes /\ h.kids[a][x] \in Nodes /\ Has(h, h.kids[a][x]) \subseteq A
      BY <1>1, <3>1, HasTransitive DEF A
    <3>4. a = b
      <4>1. b \in A /\ new[a] = new[b]
        BY <3>1, <3>2, <3>3
      <4> QED
        BY <1>2, <4>1
    <3> QED
      BY <3>1, <3>2, <3>3, <3>4 DEF Linked, NoCycle
  <2>2. CASE c \notin copies
    <3>1. g.kids[c][x] = h.kids[c][x]
      BY <1>2, <2>2
    <3>2. g.kids[c][x] \in InUse(h)
      BY <3>1 DEF Linked, NoDangling
    <3>3. c \in Has(h, h.kids[c][x])
      BY <1>11, <3>1, <3>2
    <3> QED
      BY <3>1, <3>3 DEF Linked, NoCycle
  <2> QED
    BY <2>1, <2>2
<1>14. new[n] \in InUse(g)
  BY <1>1, <1>3, <1>5
<1> QED
  BY <1>1, <1>5, <1>7, <1>8, <1>9, <1>10, <1>13, <1>14 DEF Linked

-----------------------------------------------------------------------------
(* Calls *)

LEMMA InvIs ==
  ASSUME TreeInv
  PROVE  /\ Linked(heap) /\ Typed(heap) /\ OneParent(heap, Nodes) /\ Held(heap, tree, sub)
         /\ Sound(heap, tree, sub)
         /\ tree \in InUse(heap) /\ NoParent(heap, tree) /\ tree # None
         /\ sub # None => sub \in InUse(heap)
         /\ sub # None => NoParent(heap, sub) \/ sub \in Has(heap, tree)
         /\ InUse(heap) \subseteq Nodes /\ None \notin InUse(heap)
         /\ Depth \in Nat /\ FreeCount(heap) \in Nat
<1>1. /\ Linked(heap) /\ OneParent(heap, Nodes) /\ Held(heap, tree, sub)
      /\ sub # None => NoParent(heap, sub) \/ sub \in Has(heap, tree)
  BY DEF TreeInv, Shape
<1>2. Sound(heap, tree, sub)
  BY <1>1, SoundIf
<1> QED
  BY <1>1, <1>2, FreeFinite, TreeAssumption DEF Held, Linked, InUse

\* A node that nobody else holds, or that is forgotten afterwards, can be set.
LEMMA SetSound ==
  ASSUME NEW h, Linked(h), OneParent(h, Nodes), NEW t, NEW s, Held(h, t, s),
         NEW c \in InUse(h), c # t, ~Related(h, t, c) => NoParent(h, c),
         NEW p, p = <<>> => s = None \/ (NoParent(h, c) /\ c # s),
         FreeCount(h) >= Depth,
         NEW r, r = Set(h, t, p, c)
  PROVE  /\ r.result \in {"ok", "error", "panic"}
         /\ r.result # "ok" => r.h = h
         /\ r.result = "ok" => Sound(r.h, t, s)
<1>1. /\ t \in InUse(h) /\ NoParent(h, t) /\ s \in InUse(h) \cup {None}
      /\ t \in Nodes /\ c \in Nodes /\ Typed(h)
  BY DEF Held, InUse, Linked
<1>2. CASE p \notin Paths
  <2>1. r = [h |-> h, result |-> "error"]
    BY <1>2, SetCases
  <2> QED
    BY <2>1
<1>3. CASE p = <<>>
  <2> DEFINE g == Put(h, t, h.node[c], h.kids[c])
  <2>1. r = [h |-> g, result |-> "ok"]
    BY <1>3, SetCases
  <2>2. r.h = g /\ r.result = "ok" /\ g = Put(h, t, h.node[c], h.kids[c])
    BY <2>1
  <2> HIDE DEF g
  <2>3. /\ Linked(g) /\ InUse(g) = InUse(h)
        /\ \A k : NoParent(h, k) => NoParent(g, k)
        /\ OneParent(g, Nodes \ {c}) /\ c \notin Has(g, t)
    BY <1>1, <2>2, SetRoot
  <2>4. Held(g, t, s)
    BY <1>1, <2>3 DEF Held
  <2>5. s # None => c \notin Has(g, s)
    BY <1>1, <1>3, <2>3, NoParentHas DEF Linked, InUse
  <2>6. Live(g, t, s) \subseteq Nodes \ {c}
    <3>1. Live(g, t, s) \subseteq Nodes
      BY <2>3, <2>4, LiveIs DEF InUse
    <3>2. c \notin Live(g, t, s)
      BY <2>3, <2>5 DEF Live
    <3> QED
      BY <3>1, <3>2
  <2>7. OneParent(g, Live(g, t, s))
    BY <2>3, <2>6 DEF OneParent
  <2> QED
    BY <2>2, <2>3, <2>4, <2>7 DEF Sound
<1>4. CASE p \in Paths /\ p # <<>>
  <2>1. FreeCount(h) >= Len(p) - 1
    BY <1>4, PathLen, FreeFinite, TreeAssumption
  <2>2. /\ r.result \in {"ok", "error", "panic"}
        /\ r.result # "ok" => r.h = h
        /\ r.result = "ok" =>
             /\ Linked(r.h) /\ OneParent(r.h, Nodes) /\ InUse(h) \subseteq InUse(r.h)
             /\ \A k \in InUse(h) : k # c /\ NoParent(h, k) => NoParent(r.h, k)
    BY <1>1, <1>4, <2>1, SetInto
  <2>3. ASSUME r.result = "ok" PROVE Sound(r.h, t, s)
    <3>1. Held(r.h, t, s)
      BY <1>1, <2>2, <2>3 DEF Held
    <3> QED
      BY <2>2, <2>3, <3>1, SoundIf
  <2> QED
    BY <2>2, <2>3
<1> QED
  BY <1>2, <1>3, <1>4

LEMMA InitTree ==
  Init => TreeInv
<1> SUFFICES ASSUME Init PROVE TreeInv
  OBVIOUS
<1>1. /\ heap.node = [n \in Nodes |-> IF n = 1 THEN Dir ELSE Free]
      /\ heap.kids = [n \in Nodes |-> NoKids]
      /\ tree = 1 /\ sub = None /\ 1 \in Nodes
  BY TreeAssumption DEF Init, Nodes
<1>2. \A x \in Names : NoKids[x] = None
  BY DEF NoKids
<1>3. \A n \in Nodes, x \in Names : heap.kids[n][x] = None
  BY <1>1, <1>2
<1>4. Typed(heap)
  BY <1>1 DEF Typed, NoKids
<1>5. 1 \in InUse(heap)
  BY <1>1, TreeAssumption DEF InUse, FreeNodes
<1>6. Linked(heap)
  BY <1>1, <1>3, <1>4 DEF Linked, OnlyDirs, NoDangling, NoCycle
<1>7. Held(heap, tree, sub)
  BY <1>1, <1>3, <1>5, TreeAssumption DEF Held, NoParent
<1> QED
  BY <1>1, <1>3, <1>6, <1>7 DEF TreeInv, Shape, OneParent

LEMMA SetNewTree ==
  ASSUME TreeInv, NEW p \in Paths, NEW v \in Files \cup {Dir}, SetNew(p, v)
  PROVE  TreeInv'
<1> DEFINE c == NewNode(heap)
           h == New(heap, v)
           r == Set(h, tree, p, c)
<1>1. FreeCount(heap) >= Depth + 1 /\ Returns(r, tree, sub)
  BY DEF SetNew, Room, FreeCount
<1>2. c \in FreeNodes(heap) /\ IsNew(h, heap, c, v) /\ FreeCount(h) = FreeCount(heap) - 1
  BY <1>1, InvIs, NewIsNew
<1>3. c \notin InUse(heap) /\ c \in Nodes /\ NoParent(heap, c)
  BY <1>2, InvIs, FreeAlone DEF InUse
<1> HIDE DEF c, h, r
<1>4. /\ Linked(h) /\ InUse(h) = InUse(heap) \cup {c}
      /\ \A n : NoParent(heap, n) => NoParent(h, n)
      /\ OneParent(h, Nodes)
  BY <1>2, InvIs, NewLinked
<1>5. Held(h, tree, sub) /\ NoParent(h, c) /\ c # tree /\ c # sub /\ c \in InUse(h)
  BY <1>3, <1>4, InvIs, TreeAssumption DEF Held
<1>6. FreeCount(h) >= Depth
  BY <1>1, <1>2, InvIs
<1>7. /\ r.result # "ok" => r.h = h
      /\ r.result = "ok" => Sound(r.h, tree, sub)
  BY <1>4, <1>5, <1>6, SetSound DEF r
<1>8. Sound(h, tree, sub)
  BY <1>4, <1>5, SoundIf
<1> QED
  BY <1>1, <1>7, <1>8, ReturnsInv

LEMMA SetSubTree ==
  ASSUME TreeInv, NEW p \in Paths, SetSub(p)
  PROVE  TreeInv'
<1> DEFINE r == Set(heap, tree, p, sub)
           s == IF r.result = "ok" THEN None ELSE sub
<1>1. FreeCount(heap) >= Depth /\ sub # None /\ sub # tree /\ Returns(r, tree, s)
  BY DEF SetSub, Room, FreeCount
<1>2. Held(heap, tree, None)
  BY InvIs DEF Held
<1>3. ~Related(heap, tree, sub) => NoParent(heap, sub)
  BY <1>1, InvIs, HasVia DEF Related
<1> HIDE DEF r
<1>4. /\ r.result # "ok" => r.h = heap
      /\ r.result = "ok" => Sound(r.h, tree, None)
  BY <1>1, <1>2, <1>3, InvIs, SetSound DEF r
<1>5. Sound(r.h, tree, s)
  BY <1>4, InvIs
<1> QED
  BY <1>1, <1>5, ReturnsInv

LEMMA SetInSubTree ==
  ASSUME TreeInv, NEW p \in Paths, SetInSub(p)
  PROVE  TreeInv'
<1> DEFINE r == Set(heap, sub, p, tree)
<1>1. /\ FreeCount(heap) >= Depth /\ sub # None /\ sub # tree /\ p # <<>>
      /\ IF r.result = "ok" THEN Returns(r, sub, None) ELSE Returns(r, tree, sub)
  BY DEF SetInSub, Room, FreeCount
<1>2. FreeCount(heap) >= Len(p) - 1
  BY <1>1, InvIs, PathLen
<1>3. /\ r.result # "ok" => r.h = heap
      /\ r.result = "ok" =>
           /\ Linked(r.h) /\ OneParent(r.h, Nodes) /\ InUse(heap) \subseteq InUse(r.h)
           /\ \A k \in InUse(heap) : k # tree /\ NoParent(heap, k) => NoParent(r.h, k)
           /\ sub \notin Has(heap, tree)
  BY <1>1, <1>2, InvIs, SetInto
<1> HIDE DEF r
<1>4. CASE r.result = "ok"
  <2>1. Held(r.h, sub, None)
    BY <1>1, <1>3, <1>4, InvIs DEF Held
  <2>2. Sound(r.h, sub, None)
    BY <1>3, <1>4, <2>1, SoundIf
  <2> QED
    BY <1>1, <1>4, <2>2, ReturnsInv
<1>5. CASE r.result # "ok"
  BY <1>1, <1>3, <1>5, InvIs, ReturnsInv
<1> QED
  BY <1>4, <1>5

LEMMA MkdirTree ==
  ASSUME TreeInv, NEW p \in Paths, Mkdir(p)
  PROVE  TreeInv'
<1> DEFINE mk == MkdirAll(heap, tree, p)
           r == [h |-> mk.h, result |-> IF mk.ok THEN "ok" ELSE "error"]
<1>1. FreeCount(heap) >= Depth /\ Returns(r, tree, sub)
  BY DEF Mkdir, Room, FreeCount
<1>2. r.h = mk.h
  OBVIOUS
<1> HIDE DEF mk, r
<1>3. FreeCount(heap) >= Len(p) /\ Len(p) \in Nat /\ p \in [1..Len(p) -> Names]
  BY <1>1, InvIs, PathLen
<1>4. MkdirInv(mk, heap, tree, Len(p))
  BY <1>3, InvIs, MkdirAllInv DEF mk
<1>5. Grows(mk.h, heap, tree)
  BY <1>4 DEF MkdirInv
<1>6. Held(mk.h, tree, sub)
  BY <1>5, InvIs DEF Grows, Held
<1>7. Sound(mk.h, tree, sub)
  BY <1>5, <1>6, SoundIf DEF Grows
<1> QED
  BY <1>1, <1>2, <1>7, ReturnsInv

LEMMA GetTree ==
  ASSUME TreeInv, NEW p \in Paths, Get(p)
  PROVE  TreeInv'
<1> DEFINE n == Down(heap, tree, p)
           bad == [h |-> heap, result |-> "error"]
           ok == [h |-> heap, result |-> "ok"]
<1>1. IF n = None THEN Returns(bad, tree, sub) ELSE Returns(ok, tree, n)
  BY DEF Get
<1>2. bad.h = heap /\ ok.h = heap
  OBVIOUS
<1> HIDE DEF n, bad, ok
<1>3. n \in Has(heap, tree) \cup {None}
  BY InvIs, PathLen, DownHas DEF n
<1>4. Has(heap, tree) \subseteq InUse(heap)
  <2>1. Live(heap, tree, None) = Has(heap, tree) /\ Held(heap, tree, None)
    BY InvIs DEF Live, Held
  <2> QED
    BY <2>1, InvIs, LiveIs
<1>5. Held(heap, tree, n)
  BY <1>3, <1>4, InvIs DEF Held
<1>6. Sound(heap, tree, n)
  BY <1>5, InvIs, SoundIf
<1> QED
  BY <1>1, <1>2, <1>6, InvIs, ReturnsInv

LEMMA RemovePathTree ==
  ASSUME TreeInv, NEW p \in Paths, RemovePath(p)
  PROVE  TreeInv'
<1> DEFINE r == Remove(heap, tree, p)
           bad == [h |-> heap, result |-> "error"]
           ok == [h |-> r.h, result |-> "ok"]
<1>1. /\ FreeCount(heap) >= 1
      /\ IF r.n = None THEN Returns(bad, tree, sub) ELSE Returns(ok, tree, r.n)
  BY DEF RemovePath, Room, FreeCount
<1>2. bad.h = heap /\ ok.h = r.h
  OBVIOUS
<1>3. r.n # None => Removed(r.h, heap, tree, r.n)
  BY <1>1, InvIs, RemoveIs
<1> HIDE DEF r, bad, ok
<1>4. r.n # None => Held(r.h, tree, r.n)
  BY <1>3, InvIs DEF Removed, Held
<1>5. r.n # None => Sound(r.h, tree, r.n)
  BY <1>3, <1>4, SoundIf DEF Removed
<1> QED
  BY <1>1, <1>2, <1>5, InvIs, ReturnsInv

LEMMA RenameCases ==
  ASSUME NEW h, NEW n, NEW from, NEW to, NEW m, m = Remove(h, n, from), NEW set, set = Set(m.h, n, to, m.n),
         NEW r, r = Rename(h, n, from, to)
  PROVE  \/ m.n = None /\ r = [h |-> h, result |-> "error"]
         \/ m.n # None /\ set.result # "error" /\ r = set
         \/ m.n # None /\ set.result = "error" /\ r = PutBack(set.h, n, from, m.n)
<1>1. r = CASE m.n = None -> [h |-> h, result |-> "error"]
            [] m.n # None /\ set.result # "error" -> set
            [] OTHER -> PutBack(set.h, n, from, m.n)
  BY Zenon DEF Rename
<1> DEFINE bad == [h |-> h, result |-> "error"]
           back == PutBack(set.h, n, from, m.n)
<1> HIDE DEF bad, back
<1>2. r = CASE m.n = None -> bad [] m.n # None /\ set.result # "error" -> set [] OTHER -> back
  BY <1>1 DEF bad, back
<1>3. \/ m.n = None /\ r = bad
      \/ m.n # None /\ set.result # "error" /\ r = set
      \/ m.n # None /\ set.result = "error" /\ r = back
  BY <1>2
<1> QED
  BY <1>3 DEF bad, back

\* The node that was removed is nobody's child, whether it is set in the new place or put
\* back in the old one.
LEMMA RenamePathTree ==
  ASSUME TreeInv, NEW from \in Paths, NEW to, RenamePath(from, to)
  PROVE  TreeInv'
<1> DEFINE m == Remove(heap, tree, from)
           set == Set(m.h, tree, to, m.n)
           r == Rename(heap, tree, from, to)
           again == Set(set.h, tree, from, m.n)
<1>1. /\ FreeCount(heap) >= Depth + 1 /\ Returns(r, tree, sub)
      /\ Down(heap, tree, from) # None /\ to = <<>> => Down(heap, tree, from) # sub
  BY DEF RenamePath, Room, FreeCount
<1>2. /\ m.n # None => Removed(m.h, heap, tree, m.n)
      /\ m.n # None /\ from # <<>> => m.n = Down(heap, tree, from)
      /\ m.n # None /\ from = <<>> => m.n \notin InUse(heap)
  BY <1>1, InvIs, RemoveIs
<1>3. \/ m.n = None /\ r = [h |-> heap, result |-> "error"]
      \/ m.n # None /\ set.result # "error" /\ r = set
      \/ m.n # None /\ set.result = "error" /\ r = PutBack(set.h, tree, from, m.n)
  BY RenameCases
<1>4. PutBack(set.h, tree, from, m.n) =
        [h |-> again.h, result |-> IF again.result = "ok" THEN "error" ELSE "bug"]
  BY DEF PutBack
<1> HIDE DEF m, set, r, again
<1>5. CASE m.n = None
  <2>1. r.h = heap
    BY <1>3, <1>5
  <2> QED
    BY <1>1, <2>1, InvIs, ReturnsInv
<1>6. CASE m.n # None
  <2> DEFINE g == m.h
             c == m.n
  <2>1. /\ Linked(g) /\ OneParent(g, Nodes)
        /\ c \in InUse(g) /\ c # tree /\ NoParent(g, c)
    BY <1>2, <1>6 DEF Removed
  <2>2. Held(g, tree, sub)
    BY <1>2, <1>6, InvIs DEF Removed, Held
  <2>3. FreeCount(g) >= Depth
    BY <1>1, <1>2, <1>6, InvIs, FreeFinite DEF Removed
  <2>4. to = <<>> => sub = None \/ (NoParent(g, c) /\ c # sub)
    BY <1>1, <1>2, <1>6, <2>1, InvIs
  <2>5. from = <<>> => sub = None \/ (NoParent(g, c) /\ c # sub)
    BY <1>2, <1>6, <2>1, InvIs
  <2>6. /\ set.result \in {"ok", "error", "panic"}
        /\ set.result # "ok" => set.h = g
        /\ set.result = "ok" => Sound(set.h, tree, sub)
    BY <2>1, <2>2, <2>3, <2>4, SetSound DEF set
  <2>7. CASE set.result # "error"
    <3>1. r = set
      BY <1>3, <1>6, <2>7
    <3>2. Sound(g, tree, sub)
      BY <2>1, <2>2, SoundIf
    <3> QED
      BY <1>1, <2>6, <2>7, <3>1, <3>2, ReturnsInv
  <2>8. CASE set.result = "error"
    <3>1. r = [h |-> again.h, result |-> IF again.result = "ok" THEN "error" ELSE "bug"]
      BY <1>3, <1>4, <1>6, <2>8
    <3>2. again = Set(g, tree, from, c)
      BY <2>6, <2>8 DEF again
    <3>3. /\ again.result # "ok" => again.h = g
          /\ again.result = "ok" => Sound(again.h, tree, sub)
      BY <2>1, <2>2, <2>3, <2>5, <3>2, SetSound
    <3>4. Sound(g, tree, sub)
      BY <2>1, <2>2, SoundIf
    <3>5. r.h = again.h
      BY <3>1
    <3> QED
      BY <1>1, <3>3, <3>4, <3>5, ReturnsInv
  <2> QED
    BY <2>7, <2>8
<1> QED
  BY <1>5, <1>6

LEMMA CopyTreeTree ==
  ASSUME TreeInv, CopyTree
  PROVE  TreeInv'
<1> DEFINE c == Copy(heap, tree)
           r == [h |-> c.h, result |-> "ok"]
<1>1. FreeCount(heap) >= Cardinality(Has(heap, tree)) /\ Returns(r, tree, c.n)
  BY DEF CopyTree, Room, FreeCount
<1>2. r.h = c.h
  OBVIOUS
<1> HIDE DEF r
<1>3. PICK new : IsCopy(c.h, heap, tree, new) /\ c.n = new[tree]
  BY <1>1, InvIs, CopyIs
<1> HIDE DEF c
<1>4. /\ Linked(c.h) /\ OneParent(c.h, Nodes) /\ InUse(heap) \subseteq InUse(c.h)
      /\ new[tree] \in InUse(c.h)
      /\ \A k \in InUse(heap) : NoParent(heap, k) => NoParent(c.h, k)
  BY <1>3, InvIs, CopyLinked
<1>5. Held(c.h, tree, c.n)
  BY <1>3, <1>4, InvIs DEF Held
<1>6. Sound(c.h, tree, c.n)
  BY <1>4, <1>5, SoundIf
<1> QED
  BY <1>1, <1>2, <1>6, ReturnsInv

LEMMA PruneTreeTree ==
  ASSUME TreeInv, PruneTree
  PROVE  TreeInv'
<1> DEFINE g == RemoveEmptyDirs(heap, tree)
           r == [h |-> g, result |-> "ok"]
<1>1. Returns(r, tree, sub)
  BY DEF PruneTree
<1>2. r.h = g
  OBVIOUS
<1> HIDE DEF r
<1>3. /\ Typed(g) /\ g.node = heap.node
      /\ \A a \in Nodes, x \in Names : g.kids[a][x] # None => g.kids[a][x] = heap.kids[a][x]
  BY InvIs, RemoveEmptyDirsIs
<1> HIDE DEF g
<1>4. /\ Linked(g) /\ OneParent(g, Nodes) /\ InUse(g) = InUse(heap)
      /\ \A k \in Nodes : NoParent(heap, k) => NoParent(g, k)
  BY <1>3, InvIs, FewerLinked
<1>5. Held(g, tree, sub)
  BY <1>4, InvIs DEF Held
<1>6. Sound(g, tree, sub)
  BY <1>4, <1>5, SoundIf
<1> QED
  BY <1>1, <1>2, <1>6, ReturnsInv

LEMMA DropTree ==
  ASSUME TreeInv, Drop
  PROVE  TreeInv'
<1> DEFINE r == [h |-> heap, result |-> "ok"]
<1>1. Returns(r, tree, None) /\ r.h = heap
  BY DEF Drop
<1> HIDE DEF r
<1>2. Sound(heap, tree, None)
  <2>1. Held(heap, tree, None)
    BY InvIs DEF Held
  <2> QED
    BY <2>1, InvIs, SoundIf
<1> QED
  BY <1>1, <1>2, ReturnsInv

\* Whatever is set, moved, copied, removed and forgotten, the nodes make trees.
THEOREM TreeInvariant ==
  Spec => []TreeInv
<1>1. Init => TreeInv
  BY InitTree
<1>2. TreeInv /\ [Next]_vars => TreeInv'
  <2> SUFFICES ASSUME TreeInv, [Next]_vars PROVE TreeInv'
    OBVIOUS
  <2>1. ASSUME NEW p \in Paths, NEW v \in Files \cup {Dir}, SetNew(p, v) PROVE TreeInv'
    BY <2>1, SetNewTree
  <2>2. ASSUME NEW p \in Paths, SetSub(p) PROVE TreeInv'
    BY <2>2, SetSubTree
  <2>3. ASSUME NEW p \in Paths, SetInSub(p) PROVE TreeInv'
    BY <2>3, SetInSubTree
  <2>4. ASSUME NEW p \in Paths, Mkdir(p) PROVE TreeInv'
    BY <2>4, MkdirTree
  <2>5. ASSUME NEW p \in Paths, Get(p) PROVE TreeInv'
    BY <2>5, GetTree
  <2>6. ASSUME NEW p \in Paths, RemovePath(p) PROVE TreeInv'
    BY <2>6, RemovePathTree
  <2>7. ASSUME NEW p \in Paths, NEW q \in Paths \cup {InvalidPath}, RenamePath(p, q) PROVE TreeInv'
    BY <2>7, RenamePathTree
  <2>8. CASE CopyTree
    BY <2>8, CopyTreeTree
  <2>9. CASE PruneTree
    BY <2>9, PruneTreeTree
  <2>10. CASE Drop
    BY <2>10, DropTree
  <2>11. CASE Ended \/ UNCHANGED vars
    BY <2>11 DEF Ended, vars, TreeInv
  <2> QED
    BY <2>1, <2>2, <2>3, <2>4, <2>5, <2>6, <2>7, <2>8, <2>9, <2>10, <2>11 DEF Next
<1> QED
  BY <1>1, <1>2, PTL DEF Spec

-----------------------------------------------------------------------------
(* A node has one path *)

LEMMA FrontPath ==
  ASSUME NEW p \in Paths, p # <<>>
  PROVE  S!Front(p) \in Paths /\ Len(S!Front(p)) + 1 = Len(p)
<1>1. /\ Len(p) \in Nat \ {0} /\ Len(S!Front(p)) = Len(p) - 1
      /\ S!Front(p) \in [1..(Len(p) - 1) -> Names]
  BY FrontIs
<1>2. Len(p) - 1 \in 0..Depth
  BY <1>1, PathLen, TreeAssumption
<1> QED
  BY <1>1, <1>2 DEF Paths

LEMMA FrontLast ==
  ASSUME NEW p \in Paths, NEW q \in Paths, p # <<>>, q # <<>>,
         S!Front(p) = S!Front(q), S!Last(p) = S!Last(q)
  PROVE  p = q
<1> DEFINE l == Len(p)
<1>1. /\ l \in Nat \ {0} /\ p \in [1..l -> Names] /\ p[l] = S!Last(p)
      /\ \A i \in 1..(l - 1) : p[i] = S!Front(p)[i]
  BY FrontIs, PathLen
<1>2. Len(q) = l
  BY FrontIs
<1>3. /\ q \in [1..l -> Names] /\ q[l] = S!Last(q)
      /\ \A i \in 1..(l - 1) : q[i] = S!Front(q)[i]
  BY <1>2, FrontIs, PathLen
<1> HIDE DEF l
<1>4. ASSUME NEW i \in 1..l PROVE p[i] = q[i]
  <2>1. i = l \/ i \in 1..(l - 1)
    BY <1>1
  <2> QED
    BY <1>1, <1>3, <2>1
<1> QED
  BY <1>1, <1>3, <1>4

\* What is below a node is not the node.
LEMMA DownBelow ==
  ASSUME NEW h, Linked(h), NEW n \in Nodes, NEW p \in Paths, p # <<>>, Down(h, n, p) # None
  PROVE  /\ Down(h, n, p) # n
         /\ Down(h, n, S!Front(p)) \in Nodes /\ S!Last(p) \in Names
         /\ Down(h, n, p) = h.kids[Down(h, n, S!Front(p))][S!Last(p)]
<1> DEFINE a == Down(h, n, S!Front(p))
           x == S!Last(p)
<1>1. a # None /\ Down(h, n, p) = h.kids[a][x]
  BY DownFront
<1>2. Typed(h) /\ x \in Names
  BY FrontIs DEF Linked
<1>3. a \in Has(h, n) \cup {None}
  BY <1>2, FrontPath, PathLen, DownHas
<1>4. a \in Has(h, n) /\ a \in Nodes
  BY <1>1, <1>2, <1>3, HasClosed
<1> HIDE DEF a, x
<1>5. h.kids[a][x] # n
  BY <1>1, <1>2, <1>4 DEF Linked, NoCycle
<1> QED
  BY <1>1, <1>2, <1>4, <1>5 DEF a, x

LEMMA OnePath ==
  ASSUME NEW h, Linked(h), OneParent(h, Nodes), NEW n \in Nodes,
         NEW p \in Paths, NEW q \in Paths, Down(h, n, p) # None, Down(h, n, p) = Down(h, n, q)
  PROVE  p = q
<1> DEFINE A == {k \in 0..Depth : \A r, s \in Paths :
                   Len(r) = k /\ Down(h, n, r) # None /\ Down(h, n, r) = Down(h, n, s) => r = s}
<1>1. 0 \in A
  <2> SUFFICES ASSUME NEW r \in Paths, NEW s \in Paths, Len(r) = 0,
                      Down(h, n, r) # None, Down(h, n, r) = Down(h, n, s)
               PROVE  r = s
    BY TreeAssumption
  <2>1. r = <<>> /\ Down(h, n, s) = n
    BY PathLen, DownEmpty
  <2> QED
    BY <2>1, DownBelow
<1>2. ASSUME NEW k \in A, k \in 0..(Depth - 1) PROVE k + 1 \in A
  <2> SUFFICES ASSUME NEW r \in Paths, NEW s \in Paths, Len(r) = k + 1,
                      Down(h, n, r) # None, Down(h, n, r) = Down(h, n, s)
               PROVE  r = s
    BY <1>2, TreeAssumption
  <2>1. r # <<>>
    BY <1>2, PathLen
  <2>2. s # <<>>
    BY <2>1, DownBelow, DownEmpty
  <2> DEFINE a == Down(h, n, S!Front(r))
             b == Down(h, n, S!Front(s))
  <2>3. /\ a \in Nodes /\ S!Last(r) \in Names /\ Down(h, n, r) = h.kids[a][S!Last(r)]
        /\ b \in Nodes /\ S!Last(s) \in Names /\ Down(h, n, s) = h.kids[b][S!Last(s)]
    BY <2>1, <2>2, DownBelow
  <2>4. a = b /\ S!Last(r) = S!Last(s)
    <3> DEFINE x == S!Last(r)
               y == S!Last(s)
    <3>1. a \in Nodes /\ b \in Nodes /\ x \in Names /\ y \in Names
      BY <2>3
    <3>2. h.kids[a][x] # None /\ h.kids[a][x] = h.kids[b][y]
      BY <2>3
    <3> HIDE DEF a, b, x, y
    <3>3. a = b /\ x = y
      BY <3>1, <3>2 DEF OneParent
    <3> QED
      BY <3>3 DEF x, y
  <2>5. S!Front(r) \in Paths /\ S!Front(s) \in Paths /\ Len(S!Front(r)) = k
    BY <1>2, <2>1, <2>2, FrontIs, FrontPath
  <2>6. S!Front(r) = S!Front(s)
    BY <1>2, <2>3, <2>4, <2>5, TreeAssumption
  <2> QED
    BY <2>1, <2>2, <2>4, <2>6, FrontLast
<1>3. 0..Depth \subseteq A
  <2> HIDE DEF A
  <2> QED
    BY <1>1, <1>2, UpTo, TreeAssumption
<1> QED
  BY <1>3, PathLen

LEMMA TreeInvShape ==
  ASSUME TreeInv
  PROVE  TreeShape
<1>1. \A n \in {tree, sub} \ {None} : n \in Nodes
  BY InvIs
<1>2. ASSUME NEW n \in {tree, sub} \ {None}, NEW p \in WalkPaths(heap, n), NEW q \in WalkPaths(heap, n),
             Down(heap, n, p) = Down(heap, n, q)
      PROVE  p = q
  BY <1>1, <1>2, InvIs, OnePath DEF WalkPaths
<1>3. ASSUME sub # None, sub \notin Has(heap, tree)
      PROVE  Has(heap, tree) \cap Has(heap, sub) = {}
  <2>1. tree \in Nodes /\ sub \in Nodes /\ NoParent(heap, sub) /\ Typed(heap)
    BY <1>3, InvIs
  <2>2. tree # sub
    BY <1>3, <2>1, HasClosed
  <2>3. tree \notin Has(heap, sub)
    BY <2>1, <2>2, InvIs, NoParentHas
  <2>4. OneParent(heap, Has(heap, tree) \cup Has(heap, sub))
    BY <2>1, InvIs, HasClosed DEF OneParent
  <2> QED
    BY <2>1, <2>3, <2>4, Disjoint
<1>4. \A n \in Nodes : ~IsDir(heap, n) => heap.kids[n] = NoKids
  BY InvIs DEF Linked, OnlyDirs
<1> QED
  BY <1>2, <1>3, <1>4 DEF TreeShape

\* A node has one place in one tree, whatever is set, moved and copied: no cycle, no
\* node that two directories share (the errors of Set, pathtree.go:115-128).
THEOREM NodesMakeTrees ==
  Spec => []TreeShape
<1>1. TreeInv => TreeShape
  BY TreeInvShape
<1> QED
  BY <1>1, TreeInvariant, PTL

-----------------------------------------------------------------------------
(* The order of a directory's entries *)

IsSorted(s, k, Y) ==
  /\ s \in [1..k -> Y]
  /\ \A y \in Y : \E i \in 1..k : s[i] = y
  /\ \A i, j \in 1..k : i < j => s[i] < s[j]

\* The least one goes first.
LEMMA SortedMore ==
  ASSUME NEW Y, Y \subseteq Nat, NEW m \in Y, \A y \in Y : m <= y, NEW k \in Nat,
         NEW s, IsSorted(s, k, Y \ {m})
  PROVE  \E t : IsSorted(t, k + 1, Y)
<1> DEFINE t == [i \in 1..(k + 1) |-> IF i = 1 THEN m ELSE s[i - 1]]
<1>1. /\ t[1] = m
      /\ \A i \in 1..k : t[i + 1] = s[i] /\ s[i] \in Y /\ m < s[i]
  <2>1. t[1] = m
    OBVIOUS
  <2>2. ASSUME NEW i \in 1..k PROVE t[i + 1] = s[i] /\ s[i] \in Y /\ m < s[i]
    <3>1. i + 1 \in 1..(k + 1) /\ i + 1 # 1 /\ i + 1 - 1 = i
      OBVIOUS
    <3>2. t[i + 1] = s[i]
      BY <3>1
    <3>3. s[i] \in Y \ {m}
      BY DEF IsSorted
    <3> DEFINE y == s[i]
    <3> HIDE DEF t, y
    <3>4. y \in Y /\ y \in Nat /\ m \in Nat /\ y # m /\ m <= y
      BY <3>3 DEF y
    <3>5. y \in Y /\ m < y
      BY <3>4
    <3> QED
      BY <3>2, <3>5 DEF y
  <2> QED
    BY <2>1, <2>2
<1>2. t \in [1..(k + 1) -> Y]
  BY DEF IsSorted
<1> HIDE DEF t
<1>3. ASSUME NEW y \in Y PROVE \E i \in 1..(k + 1) : t[i] = y
  <2>1. CASE y = m
    BY <1>1, <2>1
  <2>2. CASE y # m
    <3>1. PICK i \in 1..k : s[i] = y
      BY <2>2 DEF IsSorted
    <3> QED
      BY <1>1, <3>1
  <2> QED
    BY <2>1, <2>2
<1>4. ASSUME NEW i \in 1..(k + 1), NEW j \in 1..(k + 1), i < j PROVE t[i] < t[j]
  <2>1. PICK b \in 1..k : j = b + 1
    <3>1. j - 1 \in 1..k /\ j = j - 1 + 1
      BY <1>4
    <3> QED
      BY <3>1
  <2>2. CASE i = 1
    BY <1>1, <2>1, <2>2
  <2>3. CASE i # 1
    <3>1. PICK a \in 1..k : i = a + 1
      <4>1. i - 1 \in 1..k /\ i = i - 1 + 1
        BY <2>3, <1>4
      <4> QED
        BY <4>1
    <3>2. s[a] < s[b]
      BY <1>4, <2>1, <3>1 DEF IsSorted
    <3> QED
      BY <1>1, <2>1, <3>1, <3>2
  <2> QED
    BY <2>2, <2>3
<1> QED
  BY <1>2, <1>3, <1>4 DEF IsSorted

LEMMA SortedExists ==
  ASSUME NEW X, X \subseteq Nat, IsFiniteSet(X)
  PROVE  \E s : IsSorted(s, Cardinality(X), X)
<1> DEFINE N == Cardinality(X)
           A == {k \in 0..N : \A Y \in SUBSET X : Cardinality(Y) = k => \E s : IsSorted(s, k, Y)}
<1>1. N \in Nat
  BY FS_CardinalityType
<1>2. \A Y \in SUBSET X : IsFiniteSet(Y) /\ Cardinality(Y) \in Nat
  BY FS_Subset, FS_CardinalityType
<1> HIDE DEF N
<1>3. 0 \in A
  <2> SUFFICES ASSUME NEW Y \in SUBSET X, Cardinality(Y) = 0 PROVE \E s : IsSorted(s, 0, Y)
    BY <1>1
  <2>1. Y = {}
    BY <1>2, FS_EmptySet
  <2>2. IsSorted([i \in 1..0 |-> 0], 0, Y)
    BY <2>1 DEF IsSorted
  <2> QED
    BY <2>2
<1>4. ASSUME NEW k \in A, k \in 0..(N - 1) PROVE k + 1 \in A
  <2>0. k \in Nat
    BY <1>4
  <2> SUFFICES ASSUME NEW Y \in SUBSET X, Cardinality(Y) = k + 1 PROVE \E s : IsSorted(s, k + 1, Y)
    BY <1>1, <1>4
  <2>1. Y # {} /\ Y \subseteq Nat
    BY <1>4, <1>2, FS_EmptySet
  <2>2. PICK m \in Y : \A y \in Y : m <= y
    BY <2>1, Least
  <2>3. Cardinality(Y \ {m}) = k
    <3>1. Cardinality(Y \ {m}) = Cardinality(Y) - 1
      BY <1>2, FS_RemoveElement
    <3> QED
      BY <3>1, <1>4
  <2>4. PICK s : IsSorted(s, k, Y \ {m})
    BY <1>4, <2>3
  <2> QED
    BY <2>0, <2>1, <2>2, <2>4, SortedMore, Zenon
<1>5. 0..N \subseteq A
  <2> HIDE DEF A
  <2> QED
    BY <1>1, <1>3, <1>4, UpTo
<1>6. N \in A
  BY <1>1, <1>5
<1> QED
  BY <1>6 DEF N

\* Each child has one line.
LEMMA DirEntriesIs ==
  ASSUME TreeInv, NEW n \in Nodes
  PROVE  /\ \A i \in DOMAIN DirEntries(n) : DirEntries(n)[i] \in ChildNames(n)
         /\ \A x \in ChildNames(n) : \E i \in DOMAIN DirEntries(n) : DirEntries(n)[i] = x
         /\ \E k \in Nat : DOMAIN DirEntries(n) = 1..k
<1> DEFINE X == ChildNames(n)
           k == Cardinality(X)
           Increasing(s) == \A i, j \in DOMAIN s : i < j => s[i] < s[j]
<1>1. X \subseteq Nat /\ X \subseteq Names
  BY TreeAssumption DEF ChildNames
<1>2. IsFiniteSet(X)
  <2> DEFINE f == [x \in X |-> Child(n, x)]
  <2>1. \A x \in X : Child(n, x) \in Nodes
    BY InvIs DEF ChildNames, Child, Typed
  <2>2. \A x, y \in X : Child(n, x) = Child(n, y) => x = y
    BY InvIs DEF ChildNames, Child, OneParent
  <2>3. f \in Injection(X, Nodes)
    BY <2>1, <2>2 DEF Injection, IsInjective
  <2>4. IsFiniteSet(Nodes)
    BY TreeAssumption, FS_Interval DEF Nodes
  <2> HIDE DEF f, X
  <2> QED
    BY <2>3, <2>4, FS_Injection
<1>3. k \in Nat
  BY <1>2, FS_CardinalityType
<1>4. PICK t : IsSorted(t, k, X)
  BY <1>1, <1>2, SortedExists
<1> HIDE DEF X, k
<1>5. t \in [1..k -> X] /\ DOMAIN t = 1..k
  BY <1>4 DEF IsSorted
<1>6. \A i, j \in 1..k : t[i] = t[j] => i = j
  <2> SUFFICES ASSUME NEW i \in 1..k, NEW j \in 1..k, t[i] = t[j] PROVE i = j
    OBVIOUS
  <2>1. t[i] \in Nat /\ t[j] \in Nat
    BY <1>1, <1>5
  <2>2. ~(i < j) /\ ~(j < i)
    BY <1>4, <2>1 DEF IsSorted
  <2> QED
    BY <1>3, <2>2
<1>7. t \in S!Bijection(1..k, X) /\ Increasing(t)
  BY <1>4, <1>5, <1>6 DEF IsSorted, S!Bijection, S!Injection, S!Surjection, S!IsInjective
<1>8. DirEntries(n) = CHOOSE s \in S!Bijection(1..k, X) : Increasing(s)
  BY DEF DirEntries, X, k
<1> HIDE DEF Increasing
<1>9. DirEntries(n) \in S!Bijection(1..k, X)
  BY <1>7, <1>8, Zenon
<1>10. DirEntries(n) \in [1..k -> X]
  BY <1>9 DEF S!Bijection, S!Injection
<1>11. DOMAIN DirEntries(n) = 1..k
  BY <1>10
<1> QED
  BY <1>3, <1>9, <1>11, Zenon DEF S!Bijection, S!Injection, S!Surjection, X

-----------------------------------------------------------------------------
(* Text *)

\* The lines, one after the other.
IsFlat(f, s, k) ==
  /\ f[0] = <<>>
  /\ \A i \in 0..(k - 1) : f[i + 1] = f[i] \o s[i + 1]

Flattens(s, k, U) ==
  \E f : /\ IsFlat(f, s, k)
         /\ \A i \in 0..k : f[i] \in Seq(U)
         /\ S!FlattenSeq(s) = f[k]

LEMMA FlattenIs ==
  ASSUME NEW U, NEW k \in Nat, NEW s \in [1..k -> Seq(U)]
  PROVE  Flattens(s, k, U)
<1> DEFINE Good(f, i) == IsFlat(f, s, i)
           A == {i \in 0..k : \E f : Good(f, i)}
           Is(e) == e = [i \in 1..k |-> IF i = 1 THEN s[i] ELSE e[i - 1] \o s[i]]
           e0 == CHOOSE e : Is(e)
           h == [i \in 0..k |-> IF i = 0 THEN <<>> ELSE e0[i]]
<1>1. 0 \in A
  <2>1. Good([i \in {0} |-> <<>>], 0)
    BY DEF IsFlat
  <2> HIDE DEF Good
  <2> QED
    BY <2>1
<1>2. ASSUME NEW i \in A, i \in 0..(k - 1) PROVE i + 1 \in A
  <2>1. PICK f : Good(f, i)
    BY <1>2
  <2> DEFINE g == [j \in 0..(i + 1) |-> IF j = i + 1 THEN f[i] \o s[i + 1] ELSE f[j]]
  <2>2. g[0] = <<>>
    BY <1>2, <2>1 DEF IsFlat
  <2>3. ASSUME NEW j \in 0..i PROVE g[j + 1] = g[j] \o s[j + 1]
    <3>1. g[j] = f[j]
      BY <1>2
    <3>2. CASE j = i
      BY <3>1, <3>2
    <3>3. CASE j \in 0..(i - 1)
      <4>1. g[j + 1] = f[j + 1]
        BY <1>2, <3>3
      <4> QED
        BY <2>1, <3>1, <3>3, <4>1 DEF IsFlat
    <3>4. j = i \/ j \in 0..(i - 1)
      <4> HIDE DEF A, g
      <4> QED
        BY <1>2
    <3> QED
      BY <3>2, <3>3, <3>4
  <2>4. i + 1 - 1 = i /\ i + 1 \in 0..k
    BY <1>2
  <2> HIDE DEF g
  <2>5. IsFlat(g, s, i + 1)
    <3> DEFINE n == i + 1
    <3>1. n - 1 = i
      BY <2>4
    <3> HIDE DEF n
    <3>2. IsFlat(g, s, n)
      BY <2>2, <2>3, <3>1 DEF IsFlat
    <3> QED
      BY <3>2 DEF n
  <2>6. \E e : Good(e, i + 1)
    BY <2>5
  <2> QED
    BY <2>4, <2>6
<1>3. k \in A
  <2> HIDE DEF A
  <2>1. 0..k \subseteq A
    BY <1>1, <1>2, UpTo
  <2> QED
    BY <2>1
<1>4. PICK g : IsFlat(g, s, k)
  BY <1>3
<1>5. \E e : Is(e)
  <2> DEFINE e == [i \in 1..k |-> g[i]]
  <2>1. ASSUME NEW i \in 1..k PROVE e[i] = IF i = 1 THEN s[i] ELSE e[i - 1] \o s[i]
    <3>1. g[i - 1 + 1] = g[i - 1] \o s[i - 1 + 1] /\ i - 1 + 1 = i
      <4>1. i - 1 \in 0..(k - 1) /\ i - 1 + 1 = i
        OBVIOUS
      <4> QED
        BY <1>4, <4>1, Zenon DEF IsFlat
    <3>2. CASE i = 1
      <4>1. s[i] \in Seq(U) /\ g[0] = <<>> /\ i - 1 = 0
        BY <1>4, <3>2 DEF IsFlat
      <4>2. <<>> \o s[i] = s[i]
        BY <4>1
      <4> QED
        BY <3>1, <3>2, <4>1, <4>2
    <3>3. CASE i # 1
      <4>1. e[i - 1] = g[i - 1]
        BY <3>3
      <4> QED
        BY <3>1, <3>3, <4>1
    <3> QED
      BY <3>2, <3>3
  <2>2. e = [i \in 1..k |-> e[i]]
    OBVIOUS
  <2> HIDE DEF e
  <2>3. Is(e)
    BY <2>1, <2>2, Zenon
  <2> HIDE DEF Is
  <2> QED
    BY <2>3
<1>6. Is(e0)
  <2> HIDE DEF Is
  <2> QED
    BY <1>5, Zenon
<1>7. ASSUME NEW i \in 1..k PROVE e0[i] = IF i = 1 THEN s[i] ELSE e0[i - 1] \o s[i]
  <2> HIDE DEF e0
  <2> QED
    BY <1>6, Zenon
<1>8. S!FlattenSeq(s) = IF Len(s) = 0 THEN s ELSE e0[Len(s)]
  <2>1. Len(s) = k
    OBVIOUS
  <2>2. S!FlattenSeq(s) = IF Len(s) = 0 THEN s
                          ELSE (CHOOSE e : e = [i \in 1..Len(s) |-> IF i = 1 THEN s[i] ELSE e[i - 1] \o s[i]])[Len(s)]
    BY Zenon DEF S!FlattenSeq
  <2> QED
    BY <2>1, <2>2, Zenon
<1> HIDE DEF e0, Is
<1>9. h[0] = <<>> /\ \A i \in 1..k : h[i] = e0[i]
  OBVIOUS
<1> HIDE DEF h
<1>10. ASSUME NEW i \in 0..(k - 1) PROVE h[i + 1] = h[i] \o s[i + 1]
  <2>1. i + 1 \in 1..k /\ i + 1 - 1 = i
    OBVIOUS
  <2>2. h[i + 1] = IF i = 0 THEN s[i + 1] ELSE e0[i] \o s[i + 1]
    BY <1>7, <1>9, <2>1
  <2>3. CASE i = 0
    <3>1. s[i + 1] \in Seq(U)
      BY <2>1
    <3>2. <<>> \o s[i + 1] = s[i + 1]
      BY <3>1
    <3> QED
      BY <1>9, <2>2, <2>3, <3>2
  <2>4. CASE i # 0
    <3>1. i \in 1..k
      BY <2>4
    <3> QED
      BY <1>9, <2>2, <2>4, <3>1
  <2> QED
    BY <2>3, <2>4
<1>11. \A i \in 0..k : h[i] \in Seq(U)
  <2> DEFINE B == {i \in 0..k : h[i] \in Seq(U)}
  <2>1. 0 \in B
    <3>1. <<>> \in Seq(U) /\ 0 \in 0..k
      BY EmptySeq
    <3> QED
      BY <1>9, <3>1
  <2>2. ASSUME NEW i \in B, i \in 0..(k - 1) PROVE i + 1 \in B
    <3>1. i + 1 \in 1..k /\ s[i + 1] \in Seq(U) /\ h[i] \in Seq(U)
      BY <2>2
    <3>2. h[i] \o s[i + 1] \in Seq(U)
      BY <3>1
    <3>3. h[i + 1] \in Seq(U)
      BY <1>10, <2>2, <3>2
    <3> QED
      BY <3>1, <3>3
  <2>3. 0..k \subseteq B
    <3> HIDE DEF B
    <3> QED
      BY <2>1, <2>2, UpTo
  <2> QED
    BY <2>3
<1>12. S!FlattenSeq(s) = h[k]
  <2>1. Len(s) = k
    OBVIOUS
  <2>2. CASE k = 0
    <3>1. s = <<>>
      BY <2>2
    <3> QED
      BY <1>8, <1>9, <2>1, <2>2, <3>1
  <2>3. CASE k # 0
    <3>1. k \in 1..k
      BY <2>3
    <3> QED
      BY <1>8, <1>9, <2>1, <2>3, <3>1
  <2> QED
    BY <2>2, <2>3
<1>13. IsFlat(h, s, k)
  BY <1>9, <1>10 DEF IsFlat
<1> QED
  BY <1>11, <1>12, <1>13, Zenon DEF Flattens

\* A line has one newline, at its end.
Lines(U) ==
  {L \in Seq(U) : /\ Len(L) > 0
                  /\ L[Len(L)] = Newline
                  /\ \A j \in 1..(Len(L) - 1) : L[j] # Newline}

Whole(U) == {P \in Seq(U) : P = <<>> \/ P[Len(P)] = Newline}

LEMMA LastNotShorter ==
  ASSUME NEW U, NEW P \in Whole(U), NEW Q \in Seq(U), NEW L \in Lines(U), NEW M \in Lines(U),
         P \o L = Q \o M
  PROVE  ~(Len(L) < Len(M))
<1> SUFFICES ASSUME Len(L) < Len(M) PROVE FALSE
  OBVIOUS
<1>1. P \in Seq(U) /\ L \in Seq(U) /\ M \in Seq(U)
  BY DEF Whole, Lines
<1>2. Len(P) \in Nat /\ Len(L) \in Nat /\ Len(M) \in Nat /\ Len(Q) \in Nat
  BY <1>1
<1>3. Len(P) + Len(L) = Len(Q) + Len(M)
  <2>1. Len(P \o L) = Len(P) + Len(L) /\ Len(Q \o M) = Len(Q) + Len(M)
    BY <1>1
  <2> QED
    BY <2>1
<1>4. Len(P) # 0
  BY <1>2, <1>3
<1>5. P[Len(P)] = Newline
  BY <1>1, <1>4 DEF Whole
<1>6. (P \o L)[Len(P)] = P[Len(P)]
  BY <1>1, <1>2, <1>4
<1> DEFINE j == Len(P) - Len(Q)
<1>7. j \in 1..(Len(M) - 1) /\ Len(P) = Len(Q) + j
  <2>1. Len(L) > 0
    BY DEF Lines
  <2> QED
    BY <1>2, <1>3, <2>1
<1>8. (Q \o M)[Len(Q) + j] = M[j]
  <2> HIDE DEF j
  <2> QED
    BY <1>1, <1>2, <1>7
<1>9. M[j] # Newline
  BY <1>7 DEF Lines
<1> QED
  BY <1>5, <1>6, <1>7, <1>8, <1>9

LEMMA LastLine ==
  ASSUME NEW U, NEW P \in Whole(U), NEW Q \in Whole(U), NEW L \in Lines(U), NEW M \in Lines(U),
         P \o L = Q \o M
  PROVE  P = Q /\ L = M
<1>1. P \in Seq(U) /\ Q \in Seq(U) /\ L \in Seq(U) /\ M \in Seq(U)
  BY DEF Whole, Lines
<1>2. Len(P) \in Nat /\ Len(L) \in Nat /\ Len(M) \in Nat /\ Len(Q) \in Nat
  BY <1>1
<1>3. Len(L) = Len(M)
  <2>1. ~(Len(L) < Len(M))
    BY <1>1, LastNotShorter
  <2>2. ~(Len(M) < Len(L))
    BY <1>1, LastNotShorter
  <2> QED
    BY <1>2, <2>1, <2>2
<1>4. Len(P) = Len(Q)
  <2>1. Len(P \o L) = Len(P) + Len(L) /\ Len(Q \o M) = Len(Q) + Len(M)
    BY <1>1
  <2> QED
    BY <1>2, <1>3, <2>1
<1>5. \A i \in 1..Len(P) : P[i] = Q[i]
  <2> SUFFICES ASSUME NEW i \in 1..Len(P) PROVE P[i] = Q[i]
    OBVIOUS
  <2>1. (P \o L)[i] = P[i] /\ (Q \o M)[i] = Q[i]
    BY <1>1, <1>4
  <2> QED
    BY <2>1
<1>6. \A i \in 1..Len(L) : L[i] = M[i]
  <2> SUFFICES ASSUME NEW i \in 1..Len(L) PROVE L[i] = M[i]
    OBVIOUS
  <2>1. (P \o L)[Len(P) + i] = L[i] /\ (Q \o M)[Len(Q) + i] = M[i]
    BY <1>1, <1>2, <1>3
  <2> QED
    BY <1>4, <2>1
<1> QED
  BY <1>1, <1>3, <1>4, <1>5, <1>6, SeqEqual

FlatLines(f, s, k, U) ==
  k \in Nat /\ s \in [1..k -> Lines(U)] /\ IsFlat(f, s, k) /\ \A i \in 0..k : f[i] \in Seq(U)

Ends(f, s, k, U) ==
  \A i \in 1..k :
    f[i] = f[i - 1] \o s[i] /\ s[i] \in Lines(U) /\ f[i] # <<>> /\ f[i] \in Whole(U)

LEMMA FlatEnds ==
  ASSUME NEW U, NEW k, NEW s, NEW f, FlatLines(f, s, k, U)
  PROVE  Ends(f, s, k, U)
<1> SUFFICES ASSUME NEW i \in 1..k
             PROVE  f[i] = f[i - 1] \o s[i] /\ s[i] \in Lines(U) /\ f[i] # <<>> /\ f[i] \in Whole(U)
  BY DEF Ends
<1>0. k \in Nat /\ s \in [1..k -> Lines(U)] /\ IsFlat(f, s, k) /\ \A j \in 0..k : f[j] \in Seq(U)
  BY DEF FlatLines
<1>1. i - 1 \in 0..(k - 1) /\ i - 1 \in 0..k /\ i - 1 + 1 = i /\ i \in 0..k
  BY <1>0
<1>2. f[i] = f[i - 1] \o s[i]
  BY <1>0, <1>1 DEF IsFlat
<1> DEFINE P == f[i - 1]
           L == s[i]
<1>3. P \in Seq(U) /\ L \in Lines(U) /\ L \in Seq(U) /\ f[i] \in Seq(U)
  BY <1>0, <1>1 DEF Lines
<1> HIDE DEF P, L
<1>4. Len(P) \in Nat /\ Len(L) \in Nat /\ Len(L) > 0 /\ L[Len(L)] = Newline
  BY <1>3 DEF Lines
<1>5. Len(P \o L) = Len(P) + Len(L) /\ (P \o L)[Len(P) + Len(L)] = L[Len(L)]
  BY <1>3, <1>4
<1>6. P \o L # <<>>
  BY <1>4, <1>5
<1> QED
  BY <1>2, <1>3, <1>4, <1>5, <1>6 DEF Whole, P, L

\* Text is made from its lines in one way.
LEMMA SameLines ==
  ASSUME NEW U, NEW k \in Nat, NEW l \in Nat, NEW s \in [1..k -> Lines(U)], NEW t \in [1..l -> Lines(U)],
         S!FlattenSeq(s) = S!FlattenSeq(t)
  PROVE  k = l /\ \A i \in 1..k : s[i] = t[i]
<1>1. s \in [1..k -> Seq(U)] /\ t \in [1..l -> Seq(U)]
  BY DEF Lines
<1>2. PICK f : IsFlat(f, s, k) /\ (\A i \in 0..k : f[i] \in Seq(U)) /\ S!FlattenSeq(s) = f[k]
  <2>1. Flattens(s, k, U)
    BY <1>1, FlattenIs
  <2> QED
    BY <2>1, Zenon DEF Flattens
<1>3. PICK g : IsFlat(g, t, l) /\ (\A i \in 0..l : g[i] \in Seq(U)) /\ S!FlattenSeq(t) = g[l]
  <2>1. Flattens(t, l, U)
    BY <1>1, FlattenIs
  <2> QED
    BY <2>1, Zenon DEF Flattens
<1>4. ASSUME NEW i \in 1..k
      PROVE  f[i] = f[i - 1] \o s[i] /\ s[i] \in Lines(U) /\ f[i] # <<>> /\ f[i] \in Whole(U)
  <2>1. FlatLines(f, s, k, U)
    BY <1>2, Zenon DEF FlatLines
  <2>2. Ends(f, s, k, U)
    BY <2>1, FlatEnds
  <2> QED
    BY <2>2, Zenon DEF Ends
<1>5. ASSUME NEW j \in 1..l
      PROVE  g[j] = g[j - 1] \o t[j] /\ t[j] \in Lines(U) /\ g[j] # <<>> /\ g[j] \in Whole(U)
  <2>1. FlatLines(g, t, l, U)
    BY <1>3, Zenon DEF FlatLines
  <2>2. Ends(g, t, l, U)
    BY <2>1, FlatEnds
  <2> QED
    BY <2>2, Zenon DEF Ends
<1>6. f[0] = <<>> /\ g[0] = <<>> /\ f[0] \in Whole(U) /\ g[0] \in Whole(U)
  BY <1>2, <1>3 DEF IsFlat, Whole
<1> DEFINE Match(i, j) == f[i] = g[j] => i = j /\ \A m \in 1..i : s[m] = t[m]
           A == {i \in 0..k : \A j \in 0..l : Match(i, j)}
<1>7. 0 \in A
  BY <1>5, <1>6
<1>8. ASSUME NEW i \in A, i \in 0..(k - 1) PROVE i + 1 \in A
  <2>1. PICK n \in 1..k : n = i + 1 /\ n - 1 = i
    BY <1>8
  <2>2. ASSUME NEW j \in 0..l, f[n] = g[j] PROVE n = j /\ \A m \in 1..n : s[m] = t[m]
    <3>1. \A j0 \in 0..l : Match(i, j0)
      BY <1>8
    <3> HIDE DEF A
    <3>2. f[n] = f[i] \o s[n] /\ s[n] \in Lines(U) /\ f[n] # <<>>
      BY <1>4, <2>1
    <3>3. f[i] \in Whole(U)
      <4>1. i = 0 \/ i \in 1..k
        BY <1>8
      <4> QED
        BY <1>4, <1>6, <4>1
    <3>4. PICK o \in 0..l : j = o + 1 /\ o = j - 1 /\ j \in 1..l
      <4>1. j # 0
        BY <1>6, <2>2, <3>2
      <4>2. j - 1 \in 0..l /\ j = j - 1 + 1 /\ j \in 1..l
        BY <4>1
      <4> QED
        BY <4>2
    <3>5. g[j] = g[o] \o t[j] /\ t[j] \in Lines(U)
      BY <1>5, <3>4
    <3>6. g[o] \in Whole(U)
      <4>1. o = 0 \/ o \in 1..l
        OBVIOUS
      <4> QED
        BY <1>5, <1>6, <4>1
    <3> DEFINE P == f[i]
               Q == g[o]
               L == s[n]
               M == t[j]
    <3>7. P \in Whole(U) /\ Q \in Whole(U) /\ L \in Lines(U) /\ M \in Lines(U) /\ P \o L = Q \o M
      BY <2>2, <3>2, <3>3, <3>5, <3>6
    <3> HIDE DEF P, Q, L, M
    <3>8. P = Q /\ L = M
      BY <3>7, LastLine
    <3>9. f[i] = g[o] /\ s[n] = t[j]
      BY <3>8 DEF P, Q, L, M
    <3>10. i = o /\ \A m \in 1..i : s[m] = t[m]
      BY <3>1, <3>9
    <3>11. n = j
      BY <2>1, <3>4, <3>10
    <3>12. ASSUME NEW m \in 1..n PROVE s[m] = t[m]
      <4>1. m = n \/ m \in 1..i
        BY <1>8, <2>1
      <4> QED
        BY <3>9, <3>10, <3>11, <4>1
    <3> QED
      BY <3>11, <3>12
  <2>3. n \in A
    BY <2>2
  <2> QED
    BY <2>1, <2>3
<1>9. k \in A
  <2> HIDE DEF A
  <2> QED
    BY <1>7, <1>8, UpTo
<1>10. f[k] = g[l]
  BY <1>2, <1>3
<1> QED
  BY <1>9, <1>10

Joins(r, U, s, m, t, n) ==
  /\ r \in Seq(U) /\ m \in Nat /\ n \in Nat /\ Len(r) = m + n
  /\ \A i \in 1..m : r[i] = s[i]
  /\ \A i \in 1..n : r[m + i] = t[i]

LEMMA JoinIs ==
  ASSUME NEW U, NEW s, NEW t, NEW m, NEW n, NEW r,
         s \in Seq(U) /\ m = Len(s) /\ t \in Seq(U) /\ n = Len(t) /\ r = s \o t
  PROVE  Joins(r, U, s, m, t, n)
<1>1. r \in Seq(U) /\ m \in Nat /\ n \in Nat /\ Len(r) = m + n
  OBVIOUS
<1>2. \A i \in 1..m : r[i] = s[i]
  OBVIOUS
<1>3. \A i \in 1..n : r[m + i] = t[i]
  OBVIOUS
<1> QED
  BY <1>1, <1>2, <1>3 DEF Joins

\* What a line is, place by place.
LineParts(L, U, N, k, a, d) ==
  /\ L \in Seq(U) /\ N \in Seq(Chars) /\ k \in Nat /\ k = Len(N)
  /\ Len(L) = IF d THEN k + 4 ELSE k + 3
  /\ L[1] = Hex(a) /\ L[2] = Space
  /\ \A i \in 1..k : L[2 + i] = N[i]
  /\ d => L[k + 3] = Slash
  /\ L[Len(L)] = Newline

LEMMA LineIs ==
  ASSUME NEW a, NEW x \in Names, NEW d \in BOOLEAN,
         NEW U, Chars \cup {Space, Slash, Newline, Hex(a)} \subseteq U
  PROVE  LineParts(Line(a, x, d), U, NameText[x], Len(NameText[x]), a, d)
<1> DEFINE L == Line(a, x, d)
           N == NameText[x]
           k == Len(N)
           H == <<Hex(a), Space>>
           E == IF d THEN <<Slash>> ELSE <<>>
           Z == <<Newline>>
           A == H \o N
           B == A \o E
           e == IF d THEN 1 ELSE 0
<1>1. N \in Seq(Chars) /\ k \in Nat
  BY NameAssumption
<1>2. /\ H \in Seq(U) /\ Len(H) = 2 /\ H[1] = Hex(a) /\ H[2] = Space
      /\ Z \in Seq(U) /\ Len(Z) = 1 /\ Z[1] = Newline
  <2> HIDE DEF Hex, Space, Newline, Slash
  <2> QED
    OBVIOUS
<1>3. N \in Seq(U)
  <2>1. Chars \subseteq U
    OBVIOUS
  <2> QED
    BY <1>1, <2>1
<1>4. E \in Seq(U) /\ Len(E) = e /\ (d => E[1] = Slash)
  <2> HIDE DEF Hex, Space, Newline, Slash
  <2>1. CASE d
    BY <2>1
  <2>2. CASE ~d
    BY <2>2, EmptySeq
  <2> QED
    BY <2>1, <2>2
<1>5. L = B \o Z
  BY Zenon DEF Line
<1> HIDE DEF H, E, Z, N, L
<1>6. A \in Seq(U) /\ Len(A) = 2 + k /\ (\A i \in 1..2 : A[i] = H[i]) /\ \A i \in 1..k : A[2 + i] = N[i]
  <2> DEFINE two == 2
  <2>1. H \in Seq(U) /\ two = Len(H) /\ N \in Seq(U) /\ k = Len(N) /\ A = H \o N
    BY <1>2, <1>3
  <2> HIDE DEF k, A, two
  <2>2. Joins(A, U, H, two, N, k)
    BY <2>1, JoinIs
  <2> QED
    BY <2>2 DEF Joins, two
<1> HIDE DEF A
<1>7. B \in Seq(U) /\ Len(B) = 2 + k + e /\ (\A i \in 1..(2 + k) : B[i] = A[i])
      /\ \A i \in 1..e : B[2 + k + i] = E[i]
  <2> DEFINE m == 2 + k
  <2>1. A \in Seq(U) /\ m = Len(A) /\ E \in Seq(U) /\ e = Len(E) /\ B = A \o E
    BY <1>4, <1>6
  <2> HIDE DEF m, e, B, k
  <2>2. Joins(B, U, A, m, E, e)
    BY <2>1, JoinIs
  <2> QED
    BY <2>2 DEF m, Joins
<1> HIDE DEF B
<1>8. L \in Seq(U) /\ Len(L) = 2 + k + e + 1 /\ (\A i \in 1..(2 + k + e) : L[i] = B[i])
      /\ \A i \in 1..1 : L[2 + k + e + i] = Z[i]
  <2> DEFINE m == 2 + k + e
  <2> DEFINE one == 1
  <2>1. B \in Seq(U) /\ m = Len(B) /\ Z \in Seq(U) /\ one = Len(Z) /\ L = B \o Z
    BY <1>2, <1>5, <1>7
  <2> HIDE DEF m, e, k, one
  <2>2. Joins(L, U, B, m, Z, one)
    BY <2>1, JoinIs
  <2> QED
    BY <2>2 DEF m, one, Joins
<1>9. k \in Nat /\ e \in 0..1
  BY <1>1 DEF N
<1> HIDE DEF k
<1>10. Len(L) = IF d THEN k + 4 ELSE k + 3
  BY <1>8, <1>9
<1>11. \A i \in 1..(2 + k) : L[i] = A[i]
  BY <1>7, <1>8, <1>9
<1>12. L[1] = Hex(a) /\ L[2] = Space
  BY <1>2, <1>6, <1>9, <1>11
<1>13. \A i \in 1..k : L[2 + i] = N[i]
  BY <1>6, <1>9, <1>11
<1>14. d => L[k + 3] = Slash
  <2> SUFFICES ASSUME d PROVE L[k + 3] = Slash
    OBVIOUS
  <2>1. e = 1 /\ 2 + k + 1 = k + 3 /\ k + 3 \in 1..(2 + k + e) /\ 1 \in 1..e
    BY <1>9
  <2>2. L[k + 3] = B[2 + k + 1]
    BY <1>8, <2>1
  <2> QED
    BY <1>4, <1>7, <2>1, <2>2
<1>15. L[Len(L)] = Newline
  BY <1>2, <1>8
<1> QED
  BY <1>1, <1>8, <1>9, <1>10, <1>12, <1>13, <1>14, <1>15 DEF LineParts, L, N, k

LEMMA TokensDiffer ==
  ASSUME NEW a
  PROVE  /\ Hex(a) # Newline /\ Space # Newline /\ Slash # Newline /\ Slash # Space
         /\ \A b : Hex(a) = Hex(b) => a = b
BY DEF Hex, Newline, Space, Slash

LEMMA LineOne ==
  ASSUME NEW a, NEW x \in Names, NEW d \in BOOLEAN, Newline \notin S!ToSet(NameText[x]),
         NEW U, Chars \cup {Space, Slash, Newline, Hex(a)} \subseteq U
  PROVE  Line(a, x, d) \in Lines(U)
<1> DEFINE L == Line(a, x, d)
           N == NameText[x]
           k == Len(N)
<1>1. LineParts(L, U, N, k, a, d)
  BY LineIs
<1>2. \A i \in 1..k : N[i] # Newline
  <2>1. N \in Seq(Chars)
    BY NameAssumption
  <2> QED
    BY <2>1 DEF S!ToSet
<1> HIDE DEF L, N, k
<1>3. /\ L \in Seq(U) /\ k \in Nat
      /\ Len(L) = IF d THEN k + 4 ELSE k + 3
      /\ L[1] # Newline /\ L[2] # Newline
      /\ \A i \in 1..k : L[2 + i] # Newline
      /\ d => L[k + 3] # Newline
      /\ L[Len(L)] = Newline
  BY <1>1, <1>2, TokensDiffer DEF LineParts
<1>4. ASSUME NEW j \in 1..(Len(L) - 1) PROVE L[j] # Newline
  <2>1. \/ j = 1 \/ j = 2 \/ (d /\ j = k + 3)
        \/ \E i \in 1..k : j = 2 + i
    <3>1. j > 2 /\ j <= k + 2 => j - 2 \in 1..k /\ j = 2 + (j - 2)
      BY <1>3
    <3> QED
      BY <1>3, <3>1
  <2> QED
    BY <1>3, <2>1
<1>5. Len(L) > 0
  BY <1>3
<1> QED
  BY <1>3, <1>4, <1>5 DEF Lines, L

\* The slash tells a directory from a file, as no name has one.
LEMMA LineSame ==
  ASSUME NEW a, NEW x \in Names, NEW d \in BOOLEAN, NEW b, NEW y \in Names, NEW e \in BOOLEAN,
         Line(a, x, d) = Line(b, y, e)
  PROVE  a = b /\ x = y /\ d = e
<1> DEFINE U == Chars \cup {Space, Slash, Newline, Hex(a), Hex(b)}
           L == Line(a, x, d)
           N == NameText[x]
           M == NameText[y]
           k == Len(N)
           l == Len(M)
<1>1. LineParts(L, U, N, k, a, d)
  <2>1. Chars \cup {Space, Slash, Newline, Hex(a)} \subseteq U
    OBVIOUS
  <2> HIDE DEF U
  <2> QED
    BY <2>1, LineIs
<1>2. LineParts(L, U, M, l, b, e)
  <2>1. Chars \cup {Space, Slash, Newline, Hex(b)} \subseteq U
    OBVIOUS
  <2> HIDE DEF U
  <2> QED
    BY <2>1, LineIs
<1> HIDE DEF L, N, M, U, k, l
<1>3. a = b
  <2>1. Hex(a) = Hex(b)
    BY <1>1, <1>2 DEF LineParts
  <2> QED
    BY <2>1, TokensDiffer
<1>4. /\ N \in Seq(Chars) /\ k \in Nat /\ k = Len(N) /\ M \in Seq(Chars) /\ l \in Nat /\ l = Len(M)
      /\ Len(L) = IF d THEN k + 4 ELSE k + 3
      /\ Len(L) = IF e THEN l + 4 ELSE l + 3
      /\ \A i \in 1..k : L[2 + i] = N[i]
      /\ \A i \in 1..l : L[2 + i] = M[i]
      /\ d => L[k + 3] = Slash
      /\ e => L[l + 3] = Slash
  BY <1>1, <1>2 DEF LineParts
<1>5. \A i \in 1..k : N[i] # Slash
  BY <1>4, NameAssumption
<1>6. \A i \in 1..l : M[i] # Slash
  BY <1>4, NameAssumption
<1>7. ~(d /\ ~e)
  <2> SUFFICES ASSUME d, ~e PROVE FALSE
    OBVIOUS
  <2>1. l = k + 1 /\ l \in 1..l /\ k + 3 = 2 + l
    BY <1>4
  <2> QED
    BY <1>4, <1>6, <2>1
<1>8. ~(e /\ ~d)
  <2> SUFFICES ASSUME e, ~d PROVE FALSE
    OBVIOUS
  <2>1. k = l + 1 /\ k \in 1..k /\ l + 3 = 2 + k
    BY <1>4
  <2> QED
    BY <1>4, <1>5, <2>1
<1>9. d = e
  BY <1>7, <1>8
<1>10. k = l
  BY <1>4, <1>9
<1>11. N = M
  <2>1. \A i \in 1..Len(N) : N[i] = M[i]
    BY <1>4, <1>10
  <2> QED
    BY <1>4, <1>10, <2>1, SeqEqual
<1> QED
  BY <1>3, <1>9, <1>11, NameAssumption DEF N, M

Chained(U, r, s, t, rs, st) ==
  r \in Seq(U) /\ s \in Seq(U) /\ t \in Seq(U) /\ rs = r \o s /\ st = s \o t

Repeats(U, A, B, C, X, Y, Z) ==
  /\ A \in Seq(U) /\ B \in Seq(U) /\ C \in Seq(U) /\ X \in Seq(U) /\ Y \in Seq(U) /\ Z \in Seq(U)
  /\ C = Z \o B

Rejoined(A, B, C, X, Y, Z) ==
  ((A \o X) \o Z) \o ((B \o Y) \o Z) = (A \o ((X \o C) \o Y)) \o Z

LEMMA JoinedAgain ==
  ASSUME NEW U, NEW A, NEW B, NEW C, NEW X, NEW Y, NEW Z,
         Repeats(U, A, B, C, X, Y, Z)
  PROVE  Rejoined(A, B, C, X, Y, Z)
<1> DEFINE W == Y \o Z
           V == C \o W
           T == B \o W
           AX == A \o X
           XC == X \o C
           R == XC \o Y
           BY1 == B \o Y
           L == AX \o Z
           XV == X \o V
           AR == A \o R
           RZ == R \o Z
<1>0. /\ A \in Seq(U) /\ B \in Seq(U) /\ C \in Seq(U) /\ X \in Seq(U) /\ Y \in Seq(U) /\ Z \in Seq(U)
      /\ C = Z \o B
      /\ W = Y \o Z /\ V = C \o W /\ T = B \o W /\ AX = A \o X /\ XC = X \o C /\ R = XC \o Y
      /\ BY1 = B \o Y /\ L = AX \o Z /\ XV = X \o V /\ AR = A \o R /\ RZ = R \o Z
  BY DEF Repeats
<1>q. ((A \o X) \o Z) \o ((B \o Y) \o Z) = L \o (BY1 \o Z) /\ (A \o ((X \o C) \o Y)) \o Z = AR \o Z
  OBVIOUS
<1> HIDE DEF W, V, T, AX, XC, R, BY1, L, XV, AR, RZ
<1>1. BY1 \o Z = B \o W /\ W \in Seq(U)
  <2>1. Chained(U, B, Y, Z, BY1, W)
    BY <1>0, Zenon DEF Chained
  <2> QED
    BY <2>1, ConcatAssociative, ConcatProperties DEF Chained
<1>2. C \o W = Z \o T /\ T \in Seq(U)
  <2>1. Chained(U, Z, B, W, C, T)
    BY <1>0, <1>1, Zenon DEF Chained
  <2> QED
    BY <2>1, ConcatAssociative, ConcatProperties DEF Chained
<1>3. XC \o W = X \o V /\ XC \in Seq(U) /\ V \in Seq(U)
  <2>1. Chained(U, X, C, W, XC, V)
    BY <1>0, <1>1, Zenon DEF Chained
  <2> QED
    BY <2>1, ConcatAssociative, ConcatProperties DEF Chained
<1>4. XC \o W = R \o Z /\ R \in Seq(U)
  <2>1. Chained(U, XC, Y, Z, R, W)
    BY <1>0, <1>1, <1>3, Zenon DEF Chained
  <2> QED
    BY <2>1, ConcatAssociative, ConcatProperties DEF Chained
<1>5. AX \o V = A \o XV /\ AX \in Seq(U)
  <2>1. Chained(U, A, X, V, AX, XV)
    BY <1>0, <1>3, Zenon DEF Chained
  <2> QED
    BY <2>1, ConcatAssociative, ConcatProperties DEF Chained
<1>6. L \o T = AX \o V
  <2>1. Chained(U, AX, Z, T, L, V)
    BY <1>0, <1>2, <1>5, Zenon DEF Chained
  <2> QED
    BY <2>1, ConcatAssociative, ConcatProperties DEF Chained
<1>7. AR \o Z = A \o RZ
  <2>1. A \in Seq(U) /\ R \in Seq(U) /\ Z \in Seq(U)
    BY <1>0, <1>4, Zenon
  <2>2. (A \o R) \o Z = A \o (R \o Z)
    BY <2>1, ConcatAssociative
  <2> QED
    BY <1>0, <2>2, Zenon
<1> QED
  BY <1>q, <1>0, <1>1, <1>3, <1>4, <1>5, <1>6, <1>7, Zenon DEF Rejoined

\* Why DigestsIdentify excepts names with a newline: dirDigests writes names as they are
\* (index/pathtree.go:68-72).  Where the text of z is that of x, a newline, the digits of b, a
\* space and the text of y, a directory of the files x and y (x first) has the text, and so the digest,
\* of a directory of the one file z.
THEOREM NewlineHides ==
  ASSUME NEW x \in Names, NEW y \in Names, NEW z \in Names, NEW a, NEW b,
         {Newline, Hex(b), Space} \subseteq Chars,
         NameText[z] = NameText[x] \o <<Newline, Hex(b), Space>> \o NameText[y]
  PROVE  S!FlattenSeq(<<Line(a, x, FALSE), Line(b, y, FALSE)>>)
           = S!FlattenSeq(<<Line(a, z, FALSE)>>)
<1> DEFINE U == Chars \cup {Space, Slash, Newline, Hex(a), Hex(b)}
           L == Line(a, x, FALSE)
           M == Line(b, y, FALSE)
           K == Line(a, z, FALSE)
           two == <<L, M>>
           one == <<K>>
<1>1. L \in Seq(U) /\ M \in Seq(U) /\ K \in Seq(U)
  <2>1. /\ Chars \cup {Space, Slash, Newline, Hex(a)} \subseteq U
        /\ Chars \cup {Space, Slash, Newline, Hex(b)} \subseteq U
    OBVIOUS
  <2> HIDE DEF U
  <2>2. /\ LineParts(L, U, NameText[x], Len(NameText[x]), a, FALSE)
        /\ LineParts(M, U, NameText[y], Len(NameText[y]), b, FALSE)
        /\ LineParts(K, U, NameText[z], Len(NameText[z]), a, FALSE)
    BY <2>1, LineIs
  <2> HIDE DEF L, M, K
  <2> QED
    BY <2>2 DEF LineParts
<1>2. L \o M = K
  <2> DEFINE A == <<Hex(a), Space>>
             B == <<Hex(b), Space>>
             Z == <<Newline>>
             X == NameText[x]
             Y == NameText[y]
             C == <<Newline, Hex(b), Space>>
             O == <<>>
  <2>1. A \in Seq(U) /\ B \in Seq(U) /\ Z \in Seq(U) /\ C \in Seq(U) /\ C = Z \o B
    <3> HIDE DEF Hex, Space, Newline, Slash
    <3> QED
      OBVIOUS
  <2>2. X \in Seq(U) /\ Y \in Seq(U)
    <3>1. Chars \subseteq U /\ X \in Seq(Chars) /\ Y \in Seq(Chars)
      BY NameAssumption
    <3> HIDE DEF X, Y, U
    <3> QED
      BY <3>1
  <2>3. L = A \o X \o O \o Z /\ M = B \o Y \o O \o Z
    BY Zenon DEF Line
  <2>4. K = A \o (X \o C \o Y) \o O \o Z
    BY Zenon DEF Line
  <2>5. \A s \in Seq(U) : s \o O = s
    BY ConcatEmptySeq
  <2> HIDE DEF A, B, Z, X, Y, C, O, U, L, M, K
  <2>6. \A s, t \in Seq(U) : s \o t \in Seq(U)
    BY ConcatProperties
  <2>7. /\ A \o X \in Seq(U) /\ B \o Y \in Seq(U) /\ X \o C \in Seq(U)
        /\ X \o C \o Y \in Seq(U) /\ A \o (X \o C \o Y) \in Seq(U)
    BY <2>1, <2>2, <2>6, Zenon
  <2>8. L = A \o X \o Z /\ M = B \o Y \o Z /\ K = A \o (X \o C \o Y) \o Z
    BY <2>3, <2>4, <2>5, <2>7, Zenon
  <2>hyp. Repeats(U, A, B, C, X, Y, Z)
    BY <2>1, <2>2 DEF Repeats
  <2>9. (A \o X \o Z) \o (B \o Y \o Z) = A \o (X \o C \o Y) \o Z
    <3>1. Rejoined(A, B, C, X, Y, Z)
      BY <2>hyp, JoinedAgain
    <3> QED
      BY <3>1, Zenon DEF Rejoined
  <2> QED
    BY <2>8, <2>9, Zenon
<1> HIDE DEF L, M, K, U
<1>3. two \in [1..2 -> Seq(U)] /\ one \in [1..1 -> Seq(U)]
  BY <1>1
<1>4. two[1] = L /\ two[2] = M /\ one[1] = K
  OBVIOUS
<1> HIDE DEF two, one
<1>5. PICK f : IsFlat(f, two, 2) /\ S!FlattenSeq(two) = f[2]
  <2> DEFINE k == 2
  <2>1. k \in Nat /\ two \in [1..k -> Seq(U)]
    BY <1>3
  <2> HIDE DEF k
  <2>2. Flattens(two, k, U)
    BY <2>1, FlattenIs
  <2> QED
    BY <2>2, Zenon DEF Flattens, k
<1>6. PICK g : IsFlat(g, one, 1) /\ S!FlattenSeq(one) = g[1]
  <2> DEFINE k == 1
  <2>1. k \in Nat /\ one \in [1..k -> Seq(U)]
    BY <1>3
  <2> HIDE DEF k
  <2>2. Flattens(one, k, U)
    BY <2>1, FlattenIs
  <2> QED
    BY <2>2, Zenon DEF Flattens, k
<1>7. f[0] = <<>> /\ f[1] = f[0] \o two[1] /\ f[2] = f[1] \o two[2]
  <2>1. f[0] = <<>> /\ \A i \in 0..(2 - 1) : f[i + 1] = f[i] \o two[i + 1]
    BY <1>5, Zenon DEF IsFlat
  <2>2. f[0 + 1] = f[0] \o two[0 + 1] /\ f[1 + 1] = f[1] \o two[1 + 1]
    <3>1. 0 \in 0..(2 - 1) /\ 1 \in 0..(2 - 1)
      OBVIOUS
    <3> QED
      BY <2>1, <3>1, Zenon
  <2>3. 0 + 1 = 1 /\ 1 + 1 = 2
    OBVIOUS
  <2> QED
    BY <2>1, <2>2, <2>3
<1>8. g[0] = <<>> /\ g[1] = g[0] \o one[1]
  <2>1. g[0] = <<>> /\ \A i \in 0..(1 - 1) : g[i + 1] = g[i] \o one[i + 1]
    BY <1>6, Zenon DEF IsFlat
  <2>2. g[0 + 1] = g[0] \o one[0 + 1]
    <3>1. 0 \in 0..(1 - 1)
      OBVIOUS
    <3> QED
      BY <2>1, <3>1, Zenon
  <2>3. 0 + 1 = 1
    OBVIOUS
  <2> QED
    BY <2>1, <2>2, <2>3
<1>9. f[2] = L \o M /\ g[1] = K
  <2>1. <<>> \o L = L /\ <<>> \o K = K
    BY <1>1, ConcatEmptySeq
  <2> QED
    BY <1>4, <1>7, <1>8, <2>1
<1> QED
  BY <1>2, <1>5, <1>6, <1>9 DEF L, M, K, two, one

-----------------------------------------------------------------------------
(* Digests *)

Entry(f, n, i) ==
  Line(f[Child(n, DirEntries(n)[i])], DirEntries(n)[i], IsDir(heap, Child(n, DirEntries(n)[i])))

Listing(f, n) == [i \in DOMAIN DirEntries(n) |-> Entry(f, n, i)]

SumOf(f, n) == IF IsDir(heap, n) THEN S!FlattenSeq(Listing(f, n)) ELSE Content[heap.node[n]]

Height(n) == Cardinality(Has(heap, n))

LEMMA ChildLower ==
  ASSUME TreeInv, NEW n \in Nodes, NEW x \in ChildNames(n)
  PROVE  /\ Child(n, x) \in Nodes
         /\ Height(n) \in 1..MaxNode /\ Height(Child(n, x)) \in Nat
         /\ Height(Child(n, x)) < Height(n)
<1> DEFINE c == Child(n, x)
           A == Has(heap, n)
           B == Has(heap, c)
<1>1. Typed(heap) /\ x \in Names /\ c = heap.kids[n][x] /\ c # None
  BY InvIs DEF ChildNames, Child
<1>2. n \in A /\ A \subseteq Nodes
  BY <1>1, HasClosed
<1>3. c \in Nodes /\ c \in A
  BY <1>1, <1>2, HasChild
<1>4. B \subseteq A
  BY <1>1, <1>3, HasTransitive
<1>5. n \notin B
  BY <1>1, InvIs DEF Linked, NoCycle
<1>6. MaxNode \in Nat /\ IsFiniteSet(Nodes) /\ Cardinality(Nodes) = MaxNode
  BY TreeAssumption, FS_Interval DEF Nodes
<1> HIDE DEF A, B
<1>7. IsFiniteSet(A) /\ IsFiniteSet(B)
  BY <1>2, <1>4, <1>6, FS_Subset
<1>8. Cardinality(A) \in Nat /\ Cardinality(B) \in Nat /\ Cardinality(A) <= MaxNode
  BY <1>2, <1>6, <1>7, FS_Subset, FS_CardinalityType
<1>9. Cardinality(B) <= Cardinality(A) /\ Cardinality(B) # Cardinality(A)
  BY <1>2, <1>4, <1>5, <1>7, FS_Subset
<1> QED
  BY <1>3, <1>6, <1>8, <1>9 DEF A, B, Height

LEMMA SumOfSame ==
  ASSUME TreeInv, NEW n \in Nodes, NEW f, NEW g, \A x \in ChildNames(n) : f[Child(n, x)] = g[Child(n, x)]
  PROVE  SumOf(f, n) = SumOf(g, n)
<1>1. \A i \in DOMAIN DirEntries(n) : DirEntries(n)[i] \in ChildNames(n)
  BY DirEntriesIs
<1>2. \A i \in DOMAIN DirEntries(n) : Entry(f, n, i) = Entry(g, n, i)
  BY <1>1, Zenon DEF Entry
<1>3. Listing(f, n) = Listing(g, n)
  BY <1>2, Zenon DEF Listing
<1> QED
  BY <1>3, Zenon DEF SumOf

\* Sum is defined for lower nodes first: no node is below itself.
LEMMA SumIs ==
  ASSUME TreeInv
  PROVE  \A n \in Nodes : Sum[n] = SumOf(Sum, n)
<1> DEFINE Good(f, k) == \A n \in Nodes : Height(n) <= k => f[n] = SumOf(f, n)
           A == {k \in 0..MaxNode : \E f : Good(f, k)}
<1>0. MaxNode \in Nat
  BY TreeAssumption
<1>1. \A n \in Nodes : Height(n) \in 1..MaxNode
  <2> SUFFICES ASSUME NEW n \in Nodes PROVE Height(n) \in 1..MaxNode
    OBVIOUS
  <2>1. n \in Has(heap, n) /\ Has(heap, n) \subseteq Nodes
    BY InvIs, HasClosed
  <2>2. IsFiniteSet(Nodes) /\ Cardinality(Nodes) = MaxNode
    BY <1>0, FS_Interval DEF Nodes
  <2>3. Height(n) \in Nat /\ Height(n) <= MaxNode /\ IsFiniteSet(Has(heap, n))
    BY <2>1, <2>2, FS_Subset, FS_CardinalityType DEF Height
  <2>4. Height(n) # 0
    BY <2>1, <2>3, FS_EmptySet DEF Height
  <2> QED
    BY <2>3, <2>4, <1>0
<1>2. 0 \in A
  <2>1. Good([n \in Nodes |-> 0], 0)
    BY <1>0, <1>1
  <2> HIDE DEF Good
  <2> QED
    BY <2>1, <1>0
<1>3. ASSUME NEW k \in A, k \in 0..(MaxNode - 1) PROVE k + 1 \in A
  <2>0. k \in Nat /\ k + 1 \in 0..MaxNode
    BY <1>0, <1>3
  <2>1. PICK f : Good(f, k)
    BY <1>3
  <2> DEFINE g == [n \in Nodes |-> IF Height(n) <= k THEN f[n] ELSE SumOf(f, n)]
  <2>2. \A n \in Nodes : /\ Height(n) <= k => g[n] = f[n]
                         /\ ~(Height(n) <= k) => g[n] = SumOf(f, n)
    OBVIOUS
  <2> HIDE DEF g
  <2>3. ASSUME NEW n \in Nodes, Height(n) <= k + 1 PROVE g[n] = SumOf(g, n)
    <3>1. ASSUME NEW x \in ChildNames(n) PROVE f[Child(n, x)] = g[Child(n, x)]
      <4> DEFINE a == Height(n)
                 b == Height(Child(n, x))
      <4>1. Child(n, x) \in Nodes /\ a \in Nat /\ b \in Nat /\ b < a /\ a <= k + 1
        BY <1>0, <2>3, ChildLower
      <4> HIDE DEF a, b
      <4>2. b <= k
        BY <2>0, <4>1
      <4> QED
        BY <2>2, <4>1, <4>2 DEF b
    <3>2. SumOf(f, n) = SumOf(g, n)
      BY <3>1, SumOfSame
    <3>3. g[n] = SumOf(f, n)
      BY <2>1, <2>2
    <3> QED
      BY <3>2, <3>3
  <2>4. Good(g, k + 1)
    BY <2>3
  <2> HIDE DEF Good
  <2> QED
    BY <2>0, <2>4
<1>4. MaxNode \in A
  <2> HIDE DEF A
  <2> QED
    BY <1>0, <1>2, <1>3, UpTo
<1>5. PICK f : Good(f, MaxNode)
  BY <1>4
<1> DEFINE g == [n \in Nodes |-> f[n]]
           IsSum(e) == e = [n \in Nodes |-> SumOf(e, n)]
<1>6. \A n \in Nodes : g[n] = f[n]
  OBVIOUS
<1> HIDE DEF g
<1>7. ASSUME NEW n \in Nodes PROVE g[n] = SumOf(g, n)
  <2>1. f[n] = SumOf(f, n)
    BY <1>0, <1>1, <1>5
  <2>2. \A x \in ChildNames(n) : f[Child(n, x)] = g[Child(n, x)]
    BY <1>6, ChildLower
  <2>3. SumOf(f, n) = SumOf(g, n)
    BY <2>2, SumOfSame
  <2> QED
    BY <1>6, <2>1, <2>3
<1>8. g = [n \in Nodes |-> g[n]]
  BY <1>6 DEF g
<1>9. IsSum(g)
  BY <1>7, <1>8, Zenon
<1>10. Sum = CHOOSE e : IsSum(e)
  BY Zenon DEF Sum, SumOf, Listing, Entry
<1>11. IsSum(Sum)
  <2> HIDE DEF IsSum
  <2> QED
    BY <1>9, <1>10, Zenon
<1>12. ASSUME NEW n \in Nodes PROVE Sum[n] = SumOf(Sum, n)
  BY <1>11, Zenon
<1> QED
  BY <1>12

\* The same digest, and the same kind.
Same(m, n) == Sum[m] = Sum[n] /\ IsDir(heap, m) = IsDir(heap, n)

\* No child has a newline in its name.
PlainChildren(n) == \A x \in ChildNames(n) : Newline \notin S!ToSet(NameText[x])

\* What digests are written with.
Written == Chars \cup {Space, Slash, Newline} \cup {Hex(Sum[c]) : c \in Nodes}

LEMMA ListingIs ==
  ASSUME TreeInv, NEW n \in Nodes, PlainChildren(n)
  PROVE  \E k \in Nat : DOMAIN DirEntries(n) = 1..k /\ Listing(Sum, n) \in [1..k -> Lines(Written)]
<1>1. PICK k \in Nat : DOMAIN DirEntries(n) = 1..k
  BY DirEntriesIs
<1>2. ASSUME NEW i \in 1..k PROVE Entry(Sum, n, i) \in Lines(Written)
  <2> DEFINE x == DirEntries(n)[i]
             c == Child(n, x)
             a == Sum[c]
             d == IsDir(heap, c)
             U == Written
  <2>1. x \in ChildNames(n) /\ x \in Names
    BY <1>1, DirEntriesIs DEF ChildNames
  <2>2. c \in Nodes
    BY <2>1, ChildLower
  <2>3. d \in BOOLEAN
    BY DEF IsDir
  <2>4. Chars \cup {Space, Slash, Newline, Hex(a)} \subseteq U
    <3> HIDE DEF c
    <3> QED
      BY <2>2 DEF Written
  <2>5. Newline \notin S!ToSet(NameText[x])
    BY <2>1, Zenon DEF PlainChildren
  <2>6. Entry(Sum, n, i) = Line(a, x, d)
    BY Zenon DEF Entry
  <2> HIDE DEF x, c, a, d, U
  <2>7. Line(a, x, d) \in Lines(U)
    BY <2>1, <2>3, <2>4, <2>5, LineOne
  <2> QED
    BY <2>6, <2>7 DEF U
<1>3. Listing(Sum, n) = [i \in 1..k |-> Entry(Sum, n, i)]
  BY <1>1, Zenon DEF Listing
<1>4. Listing(Sum, n) \in [1..k -> Lines(Written)]
  <2> HIDE DEF Written
  <2> QED
    BY <1>2, <1>3
<1> QED
  BY <1>1, <1>4, Zenon

LEMMA SameChild ==
  ASSUME TreeInv, NEW m \in Nodes, NEW n \in Nodes, PlainChildren(m), PlainChildren(n), Same(m, n),
         NEW x \in ChildNames(m)
  PROVE  x \in ChildNames(n) /\ Same(Child(m, x), Child(n, x))
<1>1. IsDir(heap, m) /\ IsDir(heap, n)
  BY InvIs DEF Linked, OnlyDirs, ChildNames, Child, NoKids, Same
<1> DEFINE s == Listing(Sum, m)
           t == Listing(Sum, n)
<1>2. S!FlattenSeq(s) = S!FlattenSeq(t)
  BY <1>1, SumIs, Zenon DEF SumOf, Same
<1>3. PICK k \in Nat : DOMAIN DirEntries(m) = 1..k /\ s \in [1..k -> Lines(Written)]
  BY ListingIs, Zenon
<1>4. PICK l \in Nat : DOMAIN DirEntries(n) = 1..l /\ t \in [1..l -> Lines(Written)]
  BY ListingIs, Zenon
<1>5. PICK i \in 1..k : DirEntries(m)[i] = x
  BY <1>3, DirEntriesIs
<1> DEFINE y == DirEntries(n)[i]
<1>6. i \in 1..l /\ s[i] = t[i]
  <2> HIDE DEF s, t
  <2> QED
    BY <1>2, <1>3, <1>4, SameLines
<1>7. s[i] = Entry(Sum, m, i) /\ t[i] = Entry(Sum, n, i)
  BY <1>3, <1>4, <1>6, Zenon DEF Listing
<1> DEFINE a == Sum[Child(m, x)]
           b == Sum[Child(n, y)]
           d == IsDir(heap, Child(m, x))
           e == IsDir(heap, Child(n, y))
<1>8. Line(a, x, d) = Line(b, y, e)
  BY <1>5, <1>6, <1>7, Zenon DEF Entry
<1>9. y \in ChildNames(n) /\ y \in Names /\ x \in Names
  BY <1>4, <1>6, DirEntriesIs DEF ChildNames
<1>10. d \in BOOLEAN /\ e \in BOOLEAN
  BY DEF IsDir
<1>11. a = b /\ x = y /\ d = e
  <2> HIDE DEF a, b, d, e, y
  <2> QED
    BY <1>8, <1>9, <1>10, LineSame
<1> QED
  BY <1>9, <1>11 DEF Same

LEMMA SameDown ==
  ASSUME TreeInv, NEW m \in Nodes, NEW n \in Nodes, PlainNames(m), PlainNames(n), Same(m, n),
         NEW p \in Paths, Down(heap, m, p) # None
  PROVE  Down(heap, n, p) # None /\ Same(Down(heap, m, p), Down(heap, n, p))
<1> DEFINE A == {k \in 0..Depth : \A q \in Paths : Len(q) = k /\ Down(heap, m, q) # None =>
                   Down(heap, n, q) \in Nodes /\ Same(Down(heap, m, q), Down(heap, n, q))}
<1>1. 0 \in A
  BY PathLen, DownEmpty, TreeAssumption
<1>2. ASSUME NEW k \in A, k \in 0..(Depth - 1) PROVE k + 1 \in A
  <2> SUFFICES ASSUME NEW q \in Paths, Len(q) = k + 1, Down(heap, m, q) # None
               PROVE  Down(heap, n, q) \in Nodes /\ Same(Down(heap, m, q), Down(heap, n, q))
    BY <1>2, TreeAssumption
  <2> DEFINE a == Down(heap, m, S!Front(q))
             b == Down(heap, n, S!Front(q))
             x == S!Last(q)
  <2>1. q # <<>>
    BY <1>2, PathLen
  <2>2. a \in Nodes /\ x \in Names /\ Down(heap, m, q) = heap.kids[a][x]
    BY <2>1, InvIs, DownBelow
  <2>3. S!Front(q) \in Paths /\ Len(S!Front(q)) = k
    BY <1>2, <2>1, FrontIs, FrontPath
  <2>4. a # None
    BY <2>2, TreeAssumption
  <2>5. b \in Nodes /\ Same(a, b)
    BY <1>2, <2>3, <2>4
  <2>6. Down(heap, n, q) = heap.kids[b][x]
    BY <2>1, <2>5, DownFront, TreeAssumption
  <2>p. PlainChildren(a) /\ PlainChildren(b)
    <3>1. a \in Has(heap, m) /\ b \in Has(heap, n)
      BY <2>3, <2>4, <2>5, InvIs, PathLen, DownHas, TreeAssumption
    <3> QED
      BY <3>1, Zenon DEF PlainNames, PlainChildren
  <2> HIDE DEF a, b, x
  <2>7. x \in ChildNames(a)
    BY <2>2 DEF ChildNames, Child
  <2>8. x \in ChildNames(b) /\ Same(Child(a, x), Child(b, x))
    BY <2>2, <2>5, <2>p, <2>7, SameChild
  <2>9. Child(b, x) \in Nodes
    BY <2>5, <2>8, ChildLower
  <2> QED
    BY <2>2, <2>6, <2>8, <2>9 DEF Child
<1>3. 0..Depth \subseteq A
  <2> HIDE DEF A
  <2> QED
    BY <1>1, <1>2, UpTo, TreeAssumption
<1> QED
  BY <1>3, PathLen, TreeAssumption

LEMMA TreeInvDigests ==
  ASSUME TreeInv
  PROVE  DigestsIdentify
<1> SUFFICES ASSUME NEW m \in Live(heap, tree, sub), NEW n \in Live(heap, tree, sub),
                    PlainNames(m), PlainNames(n), Sum[m] = Sum[n], IsDir(heap, m) = IsDir(heap, n)
             PROVE  /\ WalkPaths(heap, m) = WalkPaths(heap, n)
                    /\ \A p \in WalkPaths(heap, m) : SameEntry(Down(heap, m, p), Down(heap, n, p))
  BY DEF DigestsIdentify
<1>1. m \in Nodes /\ n \in Nodes
  BY InvIs, LiveIs
<1>2. Same(m, n) /\ Same(n, m)
  BY DEF Same
<1>3. WalkPaths(heap, m) = WalkPaths(heap, n)
  BY <1>1, <1>2, SameDown DEF WalkPaths
<1>4. ASSUME NEW p \in WalkPaths(heap, m) PROVE SameEntry(Down(heap, m, p), Down(heap, n, p))
  <2> DEFINE a == Down(heap, m, p)
             b == Down(heap, n, p)
  <2>1. p \in Paths /\ a # None /\ b # None
    BY <1>3, <1>4 DEF WalkPaths
  <2>2. a \in Nodes /\ b \in Nodes
    <3>1. a \in Has(heap, m) /\ b \in Has(heap, n)
      BY <1>1, <2>1, InvIs, PathLen, DownHas
    <3> QED
      BY <1>1, <3>1, InvIs, HasClosed
  <2>3. Same(a, b)
    BY <1>1, <1>2, <2>1, SameDown
  <2> HIDE DEF a, b
  <2>4. Sum[a] = SumOf(Sum, a) /\ Sum[b] = SumOf(Sum, b)
    BY <2>2, SumIs
  <2>5. ~IsDir(heap, a) => Content[heap.node[a]] = Content[heap.node[b]]
    BY <2>3, <2>4, Zenon DEF Same, SumOf
  <2> QED
    BY <2>3, <2>5 DEF Same, SameEntry, a, b
<1> QED
  BY <1>3, <1>4

\* Two nodes with the same digest, of the same kind, hold the same: the index keeps one
\* row for both (UNIQUE(sum, dir), schema.sql), with one list of children.  Contents of
\* files, and so their digests, may be anything, the listing of a directory included.  A
\* digest is made from text, and so of nodes with no newline in a name below them only:
\* NewlineHides shows what one does.
THEOREM DigestsIdentifyHolds ==
  Spec => []DigestsIdentify
<1>1. TreeInv => DigestsIdentify
  BY TreeInvDigests
<1> QED
  BY <1>1, TreeInvariant, PTL

-----------------------------------------------------------------------------
(* Paths of any length, and walks along them *)

SeqNames == Seq(Names)
Add(p, x) == Append(p, x)
Cat(p, q) == p \o q

LEMMA SeqIs ==
  ASSUME NEW p \in SeqNames
  PROVE  Len(p) \in Nat /\ p \in [1..Len(p) -> Names] /\ (p = <<>> <=> Len(p) = 0)
BY LenProperties, EmptySeq DEF SeqNames

LEMMA SeqEmpty ==
  <<>> \in SeqNames
BY EmptySeq DEF SeqNames

LEMMA PathsAre ==
  \A p : p \in Paths <=> p \in SeqNames /\ Len(p) <= Depth
<1>1. ASSUME NEW p \in Paths PROVE p \in SeqNames /\ Len(p) <= Depth
  <2>1. Len(p) \in Nat /\ Len(p) <= Depth /\ p \in [1..Len(p) -> Names]
    BY PathLen
  <2> QED
    BY <2>1, LenIs DEF SeqNames
<1>2. ASSUME NEW p \in SeqNames, Len(p) <= Depth PROVE p \in Paths
  <2>1. Len(p) \in 0..Depth /\ p \in [1..Len(p) -> Names]
    BY SeqIs, <1>2, TreeAssumption
  <2> QED
    BY <2>1 DEF Paths
<1> QED
  BY <1>1, <1>2

LEMMA SeqAdd ==
  ASSUME NEW p \in SeqNames, NEW x \in Names
  PROVE  /\ Add(p, x) \in SeqNames /\ Add(p, x) # <<>> /\ Len(Add(p, x)) = Len(p) + 1
         /\ \A i \in 1..Len(p) : Add(p, x)[i] = p[i]
         /\ Add(p, x)[Len(p) + 1] = x
BY AppendProperties DEF SeqNames, Add

LEMMA SeqLast ==
  ASSUME NEW p \in SeqNames, p # <<>>
  PROVE  \E q \in SeqNames, x \in Names : p = Add(q, x)
BY SequenceEmptyOrAppend DEF SeqNames, Add

\* A set of paths that has the empty one, and with each path those with one more name, has
\* all.
LEMMA SeqInduct ==
  ASSUME NEW C, <<>> \in C, \A q \in SeqNames, x \in Names : q \in C => Add(q, x) \in C
  PROVE  SeqNames \subseteq C
<1> SUFFICES ASSUME NEW p \in SeqNames PROVE p \in C
  OBVIOUS
<1> DEFINE A == {k \in 0..Len(p) : \A q \in SeqNames : Len(q) = k => q \in C}
<1>0. Len(p) \in Nat
  BY SeqIs
<1>1. 0 \in A
  BY SeqIs, <1>0
<1>2. ASSUME NEW k \in A, k \in 0..(Len(p) - 1) PROVE k + 1 \in A
  <2>1. ASSUME NEW q \in SeqNames, Len(q) = k + 1 PROVE q \in C
    <3>1. q # <<>>
      BY <2>1, <1>2, SeqIs
    <3>2. PICK r \in SeqNames, x \in Names : q = Add(r, x)
      BY <3>1, SeqLast
    <3>3. Len(r) = k
      BY <2>1, <3>2, SeqAdd, SeqIs, <1>2
    <3> QED
      BY <3>2, <3>3
  <2> QED
    BY <2>1, <1>0, <1>2
<1>3. 0..Len(p) \subseteq A
  <2> HIDE DEF A
  <2> QED
    BY <1>0, <1>1, <1>2, UpTo
<1> QED
  BY <1>3, <1>0

LEMMA SeqCat ==
  ASSUME NEW p \in SeqNames, NEW q \in SeqNames
  PROVE  /\ Cat(p, q) \in SeqNames /\ Len(Cat(p, q)) = Len(p) + Len(q)
         /\ Cat(p, <<>>) = p /\ Cat(<<>>, p) = p /\ <<>> \in SeqNames
         /\ \A x \in Names : Cat(p, Add(q, x)) = Add(Cat(p, q), x)
         /\ \A r \in SeqNames : Cat(p, q) = Cat(p, r) => q = r
<1>1. Cat(p, q) \in SeqNames /\ Len(Cat(p, q)) = Len(p) + Len(q)
  BY ConcatProperties DEF SeqNames, Cat
<1>2. Cat(p, <<>>) = p /\ Cat(<<>>, p) = p /\ <<>> \in SeqNames
  BY ConcatEmptySeq, EmptySeq DEF SeqNames, Cat
<1>3. ASSUME NEW x \in Names PROVE Cat(p, Add(q, x)) = Add(Cat(p, q), x)
  <2>1. <<x>> \in Seq(Names) /\ p \in Seq(Names) /\ q \in Seq(Names) /\ p \o q \in Seq(Names)
    BY <1>1 DEF SeqNames, Cat
  <2>2. Append(q, x) = q \o <<x>> /\ Append(p \o q, x) = (p \o q) \o <<x>>
    BY <2>1, AppendIsConcat
  <2>3. (p \o q) \o <<x>> = p \o (q \o <<x>>)
    BY <2>1, ConcatAssociative
  <2> QED
    BY <2>2, <2>3, Zenon DEF Cat, Add
<1>4. ASSUME NEW r \in SeqNames, Cat(p, q) = Cat(p, r) PROVE q = r
  <2>1. p \in Seq(Names) /\ q \in Seq(Names) /\ r \in Seq(Names) /\ p \o q = p \o r
    BY <1>4 DEF SeqNames, Cat
  <2> QED
    BY <2>1, ConcatSimplifications, Zenon
<1> QED
  BY <1>1, <1>2, <1>3, <1>4

LEMMA AddSame ==
  ASSUME NEW p \in SeqNames, NEW q \in SeqNames, NEW x \in Names, NEW y \in Names,
         Add(p, x) = Add(q, y)
  PROVE  p = q /\ x = y
<1>1. p \in Seq(Names) /\ q \in Seq(Names) /\ Append(p, x) = Append(q, y)
  BY DEF SeqNames, Add
<1> QED
  BY <1>1, AppendInjective

LEMMA CatCat ==
  ASSUME NEW p \in SeqNames, NEW q \in SeqNames, NEW r \in SeqNames
  PROVE  Cat(Cat(p, q), r) = Cat(p, Cat(q, r))
<1>1. p \in Seq(Names) /\ q \in Seq(Names) /\ r \in Seq(Names)
  BY DEF SeqNames
<1> QED
  BY <1>1, ConcatAssociative DEF Cat

\* q goes on from p.
Starts(p, q) == \E r \in SeqNames : q = Cat(p, r)

LEMMA StartsFacts ==
  ASSUME NEW p \in SeqNames, NEW q \in SeqNames
  PROVE  /\ Starts(p, p) /\ Starts(<<>>, p)
         /\ Starts(p, q) => Len(p) <= Len(q)
         /\ Starts(p, q) /\ Len(p) = Len(q) => p = q
         /\ \A x \in Names : Starts(p, Add(q, x)) <=> Starts(p, q) \/ p = Add(q, x)
<1>1. Starts(p, p) /\ Starts(<<>>, p)
  <2>1. Cat(p, <<>>) = p /\ Cat(<<>>, p) = p /\ <<>> \in SeqNames
    BY SeqCat
  <2> QED
    BY <2>1 DEF Starts
<1>2. Starts(p, q) => Len(p) <= Len(q)
  BY SeqCat, SeqIs DEF Starts
<1>3. ASSUME Starts(p, q), Len(p) = Len(q) PROVE p = q
  <2>1. PICK r \in SeqNames : q = Cat(p, r)
    BY <1>3 DEF Starts
  <2>2. Len(r) = 0
    BY <2>1, <1>3, SeqCat, SeqIs
  <2> QED
    BY <2>1, <2>2, SeqIs, SeqCat
<1>4. ASSUME NEW x \in Names, Starts(p, q) PROVE Starts(p, Add(q, x))
  <2>1. PICK r \in SeqNames : q = Cat(p, r)
    BY <1>4 DEF Starts
  <2>2. Add(q, x) = Cat(p, Add(r, x)) /\ Add(r, x) \in SeqNames
    BY <2>1, SeqCat, SeqAdd
  <2> QED
    BY <2>2 DEF Starts
<1>5. ASSUME NEW x \in Names, p = Add(q, x) PROVE Starts(p, Add(q, x))
  BY <1>1, <1>5
<1>6. ASSUME NEW x \in Names, Starts(p, Add(q, x)) PROVE Starts(p, q) \/ p = Add(q, x)
  <2>1. PICK r \in SeqNames : Add(q, x) = Cat(p, r)
    BY <1>6 DEF Starts
  <2>2. CASE r = <<>>
    BY <2>1, <2>2, SeqCat
  <2>3. CASE r # <<>>
    <3>1. PICK s \in SeqNames, y \in Names : r = Add(s, y)
      BY <2>3, SeqLast
    <3>2. Cat(p, r) = Add(Cat(p, s), y) /\ Cat(p, s) \in SeqNames
      BY <3>1, SeqCat
    <3>3. q = Cat(p, s)
      BY <3>2, <2>1, AddSame
    <3> QED
      BY <3>3 DEF Starts
  <2> QED
    BY <2>2, <2>3
<1> QED
  BY <1>1, <1>2, <1>3, <1>4, <1>5, <1>6

LEMMA DownAdd ==
  ASSUME NEW h, NEW n, NEW p \in SeqNames, NEW x \in Names
  PROVE  Down(h, n, Add(p, x)) = IF Down(h, n, p) = None THEN None ELSE h.kids[Down(h, n, p)][x]
<1> DEFINE q == Add(p, x)
           l == Len(p)
           f == Steps(h, n, q)
           g == Steps(h, n, p)
<1>1. l \in Nat /\ Len(q) = l + 1 /\ q[l + 1] = x /\ \A i \in 1..l : q[i] = p[i]
  BY SeqIs, SeqAdd
<1> HIDE DEF q, l
<1>2. Len(q) \in Nat /\ l <= Len(q) /\ l \in 0..(Len(q) - 1) /\ l \in 0..l /\ l = Len(p)
  BY <1>1 DEF l
<1>3. \A k \in 0..(Len(q) - 1) :
        f[k + 1] = IF f[k] = None THEN None ELSE h.kids[f[k]][q[k + 1]]
  BY <1>2, StepsIs
<1>4. \A i \in 0..l : g[i] = f[i]
  <2>1. \A i \in 1..l : p[i] = q[i]
    BY <1>1
  <2>2. Len(p) \in Nat /\ l \in Nat /\ l <= Len(p)
    BY <1>1, <1>2
  <2> QED
    BY <2>1, <2>2, <1>2, StepsAgree
<1>5. Down(h, n, q) = f[l + 1] /\ Down(h, n, p) = g[l]
  BY <1>1, <1>2 DEF Down
<1> HIDE DEF f, g
<1>6. f[l + 1] = IF f[l] = None THEN None ELSE h.kids[f[l]][q[l + 1]]
  BY <1>2, <1>3
<1> QED
  BY <1>1, <1>2, <1>4, <1>5, <1>6 DEF q

LEMMA DownIs ==
  ASSUME NEW h, Typed(h), NEW n \in Nodes, NEW p \in SeqNames
  PROVE  /\ Down(h, n, p) \in Has(h, n) \cup {None}
         /\ Down(h, n, p) # None => Down(h, n, p) \in Nodes
BY SeqIs, DownHas, HasClosed

\* To go along two paths is to go along both, one after the other.
LEMMA DownCat ==
  ASSUME NEW h, NEW n, NEW p \in SeqNames, NEW q \in SeqNames
  PROVE  Down(h, n, Cat(p, q)) =
           IF Down(h, n, p) = None THEN None ELSE Down(h, Down(h, n, p), q)
<1> DEFINE m == Down(h, n, p)
           C == {r \in SeqNames : Down(h, n, Cat(p, r)) = IF m = None THEN None ELSE Down(h, m, r)}
<1>1. <<>> \in C
  BY SeqEmpty, SeqCat, DownEmpty
<1>2. ASSUME NEW r \in SeqNames, NEW x \in Names, r \in C
      PROVE  Add(r, x) \in C
  <2>1. Cat(p, Add(r, x)) = Add(Cat(p, r), x) /\ Cat(p, r) \in SeqNames /\ Add(r, x) \in SeqNames
    BY SeqCat, SeqAdd
  <2>2. Down(h, n, Add(Cat(p, r), x)) =
          IF Down(h, n, Cat(p, r)) = None THEN None ELSE h.kids[Down(h, n, Cat(p, r))][x]
    BY <2>1, DownAdd
  <2>3. Down(h, m, Add(r, x)) = IF Down(h, m, r) = None THEN None ELSE h.kids[Down(h, m, r)][x]
    BY DownAdd
  <2> HIDE DEF m
  <2> QED
    BY <2>1, <2>2, <2>3, <1>2
<1>3. SeqNames \subseteq C
  <2> HIDE DEF C
  <2> QED
    BY <1>1, <1>2, SeqInduct
<1> QED
  BY <1>3

\* A change elsewhere makes no difference.
LEMMA DownAway ==
  ASSUME NEW h, Typed(h), NEW g, NEW n \in Nodes, \A a \in Has(h, n) : g.kids[a] = h.kids[a]
  PROVE  \A p \in SeqNames : Down(g, n, p) = Down(h, n, p)
<1> DEFINE C == {p \in SeqNames : Down(g, n, p) = Down(h, n, p)}
<1>1. <<>> \in C
  BY SeqEmpty, DownEmpty
<1>2. ASSUME NEW p \in SeqNames, NEW x \in Names, p \in C
      PROVE  Add(p, x) \in C
  <2>1. Add(p, x) \in SeqNames /\ Down(h, n, p) \in Has(h, n) \cup {None}
    BY SeqAdd, DownIs
  <2>2. Down(h, n, Add(p, x)) = IF Down(h, n, p) = None THEN None ELSE h.kids[Down(h, n, p)][x]
    BY DownAdd
  <2>3. Down(g, n, Add(p, x)) = IF Down(g, n, p) = None THEN None ELSE g.kids[Down(g, n, p)][x]
    BY DownAdd
  <2> QED
    BY <2>1, <2>2, <2>3, <1>2
<1>3. SeqNames \subseteq C
  <2> HIDE DEF C
  <2> QED
    BY <1>1, <1>2, SeqInduct
<1> QED
  BY <1>3

LEMMA HasDown ==
  ASSUME NEW h, Typed(h), NEW n \in Nodes, NEW m \in Has(h, n)
  PROVE  \E p \in SeqNames : Down(h, n, p) = m
<1> DEFINE C == {k \in Has(h, n) : \E p \in SeqNames : Down(h, n, p) = k}
<1>1. n \in C
  BY SeqEmpty, DownEmpty, HasClosed
<1>2. ASSUME NEW a \in C, NEW x \in Names, h.kids[a][x] # None
      PROVE  h.kids[a][x] \in C
  <2>1. PICK p \in SeqNames : Down(h, n, p) = a
    OBVIOUS
  <2>2. a \in Nodes /\ a # None
    BY HasClosed, TreeAssumption
  <2>3. Add(p, x) \in SeqNames /\ Down(h, n, Add(p, x)) = h.kids[a][x]
    BY <2>1, <2>2, SeqAdd, DownAdd
  <2>4. h.kids[a][x] \in Has(h, n)
    BY <1>2, HasChild
  <2> QED
    BY <2>3, <2>4
<1>3. Closed(h, C)
  BY <1>2 DEF Closed
<1>4. Has(h, n) \subseteq C
  <2> HIDE DEF C
  <2> QED
    BY <1>1, <1>3, HasLeast
<1> QED
  BY <1>4

LEMMA DownNotBack ==
  ASSUME NEW h, Linked(h), NEW n \in Nodes, NEW p \in SeqNames, p # <<>>, Down(h, n, p) # None
  PROVE  Down(h, n, p) # n
<1>1. PICK q \in SeqNames, x \in Names : p = Add(q, x)
  BY SeqLast
<1>2. Down(h, n, q) # None /\ Down(h, n, p) = h.kids[Down(h, n, q)][x]
  BY <1>1, DownAdd
<1>3. Down(h, n, q) \in Has(h, n) /\ Down(h, n, q) \in Nodes
  BY <1>2, DownIs DEF Linked
<1>4. SUFFICES ASSUME h.kids[Down(h, n, q)][x] = n PROVE FALSE
  BY <1>2
<1> QED
  BY <1>2, <1>3, <1>4 DEF Linked, NoCycle

LEMMA OneWay ==
  ASSUME NEW h, Linked(h), OneParent(h, Nodes), NEW n \in Nodes,
         NEW p \in SeqNames, NEW q \in SeqNames, Down(h, n, p) # None, Down(h, n, p) = Down(h, n, q)
  PROVE  p = q
<1> DEFINE C == {r \in SeqNames : \A s \in SeqNames :
                   Down(h, n, r) # None /\ Down(h, n, r) = Down(h, n, s) => r = s}
<1>1. <<>> \in C
  <2> SUFFICES ASSUME NEW s \in SeqNames, Down(h, n, <<>>) # None, Down(h, n, <<>>) = Down(h, n, s)
               PROVE  s = <<>>
    BY SeqEmpty
  <2> QED
    BY DownEmpty, DownNotBack
<1>2. ASSUME NEW r \in SeqNames, NEW x \in Names, r \in C
      PROVE  Add(r, x) \in C
  <2> SUFFICES ASSUME NEW s \in SeqNames, Down(h, n, Add(r, x)) # None,
                      Down(h, n, Add(r, x)) = Down(h, n, s)
               PROVE  s = Add(r, x)
    BY SeqAdd
  <2>1. Add(r, x) \in SeqNames /\ Add(r, x) # <<>>
    BY SeqAdd
  <2>2. s # <<>>
    BY <2>1, DownEmpty, DownNotBack
  <2>3. PICK t \in SeqNames, y \in Names : s = Add(t, y)
    BY <2>2, SeqLast
  <2>4. Down(h, n, r) # None /\ Down(h, n, Add(r, x)) = h.kids[Down(h, n, r)][x]
    BY DownAdd
  <2>5. Down(h, n, t) # None /\ Down(h, n, s) = h.kids[Down(h, n, t)][y]
    BY <2>3, DownAdd
  <2>6. Down(h, n, r) \in Nodes /\ Down(h, n, t) \in Nodes
    BY <2>4, <2>5, DownIs DEF Linked
  <2>7. Down(h, n, r) = Down(h, n, t) /\ x = y
    <3> DEFINE a == Down(h, n, r)
               b == Down(h, n, t)
    <3>1. h.kids[a][x] # None /\ h.kids[a][x] = h.kids[b][y] /\ a \in Nodes /\ b \in Nodes
      BY <2>4, <2>5, <2>6
    <3> HIDE DEF a, b
    <3>2. a = b /\ x = y
      BY <3>1 DEF OneParent
    <3> QED
      BY <3>2 DEF a, b
  <2>8. r = t
    BY <1>2, <2>4, <2>7
  <2> QED
    BY <2>3, <2>7, <2>8
<1>3. SeqNames \subseteq C
  <2> HIDE DEF C
  <2> QED
    BY <1>1, <1>2, SeqInduct
<1> QED
  BY <1>3

-----------------------------------------------------------------------------
(* What a change of the links is to paths *)

\* The tree below the child goes, and the new child's comes.
LEMMA LinkDown ==
  ASSUME NEW h, Linked(h), OneParent(h, Nodes), NEW n \in Nodes,
         NEW p \in SeqNames, Down(h, n, p) # None, NEW x \in Names,
         NEW c, NEW g, IsLink(g, h, Down(h, n, p), x, c)
  PROVE  /\ \A q \in SeqNames : ~Starts(Add(p, x), q) => Down(g, n, q) = Down(h, n, q)
         /\ \A r \in SeqNames :
              Down(g, n, Cat(Add(p, x), r)) = IF c = None THEN None ELSE Down(g, c, r)
<1> DEFINE m == Down(h, n, p)
           C == {q \in SeqNames : ~Starts(Add(p, x), q) => Down(g, n, q) = Down(h, n, q)}
<1>0. m \in Nodes /\ m # None
  BY DownIs DEF Linked
<1>1. <<>> \in C
  BY SeqEmpty, DownEmpty
<1>2. ASSUME NEW q \in SeqNames, NEW y \in Names, q \in C
      PROVE  Add(q, y) \in C
  <2> DEFINE d == Down(h, n, q)
  <2>1. Add(q, y) \in SeqNames /\ Add(p, x) \in SeqNames
    BY SeqAdd
  <2> SUFFICES ASSUME ~Starts(Add(p, x), Add(q, y))
               PROVE  Down(g, n, Add(q, y)) = Down(h, n, Add(q, y))
    BY <2>1
  <2>2. ~Starts(Add(p, x), q) /\ Add(p, x) # Add(q, y)
    BY <2>1, StartsFacts
  <2>3. Down(g, n, q) = d
    BY <1>2, <2>2
  <2>4. d # None => d \in Nodes
    BY DownIs DEF Linked
  <2>5. Down(h, n, Add(q, y)) = IF d = None THEN None ELSE h.kids[d][y]
    BY DownAdd
  <2>6. Down(g, n, Add(q, y)) = IF d = None THEN None ELSE g.kids[d][y]
    BY <2>3, DownAdd
  <2>7. d # None => ~(d = m /\ y = x)
    BY <2>2, OneWay
  <2>8. d # None => g.kids[d][y] = h.kids[d][y]
    BY <2>4, <2>7 DEF IsLink
  <2> HIDE DEF d
  <2> QED
    BY <2>5, <2>6, <2>8
<1>3. SeqNames \subseteq C
  <2> HIDE DEF C
  <2> QED
    BY <1>1, <1>2, SeqInduct
<1>4. Down(g, n, p) = m
  <2>1. Len(Add(p, x)) = Len(p) + 1 /\ Len(p) \in Nat /\ Add(p, x) \in SeqNames
    BY SeqAdd, SeqIs
  <2>2. ~Starts(Add(p, x), p)
    BY <2>1, StartsFacts
  <2> QED
    BY <1>3, <2>2
<1>5. Down(g, n, Add(p, x)) = c
  <2>1. Down(g, n, Add(p, x)) = IF m = None THEN None ELSE g.kids[m][x]
    BY <1>4, DownAdd
  <2> QED
    BY <1>0, <2>1 DEF IsLink
<1>6. ASSUME NEW r \in SeqNames
      PROVE  Down(g, n, Cat(Add(p, x), r)) = IF c = None THEN None ELSE Down(g, c, r)
  BY <1>5, SeqAdd, DownCat
<1> QED
  BY <1>3, <1>6

\* The paths from n, and what is at them.
Reach(h, n) == {p \in SeqNames : Down(h, n, p) # None}
Tree(h, n) == [p \in Reach(h, n) |-> h.node[Down(h, n, p)]]
WithinDepth(h, n) == Reach(h, n) \subseteq Paths

LEMMA TreeSame ==
  ASSUME NEW h, NEW g, NEW n, NEW m,
         \A p \in SeqNames : Down(g, m, p) = Down(h, n, p),
         \A p \in Reach(h, n) : g.node[Down(h, n, p)] = h.node[Down(h, n, p)]
  PROVE  Tree(g, m) = Tree(h, n) /\ Reach(g, m) = Reach(h, n)
<1>1. Reach(g, m) = Reach(h, n)
  BY DEF Reach
<1>2. \A p \in Reach(h, n) : g.node[Down(g, m, p)] = h.node[Down(h, n, p)]
  BY DEF Reach
<1> QED
  BY <1>1, <1>2, Zenon DEF Tree

LEMMA TreeAway ==
  ASSUME NEW h, Typed(h), NEW g, NEW n \in Nodes,
         \A a \in Has(h, n) : g.kids[a] = h.kids[a] /\ g.node[a] = h.node[a]
  PROVE  Tree(g, n) = Tree(h, n) /\ Reach(g, n) = Reach(h, n)
<1>1. \A p \in SeqNames : Down(g, n, p) = Down(h, n, p)
  BY DownAway
<1>2. \A p \in Reach(h, n) : g.node[Down(h, n, p)] = h.node[Down(h, n, p)]
  BY DownIs DEF Reach
<1> QED
  BY <1>1, <1>2, TreeSame

LEMMA WalkPathsAre ==
  ASSUME NEW h, NEW n, WithinDepth(h, n)
  PROVE  WalkPaths(h, n) = Reach(h, n)
BY PathsAre DEF WithinDepth, Reach, WalkPaths

\* The tree below a path.
LEMMA AtIs ==
  ASSUME NEW h, NEW n, NEW p \in SeqNames, Down(h, n, p) # None, WithinDepth(h, n)
  PROVE  PathMap!At(Tree(h, n), p) = Tree(h, Down(h, n, p)) /\ WithinDepth(h, Down(h, n, p))
<1> DEFINE m == Down(h, n, p)
<1>1. ASSUME NEW q \in SeqNames
      PROVE  /\ Cat(p, q) \in SeqNames /\ Down(h, n, Cat(p, q)) = Down(h, m, q)
             /\ Len(Cat(p, q)) = Len(p) + Len(q)
  BY DownCat, SeqCat
<1>2. ASSUME NEW q \in SeqNames, Down(h, m, q) # None PROVE q \in Paths
  <2>1. Cat(p, q) \in Paths
    BY <1>1, <1>2 DEF WithinDepth, Reach
  <2>2. Len(p) + Len(q) <= Depth /\ Len(p) \in Nat /\ Len(q) \in Nat /\ Depth \in Nat
    BY <1>1, <2>1, PathsAre, SeqIs, TreeAssumption
  <2> QED
    BY <2>2, PathsAre
<1> HIDE DEF m
<1>3. Reach(h, m) = {q \in Paths : Cat(p, q) \in Reach(h, n)}
  BY <1>1, <1>2, PathsAre DEF Reach
<1>4. \A q \in Reach(h, m) : Tree(h, n)[Cat(p, q)] = h.node[Down(h, m, q)]
  BY <1>1, <1>3 DEF Reach, Tree
<1>5. PathMap!At(Tree(h, n), p) = [q \in {r \in Paths : Cat(p, r) \in Reach(h, n)} |-> Tree(h, n)[Cat(p, q)]]
  BY Zenon DEF PathMap!At, PathMap!Paths, Paths, Cat, Tree
<1>6. PathMap!At(Tree(h, n), p) = Tree(h, m)
  BY <1>3, <1>4, <1>5, Zenon DEF Tree
<1> QED
  BY <1>2, <1>6 DEF m, WithinDepth, Reach

LEMMA MkdirAllAdd ==
  ASSUME NEW h, NEW n, NEW q \in SeqNames, NEW x \in Names
  PROVE  MkdirAll(h, n, Add(q, x)) = MkdirStep(MkdirAll(h, n, q), x)
<1> DEFINE p == Add(q, x)
           l == Len(q)
<1>1. /\ l \in Nat /\ Len(p) = l + 1 /\ p[l + 1] = x /\ (q = <<>> <=> l = 0) /\ p # <<>>
      /\ \A i \in 1..l : p[i] = q[i]
  BY SeqIs, SeqAdd
<1> HIDE DEF p, l
<1>2. PICK f : /\ f[0] = [h |-> h, n |-> n, ok |-> p # <<>> \/ IsDir(h, n)]
               /\ \A k \in 0..(Len(p) - 1) : f[k + 1] = MkdirStep(f[k], p[k + 1])
               /\ MkdirAll(h, n, p) = f[Len(p)]
  BY <1>1, MkdirAllFcn
<1>3. PICK g : /\ g[0] = [h |-> h, n |-> n, ok |-> q # <<>> \/ IsDir(h, n)]
               /\ \A k \in 0..(l - 1) : g[k + 1] = MkdirStep(g[k], q[k + 1])
               /\ MkdirAll(h, n, q) = g[l]
  BY <1>1, MkdirAllFcn DEF l
<1>4. f[l + 1] = MkdirStep(f[l], x)
  BY <1>1, <1>2
<1>5. CASE l = 0
  <2>1. f[0] = [h |-> h, n |-> n, ok |-> TRUE] /\ g[0] = [h |-> h, n |-> n, ok |-> IsDir(h, n)]
    <3>1. (p # <<>> \/ IsDir(h, n)) = TRUE /\ (q # <<>> \/ IsDir(h, n)) = IsDir(h, n)
      BY <1>1, <1>5 DEF IsDir
    <3> QED
      BY <3>1, <1>2, <1>3, Zenon
  <2>0. MkdirAll(h, n, p) = MkdirStep(f[0], x) /\ MkdirAll(h, n, q) = g[0]
    BY <1>1, <1>2, <1>3, <1>4, <1>5
  <2>2. CASE IsDir(h, n)
    <3>1. f[0] = g[0]
      BY <2>1, <2>2
    <3> QED
      BY <2>0, <3>1 DEF p
  <2>3. CASE ~IsDir(h, n)
    <3>1. ~f[0].ok \/ ~IsDir(f[0].h, f[0].n)
      BY <2>1, <2>3
    <3>2. MkdirStep(f[0], x) = [f[0] EXCEPT !.ok = FALSE]
      BY <3>1, Zenon DEF MkdirStep
    <3>3. ~g[0].ok \/ ~IsDir(g[0].h, g[0].n)
      BY <2>1, <2>3
    <3>4. MkdirStep(g[0], x) = [g[0] EXCEPT !.ok = FALSE]
      BY <3>3, Zenon DEF MkdirStep
    <3>5. MkdirStep(f[0], x) = MkdirStep(g[0], x)
      <4>1. ASSUME NEW st, NEW b, st = [h |-> h, n |-> n, ok |-> b], NEW r, r = [st EXCEPT !.ok = FALSE]
            PROVE  r = [h |-> h, n |-> n, ok |-> FALSE]
        BY <4>1
      <4>2. MkdirStep(f[0], x) = [h |-> h, n |-> n, ok |-> FALSE]
        BY <2>1, <3>2, <4>1
      <4>3. MkdirStep(g[0], x) = [h |-> h, n |-> n, ok |-> FALSE]
        BY <2>1, <3>4, <4>1
      <4> QED
        BY <4>2, <4>3, Zenon
    <3> QED
      BY <2>0, <3>5 DEF p
  <2> QED
    BY <2>2, <2>3
<1>6. CASE l # 0
  <2> DEFINE A == {k \in 0..l : f[k] = g[k]}
  <2>1. 0 \in A
    BY <1>1, <1>2, <1>3, <1>6
  <2>2. ASSUME NEW k \in A, k \in 0..(l - 1) PROVE k + 1 \in A
    <3>1. f[k + 1] = MkdirStep(f[k], p[k + 1]) /\ g[k + 1] = MkdirStep(g[k], q[k + 1])
      BY <1>1, <1>2, <1>3, <2>2
    <3>2. p[k + 1] = q[k + 1] /\ f[k] = g[k] /\ k + 1 \in 0..l
      BY <1>1, <2>2
    <3> QED
      BY <3>1, <3>2
  <2>3. 0..l \subseteq A
    <3> HIDE DEF A
    <3> QED
      BY <1>1, <2>1, <2>2, UpTo
  <2>4. f[l] = g[l]
    BY <1>1, <2>3
  <2> QED
    BY <1>1, <1>2, <1>3, <1>4, <2>4 DEF p
<1> QED
  BY <1>5, <1>6

\* All directories are there: none is made.
LEMMA MkdirAllThere ==
  ASSUME NEW h, Linked(h), NEW n \in Nodes, NEW p \in SeqNames, Down(h, n, p) # None,
         IsDir(h, Down(h, n, p))
  PROVE  MkdirAll(h, n, p) = [h |-> h, n |-> Down(h, n, p), ok |-> TRUE]
<1> DEFINE C == {q \in SeqNames : (q = <<>> => IsDir(h, n)) /\ Down(h, n, q) # None =>
                   MkdirAll(h, n, q) = [h |-> h, n |-> Down(h, n, q), ok |-> TRUE]}
<1>1. <<>> \in C
  <2>1. SUFFICES ASSUME IsDir(h, n) PROVE MkdirAll(h, n, <<>>) = [h |-> h, n |-> n, ok |-> TRUE]
    BY SeqEmpty, DownEmpty
  <2>2. PICK at : /\ at[0] = [h |-> h, n |-> n, ok |-> <<>> # <<>> \/ IsDir(h, n)]
                  /\ MkdirAll(h, n, <<>>) = at[Len(<<>>)]
    BY MkdirAllFcn
  <2> QED
    BY <2>1, <2>2
<1>2. ASSUME NEW q \in SeqNames, NEW x \in Names, q \in C
      PROVE  Add(q, x) \in C
  <2> DEFINE d == Down(h, n, q)
             e == h.kids[d][x]
  <2>1. Add(q, x) \in SeqNames
    BY SeqAdd
  <2> SUFFICES ASSUME Down(h, n, Add(q, x)) # None
               PROVE  MkdirAll(h, n, Add(q, x)) = [h |-> h, n |-> Down(h, n, Add(q, x)), ok |-> TRUE]
    BY <2>1
  <2>2. d # None /\ Down(h, n, Add(q, x)) = e /\ d \in Nodes
    BY DownAdd, DownIs DEF Linked
  <2>3. IsDir(h, d) /\ e # None
    BY <2>2 DEF Linked, OnlyDirs, NoKids
  <2>4. MkdirAll(h, n, q) = [h |-> h, n |-> d, ok |-> TRUE]
    BY <1>2, <2>2, <2>3, DownEmpty
  <2> HIDE DEF d
  <2>5. MkdirStep([h |-> h, n |-> d, ok |-> TRUE], x) = [h |-> h, n |-> e, ok |-> TRUE]
    <3> DEFINE st == [h |-> h, n |-> d, ok |-> TRUE]
    <3>1. st.ok /\ st.h = h /\ st.n = d
      OBVIOUS
    <3> HIDE DEF st
    <3>2. MkdirStep(st, x) = [st EXCEPT !.n = st.h.kids[st.n][x]]
      BY <2>3, <3>1, Zenon DEF MkdirStep
    <3> QED
      BY <3>1, <3>2 DEF st
  <2> QED
    <3>1. MkdirAll(h, n, Add(q, x)) = MkdirStep(MkdirAll(h, n, q), x)
      BY MkdirAllAdd
    <3> QED
      BY <2>2, <2>4, <2>5, <3>1, Zenon
<1>3. SeqNames \subseteq C
  <2> HIDE DEF C
  <2> QED
    BY <1>1, <1>2, SeqInduct
<1> QED
  BY <1>3, DownEmpty

LEMMA HasInUse ==
  ASSUME NEW h, Linked(h), NEW n \in InUse(h)
  PROVE  Has(h, n) \subseteq InUse(h) /\ n \in Nodes
<1>1. Closed(h, InUse(h))
  BY DEF Closed, Linked, NoDangling, InUse
<1> QED
  BY <1>1, HasLeast DEF InUse

\* What MkdirAll makes of the paths from n: new directories on the way to q, where only
\* directories were.
MkdirMap(st, h, n, q) ==
  st.ok =>
    /\ Down(st.h, n, q) = st.n
    /\ \A r \in Reach(h, n) : Down(st.h, n, r) = Down(h, n, r)
    /\ \A r \in Reach(st.h, n) \ Reach(h, n) :
         Starts(r, q) /\ Down(st.h, n, r) \notin InUse(h) /\ IsDir(st.h, Down(st.h, n, r))
    /\ \A r \in Reach(h, n) : Starts(r, q) /\ r # q => IsDir(h, Down(h, n, r))
    /\ \A k \in InUse(h) : st.h.node[k] = h.node[k]
    /\ \A k \in InUse(h) : st.h.kids[k] = h.kids[k]
                           \/ \E r \in Reach(h, n) : Starts(r, q) /\ r # q /\ k = Down(h, n, r)

LEMMA StartsBefore ==
  ASSUME NEW q \in SeqNames, NEW x \in Names, NEW r \in SeqNames
  PROVE  Starts(r, Add(q, x)) /\ r # Add(q, x) <=> Starts(r, q)
<1>1. Add(q, x) \in SeqNames /\ Len(Add(q, x)) = Len(q) + 1 /\ Len(q) \in Nat
  BY SeqAdd, SeqIs
<1>2. Starts(r, Add(q, x)) <=> Starts(r, q) \/ r = Add(q, x)
  BY StartsFacts
<1>3. Starts(r, q) => r # Add(q, x)
  BY <1>1, StartsFacts
<1> QED
  BY <1>2, <1>3

LEMMA MkdirStepMap ==
  ASSUME NEW h, Linked(h), NEW n \in InUse(h), NEW q \in SeqNames, FreeCount(h) > Len(q),
         NEW st, MkdirInv(st, h, n, Len(q)), MkdirMap(st, h, n, q), NEW x \in Names
  PROVE  MkdirMap(MkdirStep(st, x), h, n, Add(q, x))
<1> DEFINE s == MkdirStep(st, x)
           p == Add(q, x)
           f == st.h
           m == st.n
<1>1. /\ st = [h |-> f, n |-> m, ok |-> st.ok]
      /\ Grows(f, h, n) /\ m \in InUse(f) /\ m \in Has(f, n)
      /\ FreeCount(f) + Len(q) >= FreeCount(h)
      /\ f # h => st.ok /\ IsDir(f, m) /\ f.kids[m] = NoKids
  BY DEF MkdirInv
<1>2. FreeCount(f) > 0 /\ Len(q) \in Nat
  BY <1>1, FreeFinite, SeqIs
<1>3. Typed(f) /\ Linked(f) /\ m \in Nodes /\ n \in Nodes /\ OneParent(f, Nodes) /\ InUse(h) \subseteq InUse(f)
  BY <1>1 DEF Grows, Linked, InUse
<1>4. CASE ~st.ok \/ ~IsDir(f, m)
  <2>1. s = [st EXCEPT !.ok = FALSE]
    BY <1>4, Zenon DEF MkdirStep
  <2>2. s.ok = FALSE
    BY <1>1, <2>1
  <2> HIDE DEF s
  <2>3. MkdirMap(s, h, n, p)
    BY <2>2 DEF MkdirMap
  <2> QED
    BY <2>3 DEF s
<1>old. ASSUME st.ok
        PROVE  /\ Down(f, n, q) = m
               /\ \A r \in Reach(h, n) : Down(f, n, r) = Down(h, n, r)
               /\ \A r \in Reach(f, n) \ Reach(h, n) :
                    Starts(r, q) /\ Down(f, n, r) \notin InUse(h) /\ IsDir(f, Down(f, n, r))
               /\ \A r \in Reach(h, n) : Starts(r, q) /\ r # q => IsDir(h, Down(h, n, r))
               /\ \A k \in InUse(h) : f.node[k] = h.node[k]
               /\ \A k \in InUse(h) : f.kids[k] = h.kids[k]
                                      \/ \E r \in Reach(h, n) : Starts(r, q) /\ r # q /\ k = Down(h, n, r)
  BY <1>old DEF MkdirMap
<1>p. p \in SeqNames /\ \A r \in SeqNames : Starts(r, p) /\ r # p <=> Starts(r, q)
  BY SeqAdd, StartsBefore
<1> HIDE DEF p
<1>dirs. ASSUME st.ok, IsDir(f, m), NEW r \in Reach(h, n), Starts(r, q)
         PROVE  IsDir(h, Down(h, n, r))
  <2>1. CASE r # q
    BY <1>old, <1>dirs, <2>1
  <2>2. CASE r = q
    <3>1. Down(h, n, q) = m /\ m # None
      BY <1>old, <1>dirs, <2>2 DEF Reach
    <3>2. m \in InUse(h)
      BY <3>1, <2>2, <1>3, DownIs, HasInUse DEF Linked, Reach
    <3> QED
      BY <3>1, <3>2, <2>2, <1>old, <1>dirs DEF IsDir
  <2> QED
    BY <2>1, <2>2
<1>5. CASE st.ok /\ IsDir(f, m) /\ f.kids[m][x] # None
  <2>1. s = [st EXCEPT !.n = f.kids[m][x]]
    BY <1>5, Zenon DEF MkdirStep
  <2>2. s.h = f /\ s.n = f.kids[m][x]
    BY <1>1, <2>1
  <2> HIDE DEF s
  <2>3. f = h
    BY <1>1, <1>5 DEF NoKids
  <2>4. Down(f, n, p) = s.n
    BY <1>old, <1>5, <2>2, <1>3, DownAdd, TreeAssumption DEF p
  <2>5. \A r \in Reach(h, n) : Starts(r, p) /\ r # p => IsDir(h, Down(h, n, r))
    BY <1>p, <1>dirs, <1>5 DEF Reach
  <2>6. MkdirMap(s, h, n, p)
    BY <1>old, <1>5, <2>2, <2>3, <2>4, <2>5, Zenon DEF MkdirMap
  <2> QED
    BY <2>6 DEF s, p
<1>6. CASE st.ok /\ IsDir(f, m) /\ f.kids[m][x] = None
  <2> DEFINE k == NewNode(f)
             g0 == New(f, Dir)
             g == s.h
  <2>2. /\ s = [h |-> g, n |-> k, ok |-> st.ok]
        /\ k \in FreeNodes(f) /\ IsNew(g0, f, k, Dir) /\ IsLink(g, g0, m, x, k)
    BY <1>1, <1>2, <1>3, <1>6, MkdirStepNew
  <2> HIDE DEF g0, k
  <2>3. k \in Nodes /\ f.kids[k] = NoKids /\ k \notin InUse(f) /\ k # None /\ k # m
    BY <1>1, <1>3, <2>2, FreeAlone, TreeAssumption DEF InUse
  <2>4. Linked(g0) /\ OneParent(g0, Nodes) /\ Typed(g0)
    BY <1>3, <2>2, NewLinked DEF Linked
  <2>5. \A r \in SeqNames : Down(g0, n, r) = Down(f, n, r)
    <3>1. \A a \in Has(f, n) : g0.kids[a] = f.kids[a]
      BY <2>2 DEF IsNew
    <3> QED
      BY <3>1, <1>3, DownAway
  <2>6. s.n = k /\ s.ok = st.ok
    BY <2>2
  <2> HIDE DEF s
  <2>7. Down(g0, n, q) = m /\ m # None
    BY <2>5, <1>old, <1>6, <1>3, TreeAssumption
  <2>8. /\ \A r \in SeqNames : ~Starts(p, r) => Down(g, n, r) = Down(f, n, r)
        /\ \A u \in SeqNames : Down(g, n, Cat(p, u)) = Down(g, k, u)
    <3>1. IsLink(g, g0, Down(g0, n, q), x, k)
      BY <2>2, <2>7
    <3> QED
      BY <3>1, <2>3, <2>4, <2>5, <2>7, <1>3, LinkDown DEF p
  <2>9. ASSUME NEW u \in SeqNames, u # <<>> PROVE Down(g, k, u) = None
    <3>1. \A y \in Names : g.kids[k][y] = None
      BY <2>2, <2>3 DEF IsLink, IsNew, NoKids
    <3>2. Closed(g, {k})
      BY <3>1 DEF Closed
    <3>3. PICK v \in SeqNames, y \in Names : u = Add(v, y)
      BY <2>9, SeqLast
    <3>4. Typed(g)
      BY <2>2 DEF IsLink
    <3>5. Down(g, k, v) \in {k, None}
      BY <3>2, <3>4, <2>3, HasLeast, DownIs
    <3> QED
      BY <3>1, <3>3, <3>5, DownAdd
  <2>10. Down(g, n, p) = k
    BY <2>8, SeqEmpty, SeqCat, DownEmpty, <1>p
  <2>11. ASSUME NEW r \in SeqNames, Starts(p, r) PROVE Down(f, n, r) = None
    <3>1. Down(f, n, p) = None
      BY <1>old, <1>6, DownAdd DEF p
    <3>2. PICK u \in SeqNames : r = Cat(p, u)
      BY <2>11 DEF Starts
    <3> QED
      BY <3>1, <3>2, <1>p, DownCat
  <2>12. ASSUME NEW r \in Reach(h, n) PROVE Down(g, n, r) = Down(h, n, r)
    <3>1. Down(f, n, r) = Down(h, n, r) /\ Down(h, n, r) # None /\ r \in SeqNames
      BY <1>old, <1>6 DEF Reach
    <3> QED
      BY <3>1, <2>8, <2>11
  <2>13. g.node = [f.node EXCEPT ![k] = Dir]
    BY <2>2 DEF IsLink, IsNew
  <2>14. f.node[k] = Free /\ Free # Dir /\ f.node \in [Nodes -> Files \cup {Dir, Free}]
    BY <2>2, <1>3, TreeAssumption DEF FreeNodes, Typed
  <2>15. ASSUME NEW r \in Reach(g, n) \ Reach(h, n)
         PROVE  Starts(r, p) /\ Down(g, n, r) \notin InUse(h) /\ IsDir(g, Down(g, n, r))
    <3>0. r \in SeqNames
      BY DEF Reach
    <3>1. CASE ~Starts(p, r)
      <4>1. Down(g, n, r) = Down(f, n, r) /\ r \in Reach(f, n) \ Reach(h, n)
        BY <3>0, <3>1, <2>8 DEF Reach
      <4>2. Starts(r, q) /\ Down(f, n, r) \notin InUse(h) /\ IsDir(f, Down(f, n, r))
        BY <4>1, <1>old, <1>6
      <4>3. Down(f, n, r) \in Nodes
        BY <4>1, <1>3, DownIs DEF Reach
      <4> QED
        BY <3>0, <4>1, <4>2, <4>3, <1>p, <2>13, <2>14 DEF IsDir
    <3>2. CASE Starts(p, r)
      <4>1. PICK u \in SeqNames : r = Cat(p, u)
        BY <3>2 DEF Starts
      <4>2. u = <<>>
        BY <4>1, <2>8, <2>9 DEF Reach
      <4>3. r = p
        BY <4>1, <4>2, <1>p, SeqCat
      <4> QED
        BY <4>3, <2>10, <2>3, <1>3, <2>13, <2>14, <1>p, StartsFacts DEF IsDir
    <3> QED
      BY <3>1, <3>2
  <2>16. \A r \in Reach(h, n) : Starts(r, p) /\ r # p => IsDir(h, Down(h, n, r))
    BY <1>p, <1>dirs, <1>6 DEF Reach
  <2>17. \A a \in InUse(h) : g.node[a] = h.node[a]
    <3>1. \A a \in InUse(h) : a \in Nodes /\ a # k /\ f.node[a] = h.node[a]
      BY <1>old, <1>6, <1>3, <2>3 DEF InUse
    <3> QED
      BY <3>1, <2>13, <2>14
  <2>18. ASSUME NEW a \in InUse(h)
         PROVE  g.kids[a] = h.kids[a]
                \/ \E r \in Reach(h, n) : Starts(r, p) /\ r # p /\ a = Down(h, n, r)
    <3>1. CASE a = m
      <4>1. q \in Reach(f, n)
        BY <2>7, <2>5 DEF Reach
      <4>2. q \in Reach(h, n)
        BY <4>1, <3>1, <2>18, <1>old, <1>6
      <4>3. Starts(q, q)
        BY StartsFacts
      <4> QED
        BY <4>2, <4>3, <3>1, <1>p, <1>old, <1>6
    <3>2. CASE a # m
      <4>1. g.kids[a] = f.kids[a]
        <5>1. \A y \in Names : g.kids[a][y] = f.kids[a][y]
          BY <3>2, <2>2 DEF IsLink, IsNew, InUse
        <5>2. g.kids[a] \in [Names -> Nodes \cup {None}] /\ f.kids[a] \in [Names -> Nodes \cup {None}]
          BY <2>2, <1>3 DEF IsLink, Typed, InUse
        <5> QED
          BY <5>1, <5>2
      <4>2. CASE f.kids[a] = h.kids[a]
        BY <4>1, <4>2
      <4>3. CASE \E r \in Reach(h, n) : Starts(r, q) /\ r # q /\ a = Down(h, n, r)
        BY <4>3, <1>p DEF Reach
      <4> QED
        BY <4>2, <4>3, <1>old, <1>6
    <3> QED
      BY <3>1, <3>2
  <2>19. MkdirMap(s, h, n, p)
    BY <2>6, <2>10, <2>12, <2>15, <2>16, <2>17, <2>18, Zenon DEF MkdirMap
  <2> QED
    BY <2>19 DEF s, p
<1> QED
  BY <1>4, <1>5, <1>6

LEMMA MkdirAllMap ==
  ASSUME NEW h, Linked(h), OneParent(h, Nodes), NEW n \in InUse(h),
         NEW p \in SeqNames, FreeCount(h) >= Len(p)
  PROVE  MkdirMap(MkdirAll(h, n, p), h, n, p) /\ MkdirInv(MkdirAll(h, n, p), h, n, Len(p))
<1> DEFINE C == {q \in SeqNames : FreeCount(h) >= Len(q) => MkdirMap(MkdirAll(h, n, q), h, n, q)}
<1>0. FreeCount(h) \in Nat /\ n \in Nodes
  BY FreeFinite DEF InUse
<1>1. <<>> \in C
  <2>1. PICK at : /\ at[0] = [h |-> h, n |-> n, ok |-> <<>> # <<>> \/ IsDir(h, n)]
                  /\ MkdirAll(h, n, <<>>) = at[Len(<<>>)]
    BY MkdirAllFcn
  <2>2. MkdirAll(h, n, <<>>).h = h /\ MkdirAll(h, n, <<>>).n = n
    BY <2>1
  <2>3. \A r \in SeqNames : Starts(r, <<>>) => r = <<>>
    BY SeqEmpty, SeqIs, StartsFacts
  <2>4. MkdirMap(MkdirAll(h, n, <<>>), h, n, <<>>)
    BY <2>2, <2>3, DownEmpty DEF MkdirMap, Reach
  <2> QED
    BY <2>4, SeqEmpty
<1>2. ASSUME NEW q \in SeqNames, NEW x \in Names, q \in C
      PROVE  Add(q, x) \in C
  <2>1. Add(q, x) \in SeqNames /\ Len(Add(q, x)) = Len(q) + 1 /\ Len(q) \in Nat /\ q \in [1..Len(q) -> Names]
    BY SeqAdd, SeqIs
  <2> SUFFICES ASSUME FreeCount(h) >= Len(q) + 1
               PROVE  MkdirMap(MkdirAll(h, n, Add(q, x)), h, n, Add(q, x))
    BY <2>1
  <2>2. FreeCount(h) > Len(q) /\ FreeCount(h) >= Len(q)
    BY <1>0, <2>1
  <2>3. MkdirInv(MkdirAll(h, n, q), h, n, Len(q))
    BY <2>1, <2>2, MkdirAllInv
  <2>4. MkdirMap(MkdirAll(h, n, q), h, n, q)
    BY <1>2, <2>2
  <2>5. MkdirMap(MkdirStep(MkdirAll(h, n, q), x), h, n, Add(q, x))
    BY <2>2, <2>3, <2>4, MkdirStepMap
  <2> QED
    BY <2>5, MkdirAllAdd
<1>3. SeqNames \subseteq C
  <2> HIDE DEF C
  <2> QED
    BY <1>1, <1>2, SeqInduct
<1>4. MkdirInv(MkdirAll(h, n, p), h, n, Len(p))
  BY SeqIs, MkdirAllInv
<1> QED
  BY <1>3, <1>4

-----------------------------------------------------------------------------
(* PathMap's operators, on paths of any length *)

LEMMA CutIs ==
  ASSUME NEW p \in SeqNames, NEW k \in 0..Len(p)
  PROVE  /\ SubSeq(p, 1, k) \in SeqNames /\ Len(SubSeq(p, 1, k)) = k
         /\ Starts(SubSeq(p, 1, k), p)
<1>1. p \in Seq(Names) /\ Len(p) \in Nat /\ \A i \in 1..Len(p) : p[i] \in Names
  BY LenProperties, ElementOfSeq DEF SeqNames
<1> DEFINE a == SubSeq(p, 1, k)
           b == SubSeq(p, k + 1, Len(p))
<1>2. a \in Seq(Names) /\ Len(a) = IF 1 <= k THEN k - 1 + 1 ELSE 0
  <2>1. \A i \in 1..k : p[i] \in Names
    BY <1>1
  <2> QED
    BY <2>1, <1>1, SubSeqProperties
<1>3. b \in Seq(Names)
  <2>1. \A i \in (k + 1)..Len(p) : p[i] \in Names
    BY <1>1
  <2> QED
    BY <2>1, <1>1, SubSeqProperties
<1>4. a \o b = SubSeq(p, 1, Len(p))
  <2>1. 1 \in 1..(Len(p) + 1) /\ k \in (1 - 1)..Len(p) /\ Len(p) \in k..Len(p)
    BY <1>1
  <2> QED
    BY <2>1, <1>1, ConcatAdjacentSubSeq
<1>5. SubSeq(p, 1, Len(p)) = p
  BY <1>1, SubSeqFull
<1> HIDE DEF a, b
<1>6. Len(a) = k
  BY <1>1, <1>2
<1>7. Starts(a, p)
  BY <1>3, <1>4, <1>5, Zenon DEF Starts, Cat, SeqNames
<1> QED
  BY <1>2, <1>6, <1>7 DEF SeqNames, a

LEMMA CutOfCat ==
  ASSUME NEW p \in SeqNames, NEW u \in SeqNames
  PROVE  /\ SubSeq(Cat(p, u), 1, Len(p)) = p
         /\ SubSeq(Cat(p, u), Len(p) + 1, Len(Cat(p, u))) = u
<1> DEFINE q == Cat(p, u)
           a == SubSeq(q, 1, Len(p))
           b == SubSeq(q, Len(p) + 1, Len(q))
<1>1. /\ p \in Seq(Names) /\ u \in Seq(Names) /\ q \in Seq(Names)
      /\ Len(p) \in Nat /\ Len(u) \in Nat /\ Len(q) = Len(p) + Len(u)
      /\ \A i \in 1..(Len(p) + Len(u)) : q[i] = IF i <= Len(p) THEN p[i] ELSE u[i - Len(p)]
  BY ConcatProperties, LenProperties DEF SeqNames, Cat
<1> HIDE DEF q
<1>2. \A i \in 1..Len(q) : q[i] \in Names
  BY <1>1, ElementOfSeq
<1>3. a \in Seq(Names) /\ Len(a) = Len(p) /\ \A i \in 1..Len(p) : a[i] = q[i]
  <2>1. \A i \in 1..Len(p) : q[i] \in Names
    BY <1>1, <1>2
  <2>2. a \in Seq(Names) /\ Len(a) = (IF 1 <= Len(p) THEN Len(p) - 1 + 1 ELSE 0)
        /\ \A i \in 1..(Len(p) - 1 + 1) : a[i] = q[1 + i - 1]
    BY <2>1, <1>1, SubSeqProperties
  <2> HIDE DEF a
  <2> QED
    BY <1>1, <2>2
<1>4. b \in Seq(Names) /\ Len(b) = Len(u) /\ \A i \in 1..Len(u) : b[i] = q[Len(p) + i]
  <2>1. \A i \in (Len(p) + 1)..Len(q) : q[i] \in Names
    BY <1>1, <1>2
  <2>2. b \in Seq(Names) /\ Len(b) = (IF Len(p) + 1 <= Len(q) THEN Len(q) - (Len(p) + 1) + 1 ELSE 0)
        /\ \A i \in 1..(Len(q) - (Len(p) + 1) + 1) : b[i] = q[Len(p) + 1 + i - 1]
    BY <2>1, <1>1, SubSeqProperties
  <2> DEFINE m == Len(p)
             l == Len(u)
  <2> HIDE DEF b, m, l
  <2>3. m \in Nat /\ l \in Nat /\ Len(q) = m + l
    BY <1>1 DEF m, l
  <2>4. (IF m + 1 <= Len(q) THEN Len(q) - (m + 1) + 1 ELSE 0) = l /\ Len(q) - (m + 1) + 1 = l
    BY <2>3
  <2>5. Len(b) = l /\ \A i \in 1..l : b[i] = q[m + 1 + i - 1]
    BY <2>2, <2>4 DEF m
  <2>6. \A i \in 1..l : m + 1 + i - 1 = m + i
    BY <2>3
  <2> QED
    BY <2>2, <2>5, <2>6 DEF m, l
<1> HIDE DEF a, b
<1>5. a = p
  BY <1>1, <1>3, SeqEqual
<1>6. b = u
  <2>1. \A i \in 1..Len(b) : b[i] = u[i]
    <3> SUFFICES ASSUME NEW i \in 1..Len(u) PROVE b[i] = u[i]
      BY <1>4
    <3>1. PICK j : j = Len(p) + i
      OBVIOUS
    <3>2. j \in 1..(Len(p) + Len(u)) /\ ~(j <= Len(p)) /\ j - Len(p) = i
      BY <3>1, <1>1
    <3>3. q[j] = u[j - Len(p)]
      BY <3>2, <1>1
    <3> QED
      BY <3>1, <3>2, <3>3, <1>4
  <2> QED
    BY <2>1, <1>1, <1>4, SeqEqual
<1> QED
  BY <1>5, <1>6 DEF a, b, q

LEMMA PrefixIs ==
  ASSUME NEW p \in SeqNames, NEW q \in SeqNames
  PROVE  PathMap!S!IsPrefix(p, q) <=> Starts(p, q)
<1>1. SubSeq(p, 1, Len(p)) = p /\ Len(p) \in Nat /\ Len(q) \in Nat
  BY SubSeqFull, SeqIs DEF SeqNames
<1>2. ASSUME Len(p) <= Len(q), p = SubSeq(q, 1, Len(p)) PROVE Starts(p, q)
  <2>1. Len(p) \in 0..Len(q)
    BY <1>1, <1>2
  <2> QED
    BY <2>1, <1>2, CutIs
<1>3. ASSUME Starts(p, q) PROVE Len(p) <= Len(q) /\ p = SubSeq(q, 1, Len(p))
  <2>1. PICK r \in SeqNames : q = Cat(p, r)
    BY <1>3 DEF Starts
  <2> QED
    BY <2>1, <1>3, CutOfCat, StartsFacts
<1> QED
  BY <1>1, <1>2, <1>3, Zenon DEF PathMap!S!IsPrefix

LEMMA AboveIs ==
  ASSUME NEW p \in SeqNames, NEW q
  PROVE  q \in PathMap!Above(p) <=> q \in SeqNames /\ Starts(q, p) /\ q # p
<1>1. ASSUME q \in PathMap!Above(p) PROVE q \in SeqNames /\ Starts(q, p) /\ q # p
  <2>1. PICK k \in 0..(Len(p) - 1) : q = SubSeq(p, 1, k)
    BY <1>1 DEF PathMap!Above
  <2>2. k \in 0..Len(p) /\ k # Len(p)
    BY <2>1, SeqIs
  <2> QED
    BY <2>1, <2>2, CutIs
<1>2. ASSUME q \in SeqNames, Starts(q, p), q # p PROVE q \in PathMap!Above(p)
  <2>1. Len(q) \in Nat /\ Len(p) \in Nat /\ Len(q) <= Len(p) /\ Len(q) # Len(p)
    BY <1>2, StartsFacts, SeqIs
  <2>2. q = SubSeq(p, 1, Len(q))
    BY <1>2, CutOfCat DEF Starts
  <2>3. Len(q) \in 0..(Len(p) - 1)
    BY <2>1
  <2> QED
    BY <2>2, <2>3, Zenon DEF PathMap!Above
<1> QED
  BY <1>1, <1>2

LEMMA WithoutIs ==
  ASSUME NEW T, DOMAIN T \subseteq SeqNames, NEW p \in SeqNames
  PROVE  PathMap!Without(T, p) = [q \in {r \in DOMAIN T : ~Starts(p, r)} |-> T[q]]
<1>1. {r \in DOMAIN T : ~PathMap!S!IsPrefix(p, r)} = {r \in DOMAIN T : ~Starts(p, r)}
  BY PrefixIs
<1> QED
  BY <1>1, Zenon DEF PathMap!Without

\* G is T with s at p.
IsGraft(G, D, T, p, s) ==
  /\ G = [q \in D |-> G[q]]
  /\ DOMAIN T \subseteq SeqNames /\ DOMAIN s \subseteq SeqNames /\ D \subseteq SeqNames
  /\ \A q \in SeqNames :
       q \in D <=> \/ \E u \in DOMAIN s : q = Cat(p, u)
                   \/ q \in DOMAIN T /\ ~Starts(p, q)
                   \/ Starts(q, p) /\ q # p
  /\ \A u \in DOMAIN s : G[Cat(p, u)] = s[u]
  /\ \A q \in DOMAIN T : ~Starts(p, q) => G[q] = T[q]
  /\ \A q \in D : q \notin DOMAIN T /\ ~Starts(p, q) => G[q] = Dir

LEMMA GraftIs ==
  ASSUME NEW T, NEW s, NEW p \in SeqNames, NEW D, NEW G, IsGraft(G, D, T, p, s)
  PROVE  G = PathMap!Graft(T, p, s)
<1>0. /\ G = [q \in D |-> G[q]]
      /\ DOMAIN T \subseteq SeqNames /\ DOMAIN s \subseteq SeqNames /\ D \subseteq SeqNames
      /\ \A q \in SeqNames :
           q \in D <=> \/ \E u \in DOMAIN s : q = Cat(p, u)
                       \/ q \in DOMAIN T /\ ~Starts(p, q)
                       \/ Starts(q, p) /\ q # p
      /\ \A u \in DOMAIN s : G[Cat(p, u)] = s[u]
      /\ \A q \in DOMAIN T : ~Starts(p, q) => G[q] = T[q]
      /\ \A q \in D : q \notin DOMAIN T /\ ~Starts(p, q) => G[q] = Dir
  BY DEF IsGraft
<1> DEFINE rest == PathMap!Without(T, p)
           E == {p \o r : r \in DOMAIN s} \cup DOMAIN rest \cup PathMap!Above(p)
           F(q) == CASE PathMap!S!IsPrefix(p, q) -> s[SubSeq(q, Len(p) + 1, Len(q))]
                     [] q \in DOMAIN rest -> rest[q]
                     [] OTHER -> Dir
<1>1. PathMap!Graft(T, p, s) = [q \in E |-> F(q)]
  BY Zenon DEF PathMap!Graft
<1>2. DOMAIN rest = {q \in DOMAIN T : ~Starts(p, q)} /\ \A q \in DOMAIN rest : rest[q] = T[q]
  <2>1. rest = [q \in {r \in DOMAIN T : ~Starts(p, r)} |-> T[q]]
    BY <1>0, WithoutIs
  <2> HIDE DEF rest
  <2> QED
    BY <2>1
<1> HIDE DEF rest
<1>3. E = D
  <2>1. {p \o r : r \in DOMAIN s} = {Cat(p, r) : r \in DOMAIN s}
    BY Zenon DEF Cat
  <2>2. \A u \in DOMAIN s : Cat(p, u) \in SeqNames
    BY <1>0, SeqCat
  <2>3. \A q : q \in E => q \in SeqNames
    BY <2>1, <2>2, <1>0, <1>2, AboveIs
  <2>4. \A q \in SeqNames : q \in E <=> q \in D
    BY <2>1, <1>0, <1>2, AboveIs
  <2> HIDE DEF E
  <2> QED
    BY <2>3, <2>4, <1>0
<1> HIDE DEF E
<1>4. ASSUME NEW q \in D PROVE F(q) = G[q]
  <2>0. q \in SeqNames /\ (PathMap!S!IsPrefix(p, q) <=> Starts(p, q))
    BY <1>0, PrefixIs
  <2>1. CASE Starts(p, q)
    <3>1. PICK u \in SeqNames : q = Cat(p, u)
      BY <2>1 DEF Starts
    <3>2. PICK v \in DOMAIN s : q = Cat(p, v)
      <4>1. ~(Starts(q, p) /\ q # p)
        BY <2>0, <2>1, StartsFacts, SeqIs
      <4> QED
        BY <1>0, <2>0, <2>1, <4>1
    <3>3. SubSeq(q, Len(p) + 1, Len(q)) = v
      BY <1>0, <3>2, CutOfCat
    <3>4. F(q) = s[v]
      BY <2>0, <2>1, <3>3, <1>2
    <3> QED
      BY <1>0, <3>2, <3>4
  <2>2. CASE ~Starts(p, q) /\ q \in DOMAIN T
    BY <1>0, <2>0, <2>2, <1>2
  <2>3. CASE ~Starts(p, q) /\ q \notin DOMAIN T
    BY <1>0, <2>0, <2>3, <1>2
  <2> QED
    BY <2>1, <2>2, <2>3
<1> HIDE DEF F
<1>5. [q \in E |-> F(q)] = [q \in D |-> G[q]]
  BY <1>3, <1>4
<1> QED
  BY <1>0, <1>1, <1>5, Zenon

-----------------------------------------------------------------------------
(* What Set is to paths *)

LEMMA FrontAdd ==
  ASSUME NEW q \in SeqNames, NEW x \in Names, Add(q, x) \in Paths
  PROVE  S!Front(Add(q, x)) = q /\ S!Last(Add(q, x)) = x
<1> DEFINE p == Add(q, x)
           f == S!Front(p)
           l == Len(q)
<1>1. /\ l \in Nat /\ Len(p) = l + 1 /\ p # <<>> /\ p[l + 1] = x
      /\ \A i \in 1..l : p[i] = q[i]
  BY SeqIs, SeqAdd
<1>2. p \in Paths
  OBVIOUS
<1> HIDE DEF p, l
<1>3. /\ f \in [1..(Len(p) - 1) -> Names] /\ \A i \in 1..(Len(p) - 1) : f[i] = p[i]
      /\ S!Last(p) = p[Len(p)]
  BY <1>1, <1>2, FrontIs
<1> HIDE DEF f
<1>4. Len(p) - 1 = l
  BY <1>1
<1>5. f \in [1..l -> Names] /\ \A i \in 1..l : f[i] = q[i]
  BY <1>1, <1>3, <1>4
<1>6. q \in [1..l -> Names]
  BY SeqIs DEF l
<1>7. f = q
  <2>1. f = [i \in 1..l |-> f[i]] /\ q = [i \in 1..l |-> q[i]]
    BY <1>5, <1>6
  <2>2. [i \in 1..l |-> f[i]] = [i \in 1..l |-> q[i]]
    BY <1>5, Zenon
  <2> QED
    BY <2>1, <2>2, Zenon
<1> QED
  BY <1>1, <1>3, <1>7 DEF f, p

LEMMA StartsMore ==
  ASSUME NEW p \in SeqNames, NEW q \in SeqNames
  PROVE  /\ \A r \in SeqNames : Starts(p, q) /\ Starts(q, r) => Starts(p, r)
         /\ Starts(p, q) /\ Starts(q, p) => p = q
         /\ Starts(p, Cat(p, q))
         /\ Starts(p, <<>>) => p = <<>>
<1>1. ASSUME NEW r \in SeqNames, Starts(p, q), Starts(q, r) PROVE Starts(p, r)
  <2>1. PICK u \in SeqNames, v \in SeqNames : q = Cat(p, u) /\ r = Cat(q, v)
    BY <1>1 DEF Starts
  <2>2. r = Cat(p, Cat(u, v)) /\ Cat(u, v) \in SeqNames
    BY <2>1, CatCat, SeqCat
  <2> QED
    BY <2>2 DEF Starts
<1>2. ASSUME Starts(p, q), Starts(q, p) PROVE p = q
  BY <1>2, StartsFacts, SeqIs
<1>3. Starts(p, Cat(p, q))
  BY DEF Starts
<1>4. ASSUME Starts(p, <<>>) PROVE p = <<>>
  BY <1>4, SeqEmpty, StartsFacts, SeqIs
<1> QED
  BY <1>1, <1>2, <1>3, <1>4

\* The nodes that Set links anew.
OnWay(h, t, p, k) ==
  \E q \in Reach(h, t) : k = Down(h, t, q) /\ Starts(q, p) /\ (q = p => p = <<>>)

\* c is at p, and all else is as it was, but for new directories on the way to p.
SetAt(g, h, t, p, c) ==
  /\ \A q \in Reach(h, t) : Starts(q, p) /\ q # p => IsDir(h, Down(h, t, q))
  /\ \A q \in Reach(h, t) : ~Starts(p, q) => Down(g, t, q) = Down(h, t, q)
  /\ \A q \in Reach(g, t) : \/ q \in Reach(h, t)
                            \/ Starts(p, q)
                            \/ Starts(q, p) /\ IsDir(g, Down(g, t, q))
  /\ \A v \in SeqNames : v # <<>> \/ p # <<>> => Down(g, t, Cat(p, v)) = Down(h, c, v)
  /\ \A k \in InUse(h) : p # <<>> \/ k # t => g.node[k] = h.node[k]
  /\ p = <<>> => g.node[t] = h.node[c]
  /\ \A k \in InUse(h) : g.kids[k] = h.kids[k] \/ OnWay(h, t, p, k)

LEMMA SetBelowAt ==
  ASSUME NEW h, Linked(h), OneParent(h, Nodes), NEW t \in InUse(h), NEW c \in InUse(h), t # c,
         NoParent(h, t), ~Related(h, t, c) => NoParent(h, c),
         NEW p \in Paths, p # <<>>, FreeCount(h) >= Len(p) - 1, Set(h, t, p, c).result = "ok"
  PROVE  SetAt(Set(h, t, p, c).h, h, t, p, c)
<1> DEFINE r == Set(h, t, p, c)
<1>1. PICK b \in SeqNames, x \in Names : p = Add(b, x)
  BY PathsAre, SeqLast
<1> DEFINE mk == MkdirAll(h, t, b)
           f == mk.h
           m == mk.n
           g == Link(f, m, x, c)
<1>2. S!Front(p) = b /\ S!Last(p) = x /\ p \in SeqNames /\ FreeCount(h) >= Len(b)
  BY <1>1, FrontAdd, SeqAdd, SeqIs
<1>3. ~Related(h, t, c) /\ mk.ok /\ IsDir(f, m) /\ r.h = g
  <2>1. SetIs(r, h, t, c, p, mk)
    BY <1>2, SetCases
  <2>2. r.result = "ok"
    OBVIOUS
  <2> HIDE DEF r, mk
  <2> QED
    BY <1>2, <2>1, <2>2 DEF SetIs
<1>4. NoParent(h, c)
  BY <1>3
<1>5. MkdirMap(mk, h, t, b) /\ MkdirInv(mk, h, t, Len(b))
  BY <1>2, MkdirAllMap
<1> HIDE DEF mk, r
<1>6. /\ Linked(f) /\ Typed(f) /\ OneParent(f, Nodes) /\ InUse(h) \subseteq InUse(f)
      /\ m \in Nodes /\ c \in Nodes /\ t \in Nodes /\ Typed(h)
  BY <1>5 DEF MkdirInv, Grows, Linked, InUse
<1>7. /\ Down(f, t, b) = m
      /\ \A q \in Reach(h, t) : Down(f, t, q) = Down(h, t, q)
      /\ \A q \in Reach(f, t) \ Reach(h, t) :
           Starts(q, b) /\ Down(f, t, q) \notin InUse(h) /\ IsDir(f, Down(f, t, q))
      /\ \A q \in Reach(h, t) : Starts(q, b) /\ q # b => IsDir(h, Down(h, t, q))
      /\ \A k \in InUse(h) : f.node[k] = h.node[k]
      /\ \A k \in InUse(h) : f.kids[k] = h.kids[k]
                             \/ \E q \in Reach(h, t) : Starts(q, b) /\ q # b /\ k = Down(h, t, q)
  BY <1>3, <1>5, Zenon DEF MkdirMap
<1>8. IsLink(g, f, m, x, c)
  BY <1>6, LinkIs
<1> HIDE DEF f, m, g
<1>9. m # None /\ c # None /\ b \in Reach(f, t)
  BY <1>6, <1>7, TreeAssumption DEF Reach
<1>10. /\ \A q \in SeqNames : ~Starts(p, q) => Down(g, t, q) = Down(f, t, q)
       /\ \A v \in SeqNames : Down(g, t, Cat(p, v)) = Down(g, c, v)
  BY <1>1, <1>6, <1>7, <1>8, <1>9, LinkDown
<1>11. \A q \in SeqNames : Starts(q, p) /\ q # p <=> Starts(q, b)
  BY <1>1, StartsBefore
<1>12. m \in InUse(h) => b \in Reach(h, t) /\ Down(h, t, b) = m
  BY <1>7, <1>9
<1>13. \A k \in InUse(h) : g.kids[k] = f.kids[k] \/ k = m
  BY <1>6, <1>8 DEF IsLink, Typed, InUse
<1>14. Starts(b, b)
  BY StartsFacts
<1>15. ASSUME NEW k \in InUse(h) PROVE g.kids[k] = h.kids[k] \/ OnWay(h, t, p, k)
  <2>1. CASE k = m
    <3>1. b \in Reach(h, t) /\ k = Down(h, t, b) /\ Starts(b, p) /\ b # p
      BY <2>1, <1>11, <1>12, <1>14
    <3> QED
      BY <3>1 DEF OnWay
  <2>2. CASE k # m
    <3>1. g.kids[k] = f.kids[k]
      BY <1>13, <2>2
    <3>2. CASE f.kids[k] = h.kids[k]
      BY <3>1, <3>2
    <3>3. CASE f.kids[k] # h.kids[k]
      <4>1. PICK q \in Reach(h, t) : Starts(q, b) /\ q # b /\ k = Down(h, t, q)
        BY <1>7, <3>3
      <4>2. Starts(q, p) /\ q # p
        BY <4>1, <1>11 DEF Reach
      <4> QED
        BY <4>1, <4>2 DEF OnWay
    <3> QED
      BY <3>2, <3>3
  <2> QED
    BY <2>1, <2>2
<1>16. ASSUME NEW v \in SeqNames PROVE Down(g, t, Cat(p, v)) = Down(h, c, v)
  <2>1. Has(h, t) \cap Has(h, c) = {}
    <3>1. t \notin Has(h, c)
      BY <1>6, NoParentHas
    <3>2. OneParent(h, Has(h, t) \cup Has(h, c))
      BY <1>6, HasClosed DEF OneParent
    <3> QED
      BY <1>4, <1>6, <3>1, <3>2, Disjoint
  <2>2. \A k : OnWay(h, t, p, k) => k \in Has(h, t)
    BY <1>6, DownIs DEF OnWay, Reach
  <2>3. \A a \in Has(h, c) : g.kids[a] = h.kids[a]
    BY <2>1, <2>2, <1>15, HasInUse
  <2>4. \A u \in SeqNames : Down(g, c, u) = Down(h, c, u)
    BY <2>3, <1>6, DownAway
  <2> QED
    BY <2>4, <1>10
<1>17. \A q \in Reach(h, t) : Starts(q, p) /\ q # p => IsDir(h, Down(h, t, q))
  <2> SUFFICES ASSUME NEW q \in Reach(h, t), Starts(q, b) PROVE IsDir(h, Down(h, t, q))
    BY <1>11 DEF Reach
  <2>1. CASE q # b
    BY <1>7, <2>1
  <2>2. CASE q = b
    <3>1. Down(h, t, b) = m
      BY <1>7, <2>2
    <3>2. m \in InUse(h)
      BY <3>1, <2>2, <1>6, <1>9, DownIs, HasInUse
    <3> QED
      BY <1>3, <1>7, <2>2, <3>1, <3>2 DEF IsDir, f, m
  <2> QED
    BY <2>1, <2>2
<1>18. \A q \in Reach(h, t) : ~Starts(p, q) => Down(g, t, q) = Down(h, t, q)
  BY <1>7, <1>10 DEF Reach
<1>19. ASSUME NEW q \in Reach(g, t), q \notin Reach(h, t), ~Starts(p, q)
       PROVE  Starts(q, p) /\ IsDir(g, Down(g, t, q))
  <2>1. q \in SeqNames /\ Down(g, t, q) = Down(f, t, q) /\ q \in Reach(f, t)
    BY <1>10, <1>19 DEF Reach
  <2>2. Starts(q, b) /\ IsDir(f, Down(f, t, q))
    BY <1>7, <1>19, <2>1
  <2> QED
    BY <2>1, <2>2, <1>8, <1>11 DEF IsLink, IsDir
<1>20. \A k \in InUse(h) : g.node[k] = h.node[k]
  BY <1>7, <1>8 DEF IsLink
<1>21. SetAt(g, h, t, p, c)
  BY <1>15, <1>16, <1>17, <1>18, <1>19, <1>20 DEF SetAt
<1>22. Set(h, t, p, c).h = g
  BY <1>3 DEF g, r, f, m
<1> QED
  BY <1>21, <1>22

\* Set(".", child)
LEMMA SetRootAt ==
  ASSUME NEW h, Linked(h), NEW t \in InUse(h), NEW c \in InUse(h), t # c, NoParent(h, t)
  PROVE  SetAt(Set(h, t, <<>>, c).h, h, t, <<>>, c)
<1> DEFINE g == Put(h, t, h.node[c], h.kids[c])
<1>1. Set(h, t, <<>>, c).h = g
  <2>1. Set(h, t, <<>>, c) = [h |-> g, result |-> "ok"]
    BY SetCases
  <2> HIDE DEF g
  <2> QED
    BY <2>1
<1>2. t \in Nodes /\ c \in Nodes /\ t \notin Has(h, c) /\ Typed(h)
  BY NoParentHas DEF Linked, InUse
<1>3. /\ g.kids[t] = h.kids[c] /\ g.node[t] = h.node[c]
      /\ \A k \in Nodes : k # t => g.kids[k] = h.kids[k] /\ g.node[k] = h.node[k]
  BY <1>2 DEF Put, Typed
<1> HIDE DEF g
<1> DEFINE C == {v \in SeqNames : v # <<>> => Down(g, t, v) = Down(h, c, v)}
<1>4. <<>> \in C
  BY SeqEmpty
<1>5. ASSUME NEW v \in SeqNames, NEW x \in Names, v \in C
      PROVE  Add(v, x) \in C
  <2>1. Add(v, x) \in SeqNames
    BY SeqAdd
  <2>2. /\ Down(g, t, Add(v, x)) = IF Down(g, t, v) = None THEN None ELSE g.kids[Down(g, t, v)][x]
        /\ Down(h, c, Add(v, x)) = IF Down(h, c, v) = None THEN None ELSE h.kids[Down(h, c, v)][x]
    BY DownAdd
  <2>3. CASE v = <<>>
    <3>1. Down(g, t, v) = t /\ Down(h, c, v) = c /\ t # None /\ c # None
      BY <2>3, <1>2, DownEmpty, TreeAssumption
    <3>2. Down(g, t, Add(v, x)) = Down(h, c, Add(v, x))
      BY <2>2, <3>1, <1>3
    <3> QED
      BY <2>1, <3>2
  <2>4. CASE v # <<>>
    <3>1. Down(g, t, v) = Down(h, c, v)
      BY <2>4, <1>5
    <3>2. Down(h, c, v) # None => Down(h, c, v) \in Nodes /\ Down(h, c, v) # t
      BY <1>2, DownIs
    <3>3. Down(g, t, Add(v, x)) = Down(h, c, Add(v, x))
      BY <2>2, <3>1, <3>2, <1>3
    <3> QED
      BY <2>1, <3>3
  <2> QED
    BY <2>3, <2>4
<1>6. SeqNames \subseteq C
  <2> HIDE DEF C
  <2> QED
    BY <1>4, <1>5, SeqInduct
<1>7. \A v \in SeqNames : v # <<>> => Down(g, t, Cat(<<>>, v)) = Down(h, c, v)
  BY <1>6, SeqCat
<1>8. \A q \in SeqNames : Starts(<<>>, q)
  BY StartsFacts
<1>9. \A q \in SeqNames : Starts(q, <<>>) => q = <<>>
  BY StartsMore
<1>10. ASSUME NEW k \in InUse(h) PROVE g.kids[k] = h.kids[k] \/ OnWay(h, t, <<>>, k)
  <2>1. CASE k = t
    <3>1. Down(h, t, <<>>) = t /\ <<>> \in Reach(h, t) /\ Starts(<<>>, <<>>)
      BY <1>2, <1>8, SeqEmpty, DownEmpty, TreeAssumption DEF Reach
    <3> QED
      BY <2>1, <3>1 DEF OnWay
  <2>2. CASE k # t
    BY <2>2, <1>3 DEF InUse
  <2> QED
    BY <2>1, <2>2
<1>11. \A q \in Reach(h, t) : q \in SeqNames
  BY DEF Reach
<1>12. \A q \in Reach(g, t) : q \in SeqNames
  BY DEF Reach
<1>13. \A k \in InUse(h) : k # t => g.node[k] = h.node[k]
  BY <1>3 DEF InUse
<1>14. SetAt(g, h, t, <<>>, c)
  BY <1>3, <1>7, <1>8, <1>9, <1>10, <1>11, <1>12, <1>13 DEF SetAt
<1> QED
  BY <1>1, <1>14

LEMMA SetAtGraft ==
  ASSUME NEW h, Linked(h), NEW t \in InUse(h), NEW c \in InUse(h), t # c, NoParent(h, t),
         NEW p \in Paths, NEW g, SetAt(g, h, t, p, c),
         WithinDepth(h, t), \A q \in Reach(h, c) : Len(p) + Len(q) <= Depth
  PROVE  /\ PathMap!CanHold(Tree(h, t), p)
         /\ Tree(g, t) = PathMap!Graft(Tree(h, t), p, Tree(h, c))
         /\ WithinDepth(g, t)
<1> DEFINE T == Tree(h, t)
           G == Tree(g, t)
           s == Tree(h, c)
<1>0. /\ p \in SeqNames /\ Len(p) <= Depth /\ Len(p) \in Nat /\ Depth \in Nat
      /\ t \in Nodes /\ c \in Nodes /\ Typed(h) /\ t # None /\ c # None
  BY PathsAre, SeqIs, TreeAssumption DEF InUse, Linked
<1>1. /\ \A q \in Reach(h, t) : Starts(q, p) /\ q # p => IsDir(h, Down(h, t, q))
      /\ \A q \in Reach(h, t) : ~Starts(p, q) => Down(g, t, q) = Down(h, t, q)
      /\ \A q \in Reach(g, t) : \/ q \in Reach(h, t)
                                \/ Starts(p, q)
                                \/ Starts(q, p) /\ IsDir(g, Down(g, t, q))
      /\ \A v \in SeqNames : v # <<>> \/ p # <<>> => Down(g, t, Cat(p, v)) = Down(h, c, v)
      /\ \A k \in InUse(h) : p # <<>> \/ k # t => g.node[k] = h.node[k]
      /\ p = <<>> => g.node[t] = h.node[c]
  BY DEF SetAt
<1>2. /\ DOMAIN T = Reach(h, t) /\ \A q \in Reach(h, t) : T[q] = h.node[Down(h, t, q)]
      /\ DOMAIN G = Reach(g, t) /\ \A q \in Reach(g, t) : G[q] = g.node[Down(g, t, q)]
      /\ DOMAIN s = Reach(h, c) /\ \A q \in Reach(h, c) : s[q] = h.node[Down(h, c, q)]
      /\ G = [q \in Reach(g, t) |-> G[q]]
      /\ Reach(h, t) \subseteq SeqNames /\ Reach(g, t) \subseteq SeqNames /\ Reach(h, c) \subseteq SeqNames
  BY DEF Tree, Reach
<1> HIDE DEF T, G, s
<1>3. ASSUME NEW v \in SeqNames
      PROVE  /\ Cat(p, v) \in Reach(g, t) <=> v \in Reach(h, c)
             /\ v \in Reach(h, c) => g.node[Down(g, t, Cat(p, v))] = h.node[Down(h, c, v)]
  <2>0. Cat(p, v) \in SeqNames
    BY <1>0, SeqCat
  <2>1. CASE v # <<>> \/ p # <<>>
    <3>1. Down(g, t, Cat(p, v)) = Down(h, c, v)
      BY <1>1, <2>1
    <3>2. v \in Reach(h, c) => Down(h, c, v) \in Has(h, c) /\ Down(h, c, v) \in InUse(h)
      BY <1>0, DownIs, HasInUse DEF Reach
    <3>3. t \notin Has(h, c)
      BY <1>0, NoParentHas
    <3> QED
      BY <2>0, <3>1, <3>2, <3>3, <1>1 DEF Reach
  <2>2. CASE v = <<>> /\ p = <<>>
    <3>1. Cat(p, v) = <<>> /\ Down(g, t, <<>>) = t /\ Down(h, c, <<>>) = c
      BY <2>2, <1>0, SeqCat, DownEmpty
    <3> QED
      BY <2>0, <2>2, <3>1, <1>0, <1>1 DEF Reach
  <2> QED
    BY <2>1, <2>2
<1>4. PathMap!CanHold(T, p)
  <2>1. \A q \in PathMap!Above(p) : q \in DOMAIN T => T[q] = Dir
    BY <1>0, <1>1, <1>2, AboveIs DEF IsDir
  <2> QED
    BY <2>1 DEF PathMap!CanHold
<1>5. ASSUME NEW q \in SeqNames, Starts(q, p), q # p PROVE q \in Reach(g, t)
  <2>1. PICK u \in SeqNames : p = Cat(q, u)
    BY <1>5 DEF Starts
  <2>2. p # <<>>
    BY <1>5, StartsMore
  <2>3. Down(g, t, Cat(p, <<>>)) = Down(h, c, <<>>) /\ Cat(p, <<>>) = p /\ Down(h, c, <<>>) = c
    BY <2>2, <1>0, <1>1, SeqEmpty, SeqCat, DownEmpty
  <2>4. Down(g, t, p) # None
    BY <2>3, <1>0
  <2> QED
    BY <2>1, <2>4, DownCat DEF Reach
<1>6. ASSUME NEW q \in SeqNames
      PROVE  q \in Reach(g, t) <=> \/ \E u \in Reach(h, c) : q = Cat(p, u)
                                   \/ q \in Reach(h, t) /\ ~Starts(p, q)
                                   \/ Starts(q, p) /\ q # p
  <2>1. ASSUME q \in Reach(g, t), Starts(p, q) PROVE \E u \in Reach(h, c) : q = Cat(p, u)
    BY <2>1, <1>3 DEF Starts
  <2>2. ASSUME q \in Reach(g, t), ~Starts(p, q), q \notin Reach(h, t) PROVE Starts(q, p) /\ q # p
    BY <2>2, <1>0, <1>1, StartsFacts
  <2>3. ASSUME NEW u \in Reach(h, c), q = Cat(p, u) PROVE q \in Reach(g, t)
    BY <2>3, <1>2, <1>3
  <2>4. ASSUME q \in Reach(h, t), ~Starts(p, q) PROVE q \in Reach(g, t)
    BY <2>4, <1>1 DEF Reach
  <2> QED
    BY <2>1, <2>2, <2>3, <2>4, <1>5
<1>7. \A u \in Reach(h, c) : G[Cat(p, u)] = s[u]
  BY <1>2, <1>3
<1>8. ASSUME NEW q \in Reach(h, t), ~Starts(p, q) PROVE G[q] = T[q]
  <2>1. p # <<>>
    BY <1>2, <1>8, StartsFacts
  <2>2. q \in Reach(g, t) /\ Down(g, t, q) = Down(h, t, q)
    BY <1>1, <1>8 DEF Reach
  <2>3. Down(h, t, q) \in InUse(h)
    BY <1>0, <1>2, DownIs, HasInUse DEF Reach
  <2> QED
    BY <2>1, <2>2, <2>3, <1>1, <1>2
<1>9. ASSUME NEW q \in Reach(g, t), q \notin Reach(h, t), ~Starts(p, q) PROVE G[q] = Dir
  BY <1>1, <1>2, <1>9 DEF IsDir
<1>10. G = PathMap!Graft(T, p, s)
  <2>1. IsGraft(G, Reach(g, t), T, p, s)
    BY <1>2, <1>6, <1>7, <1>8, <1>9 DEF IsGraft
  <2> QED
    BY <2>1, <1>0, GraftIs
<1>11. ASSUME NEW q \in Reach(g, t) PROVE q \in Paths
  <2>0. q \in SeqNames /\ Len(q) \in Nat
    BY <1>2, SeqIs
  <2>1. CASE \E u \in Reach(h, c) : q = Cat(p, u)
    BY <2>0, <2>1, <1>0, <1>2, SeqCat, PathsAre
  <2>2. CASE q \in Reach(h, t)
    BY <2>2 DEF WithinDepth
  <2>3. CASE Starts(q, p)
    BY <2>0, <2>3, <1>0, StartsFacts, PathsAre
  <2> QED
    BY <2>0, <1>6, <2>1, <2>2, <2>3
<1> QED
  BY <1>4, <1>10, <1>11 DEF T, G, s, WithinDepth

\* A node has the tree that it had, or is where it was.
Stays(h, g, t, s) ==
  \/ Tree(g, s) = Tree(h, s) /\ Reach(g, s) = Reach(h, s)
  \/ \E u \in SeqNames : Down(h, t, u) = s /\ Down(g, t, u) = s

LEMMA SetAtStays ==
  ASSUME NEW h, Linked(h), OneParent(h, Nodes), NEW t \in InUse(h), NoParent(h, t),
         NEW p \in SeqNames, NEW c, NEW g, SetAt(g, h, t, p, c), NEW s \in InUse(h)
  PROVE  Stays(h, g, t, s)
<1>0. t \in Nodes /\ s \in Nodes /\ Typed(h) /\ t # None /\ s # None
  BY TreeAssumption DEF InUse, Linked
<1>1. /\ \A q \in Reach(h, t) : ~Starts(p, q) => Down(g, t, q) = Down(h, t, q)
      /\ \A k \in InUse(h) : p # <<>> \/ k # t => g.node[k] = h.node[k]
      /\ \A k \in InUse(h) : g.kids[k] = h.kids[k] \/ OnWay(h, t, p, k)
  BY DEF SetAt
<1>2. CASE s = t
  <2>1. Down(h, t, <<>>) = s /\ Down(g, t, <<>>) = s
    BY <1>2, DownEmpty
  <2> QED
    BY <2>1, SeqEmpty DEF Stays
<1>3. CASE s # t
  <2>1. t \notin Has(h, s) /\ Has(h, s) \subseteq InUse(h)
    BY <1>0, <1>3, NoParentHas, HasInUse
  <2>2. \A k \in Has(h, s) : g.node[k] = h.node[k]
    BY <1>1, <2>1
  <2>3. CASE s \in Has(h, t)
    <3>1. PICK u \in SeqNames : Down(h, t, u) = s
      BY <1>0, <2>3, HasDown
    <3>2. CASE ~Starts(p, u)
      <4>1. Down(g, t, u) = s
        BY <1>0, <1>1, <3>1, <3>2 DEF Reach
      <4> QED
        BY <3>1, <4>1 DEF Stays
    <3>3. CASE Starts(p, u)
      <4>1. ASSUME NEW k \in Has(h, s), OnWay(h, t, p, k) PROVE FALSE
        <5>1. PICK q \in Reach(h, t) : k = Down(h, t, q) /\ Starts(q, p) /\ (q = p => p = <<>>)
          BY <4>1 DEF OnWay
        <5>2. PICK v \in SeqNames : Down(h, s, v) = k
          BY <1>0, HasDown
        <5>3. Down(h, t, Cat(u, v)) = k /\ Cat(u, v) \in SeqNames
          BY <1>0, <3>1, <5>2, DownCat, SeqCat
        <5>4. q = Cat(u, v)
          BY <1>0, <5>1, <5>3, OneWay DEF Reach
        <5>5. Starts(u, q) /\ q \in SeqNames
          BY <5>3, <5>4, StartsMore
        <5>6. Starts(p, q)
          BY <5>5, <3>3, StartsMore
        <5>7. q = <<>>
          BY <5>1, <5>5, <5>6, StartsMore
        <5>8. u = <<>>
          BY <5>5, <5>7, StartsMore
        <5> QED
          BY <3>1, <5>8, <1>3, DownEmpty
      <4>2. \A k \in Has(h, s) : g.kids[k] = h.kids[k]
        BY <1>1, <2>1, <4>1
      <4> QED
        BY <1>0, <2>2, <4>2, TreeAway DEF Stays
    <3> QED
      BY <3>2, <3>3
  <2>4. CASE s \notin Has(h, t)
    <3>1. OneParent(h, Has(h, s) \cup Has(h, t))
      BY <1>0, HasClosed DEF OneParent
    <3>2. Has(h, s) \cap Has(h, t) = {}
      BY <1>0, <2>4, <3>1, Disjoint
    <3>3. \A k : OnWay(h, t, p, k) => k \in Has(h, t)
      BY <1>0, DownIs DEF OnWay, Reach
    <3>4. \A k \in Has(h, s) : g.kids[k] = h.kids[k]
      BY <1>1, <2>1, <3>2, <3>3
    <3> QED
      BY <1>0, <2>2, <3>4, TreeAway DEF Stays
  <2> QED
    BY <2>3, <2>4
<1> QED
  BY <1>2, <1>3

-----------------------------------------------------------------------------
(* What Remove is to paths *)

\* What was at p is at c; t has no part of it, and nothing else is changed.
RemovedAt(g, h, t, p, c) ==
  /\ \A q \in SeqNames : ~Starts(p, q) => Down(g, t, q) = Down(h, t, q)
  /\ \A v \in SeqNames : v # <<>> \/ p # <<>> => Down(g, t, Cat(p, v)) = None
  /\ \A v \in SeqNames : v # <<>> \/ p # <<>> => Down(g, c, v) = Down(h, t, Cat(p, v))
  /\ \A k \in InUse(h) : p # <<>> \/ k # t => g.node[k] = h.node[k]
  /\ p = <<>> => g.node[t] = (IF IsDir(h, t) THEN Dir ELSE Zero) /\ g.node[c] = h.node[t]
  /\ \A k \in InUse(h) : g.kids[k] = h.kids[k] \/ k \in Has(h, t)

LEMMA RemoveBelowAt ==
  ASSUME NEW h, Linked(h), OneParent(h, Nodes), NEW t \in InUse(h),
         NEW p \in Paths, p # <<>>, Down(h, t, p) # None
  PROVE  RemovedAt(Remove(h, t, p).h, h, t, p, Down(h, t, p))
<1>1. PICK b \in SeqNames, x \in Names : p = Add(b, x)
  BY PathsAre, SeqLast
<1> DEFINE m == Down(h, t, b)
           c == Down(h, t, p)
           g == Link(h, m, x, None)
<1>2. p \in SeqNames /\ S!Front(p) = b /\ S!Last(p) = x
  BY <1>1, PathsAre, FrontAdd
<1>3. m # None /\ c = h.kids[m][x]
  BY <1>1, DownAdd
<1>4. /\ t \in Nodes /\ t # None /\ Typed(h) /\ m \in Nodes /\ m \in Has(h, t)
      /\ c \in Nodes /\ c # None
  BY <1>2, <1>3, DownIs, TreeAssumption DEF InUse, Linked
<1>5. Remove(h, t, p).h = g
  <2>1. Remove(h, t, p) = [h |-> g, n |-> c]
    BY <1>2, <1>4, RemoveCases
  <2> HIDE DEF g, c
  <2> QED
    BY <2>1
<1>6. IsLink(g, h, m, x, None)
  BY <1>4, LinkIs
<1> HIDE DEF g, m, c
<1>7. /\ \A q \in SeqNames : ~Starts(p, q) => Down(g, t, q) = Down(h, t, q)
      /\ \A v \in SeqNames : Down(g, t, Cat(p, v)) = None
  <2>1. Down(h, t, b) = m
    BY DEF m
  <2> QED
    BY <2>1, <1>1, <1>3, <1>4, <1>6, LinkDown
<1>8. m \notin Has(h, c)
  BY <1>3, <1>4 DEF Linked, NoCycle
<1>9. \A a \in Nodes : a # m => g.kids[a] = h.kids[a]
  BY <1>4, <1>6 DEF IsLink, Typed
<1>10. \A a \in Has(h, c) : g.kids[a] = h.kids[a]
  BY <1>4, <1>8, <1>9, HasClosed
<1>11. \A v \in SeqNames : Down(g, c, v) = Down(h, c, v)
  BY <1>4, <1>10, DownAway
<1>12. \A v \in SeqNames : Down(h, t, Cat(p, v)) = Down(h, c, v)
  <2>1. Down(h, t, p) = c
    BY DEF c
  <2> QED
    BY <2>1, <1>2, <1>4, DownCat
<1>13. \A k \in InUse(h) : g.kids[k] = h.kids[k] \/ k \in Has(h, t)
  BY <1>4, <1>9 DEF InUse
<1>14. g.node = h.node
  BY <1>6 DEF IsLink
<1>15. RemovedAt(g, h, t, p, c)
  BY <1>7, <1>11, <1>12, <1>13, <1>14 DEF RemovedAt
<1> QED
  BY <1>5, <1>15 DEF c

LEMMA RemoveRootNodes ==
  ASSUME NEW h, Linked(h), NEW t \in InUse(h), FreeCount(h) > 0,
         NEW c, c = NewNode(h), NEW g, g = Remove(h, t, <<>>).h
  PROVE  /\ Remove(h, t, <<>>).n = c
         /\ c \in FreeNodes(h) /\ c \in Nodes /\ c # t /\ c # None /\ t \in Nodes /\ t # None
         /\ g.kids[t] = NoKids /\ g.node[t] = (IF IsDir(h, t) THEN Dir ELSE Zero)
         /\ g.kids[c] = h.kids[t] /\ g.node[c] = h.node[t]
         /\ DOMAIN g.kids = Nodes /\ DOMAIN g.node = Nodes
         /\ \A k \in Nodes : k # t /\ k # c => g.kids[k] = h.kids[k] /\ g.node[k] = h.node[k]
<1> DEFINE v == IF IsDir(h, t) THEN Dir ELSE Zero
           f == Put(Put(h, c, h.node[t], h.kids[t]), t, v, NoKids)
<1>1. /\ t \in Nodes /\ t # None /\ Typed(h) /\ Down(h, t, <<>>) = t
      /\ c \in FreeNodes(h) /\ c \in Nodes /\ c # t /\ c # None
  BY NewNodeFree, DownEmpty, TreeAssumption DEF InUse, Linked, FreeNodes
<1>2. g = f /\ Remove(h, t, <<>>).n = c
  <2>1. Remove(h, t, <<>>) = [h |-> f, n |-> c]
    BY <1>1, RemoveCases
  <2> HIDE DEF f
  <2> QED
    BY <2>1
<1> HIDE DEF v
<1>3. /\ g.kids = [[h.kids EXCEPT ![c] = h.kids[t]] EXCEPT ![t] = NoKids]
      /\ g.node = [[h.node EXCEPT ![c] = h.node[t]] EXCEPT ![t] = v]
  BY <1>2 DEF Put
<1>4. DOMAIN h.kids = Nodes /\ DOMAIN h.node = Nodes
  BY <1>1 DEF Typed
<1>5. /\ g.kids[t] = NoKids /\ g.node[t] = v
      /\ g.kids[c] = h.kids[t] /\ g.node[c] = h.node[t]
      /\ DOMAIN g.kids = Nodes /\ DOMAIN g.node = Nodes
      /\ \A k \in Nodes : k # t /\ k # c => g.kids[k] = h.kids[k] /\ g.node[k] = h.node[k]
  BY <1>1, <1>3, <1>4
<1> QED
  BY <1>1, <1>2, <1>5 DEF v

LEMMA RemoveRootAt ==
  ASSUME NEW h, Linked(h), NEW t \in InUse(h), FreeCount(h) > 0
  PROVE  RemovedAt(Remove(h, t, <<>>).h, h, t, <<>>, NewNode(h))
<1> DEFINE c == NewNode(h)
           g == Remove(h, t, <<>>).h
<1> HIDE DEF g, c
<1>1. /\ t \in Nodes /\ t # None /\ Typed(h)
      /\ c \in FreeNodes(h) /\ c \in Nodes /\ c # t /\ c # None
  BY RemoveRootNodes DEF Linked, c
<1>3. /\ g.kids[t] = NoKids /\ g.node[t] = (IF IsDir(h, t) THEN Dir ELSE Zero)
      /\ g.kids[c] = h.kids[t] /\ g.node[c] = h.node[t]
      /\ \A k \in Nodes : k # t /\ k # c => g.kids[k] = h.kids[k] /\ g.node[k] = h.node[k]
  BY RemoveRootNodes DEF g, c
<1> DEFINE C == {v \in SeqNames : v # <<>> => Down(g, t, v) = None /\ Down(g, c, v) = Down(h, t, v)}
<1>4. <<>> \in C
  BY SeqEmpty
<1>5. ASSUME NEW v \in SeqNames, NEW x \in Names, v \in C
      PROVE  Add(v, x) \in C
  <2>1. Add(v, x) \in SeqNames
    BY SeqAdd
  <2>2. /\ Down(g, t, Add(v, x)) = IF Down(g, t, v) = None THEN None ELSE g.kids[Down(g, t, v)][x]
        /\ Down(g, c, Add(v, x)) = IF Down(g, c, v) = None THEN None ELSE g.kids[Down(g, c, v)][x]
        /\ Down(h, t, Add(v, x)) = IF Down(h, t, v) = None THEN None ELSE h.kids[Down(h, t, v)][x]
    BY DownAdd
  <2>3. CASE v = <<>>
    <3>1. Down(g, t, v) = t /\ Down(g, c, v) = c /\ Down(h, t, v) = t
      BY <2>3, DownEmpty
    <3>2. NoKids[x] = None
      BY DEF NoKids
    <3>3. Down(g, t, Add(v, x)) = None /\ Down(g, c, Add(v, x)) = Down(h, t, Add(v, x))
      BY <2>2, <3>1, <3>2, <1>1, <1>3
    <3> QED
      BY <2>1, <3>3
  <2>4. CASE v # <<>>
    <3>1. Down(g, t, v) = None /\ Down(g, c, v) = Down(h, t, v)
      BY <2>4, <1>5
    <3>2. Down(h, t, v) # None => Down(h, t, v) \in Nodes /\ Down(h, t, v) # t /\ Down(h, t, v) # c
      <4> SUFFICES ASSUME Down(h, t, v) # None
                   PROVE  Down(h, t, v) \in Nodes /\ Down(h, t, v) # t /\ Down(h, t, v) # c
        OBVIOUS
      <4>1. Down(h, t, v) \in InUse(h)
        BY <1>1, DownIs, HasInUse
      <4>2. Down(h, t, v) # t
        BY <1>1, <2>4, DownNotBack
      <4> QED
        BY <4>1, <4>2, <1>1 DEF InUse
    <3>3. Down(g, t, Add(v, x)) = None /\ Down(g, c, Add(v, x)) = Down(h, t, Add(v, x))
      BY <2>2, <3>1, <3>2, <1>3
    <3> QED
      BY <2>1, <3>3
  <2> QED
    BY <2>3, <2>4
<1>6. SeqNames \subseteq C
  <2> HIDE DEF C
  <2> QED
    BY <1>4, <1>5, SeqInduct
<1>7. \A v \in SeqNames : Cat(<<>>, v) = v
  BY SeqCat
<1>8. \A q \in SeqNames : Starts(<<>>, q)
  BY StartsFacts
<1>9. \A k \in InUse(h) : k # t => g.kids[k] = h.kids[k] /\ g.node[k] = h.node[k]
  BY <1>1, <1>3 DEF InUse, FreeNodes
<1>10. t \in Has(h, t)
  BY <1>1, HasClosed
<1>11. RemovedAt(g, h, t, <<>>, c)
  BY <1>3, <1>6, <1>7, <1>8, <1>9, <1>10 DEF RemovedAt
<1> QED
  BY <1>11 DEF g, c

LEMMA RemovedAtPrune ==
  ASSUME NEW h, Linked(h), OneParent(h, Nodes), NEW t \in InUse(h), NoParent(h, t),
         NEW p \in Paths, Down(h, t, p) # None, WithinDepth(h, t),
         NEW c, NEW g, RemovedAt(g, h, t, p, c)
  PROVE  /\ p \in DOMAIN Tree(h, t)
         /\ Tree(g, t) = PathMap!Prune(Tree(h, t), p) /\ WithinDepth(g, t)
         /\ c # None => Tree(g, c) = PathMap!At(Tree(h, t), p) /\ WithinDepth(g, c)
         /\ \A s \in InUse(h) : s \notin Has(h, t) => Tree(g, s) = Tree(h, s) /\ Reach(g, s) = Reach(h, s)
<1> DEFINE T == Tree(h, t)
           G == Tree(g, t)
           d == Down(h, t, p)
<1>0. /\ p \in SeqNames /\ t \in Nodes /\ t # None /\ Typed(h)
      /\ \A q \in SeqNames : Starts(<<>>, q) /\ Cat(<<>>, q) = q
  BY PathsAre, TreeAssumption, StartsFacts, SeqCat DEF InUse, Linked
<1>1. /\ \A q \in SeqNames : ~Starts(p, q) => Down(g, t, q) = Down(h, t, q)
      /\ \A v \in SeqNames : v # <<>> \/ p # <<>> => Down(g, t, Cat(p, v)) = None
      /\ \A v \in SeqNames : v # <<>> \/ p # <<>> => Down(g, c, v) = Down(h, t, Cat(p, v))
      /\ \A k \in InUse(h) : p # <<>> \/ k # t => g.node[k] = h.node[k]
      /\ p = <<>> => g.node[t] = (IF IsDir(h, t) THEN Dir ELSE Zero) /\ g.node[c] = h.node[t]
      /\ \A k \in InUse(h) : g.kids[k] = h.kids[k] \/ k \in Has(h, t)
  BY DEF RemovedAt
<1>2. /\ DOMAIN T = Reach(h, t) /\ \A q \in Reach(h, t) : T[q] = h.node[Down(h, t, q)]
      /\ DOMAIN G = Reach(g, t) /\ \A q \in Reach(g, t) : G[q] = g.node[Down(g, t, q)]
      /\ G = [q \in Reach(g, t) |-> G[q]]
      /\ Reach(h, t) \subseteq SeqNames /\ Reach(g, t) \subseteq SeqNames
  BY DEF Tree, Reach
<1>3. \A q \in Reach(h, t) : Down(h, t, q) \in InUse(h)
  BY <1>0, DownIs, HasInUse DEF Reach
<1> HIDE DEF T, G, d
<1>4. ASSUME p # <<>> PROVE G = PathMap!Prune(T, p) /\ WithinDepth(g, t)
  <2>1. \A q \in SeqNames : q \in Reach(g, t) <=> q \in Reach(h, t) /\ ~Starts(p, q)
    BY <1>1, <1>4 DEF Reach, Starts
  <2>2. Reach(g, t) = {q \in Reach(h, t) : ~Starts(p, q)}
    BY <1>2, <2>1
  <2>3. \A q \in Reach(g, t) : G[q] = T[q]
    BY <1>1, <1>2, <1>3, <1>4, <2>1
  <2>4. PathMap!Without(T, p) = [q \in {r \in DOMAIN T : ~Starts(p, r)} |-> T[q]]
    BY <1>0, <1>2, WithoutIs
  <2>5. G = [q \in {r \in Reach(h, t) : ~Starts(p, r)} |-> T[q]]
    BY <1>2, <2>2, <2>3, Zenon
  <2>6. G = PathMap!Without(T, p)
    BY <1>2, <2>4, <2>5, Zenon
  <2>7. G = PathMap!Prune(T, p)
    BY <1>4, <2>6, Zenon DEF PathMap!Prune
  <2> QED
    BY <2>2, <2>7 DEF WithinDepth
<1>5. ASSUME p = <<>> PROVE G = PathMap!Prune(T, p) /\ WithinDepth(g, t)
  <2>1. Reach(g, t) = {<<>>} /\ Down(g, t, <<>>) = t
    BY <1>0, <1>1, <1>5, DownEmpty, SeqEmpty DEF Reach
  <2>2. \A q \in {<<>>} : G[q] = IF T[p] = Dir THEN Dir ELSE Zero
    <3>1. T[p] = h.node[t]
      BY <1>0, <1>2, <1>5, SeqEmpty, DownEmpty DEF Reach
    <3> QED
      BY <1>1, <1>2, <1>5, <2>1, <3>1 DEF IsDir
  <2>3. G = [q \in {<<>>} |-> IF T[p] = Dir THEN Dir ELSE Zero]
    BY <1>2, <2>1, <2>2, Zenon
  <2>4. G = PathMap!Prune(T, p)
    <3>1. CASE T[p] = Dir
      <4>1. G = [q \in {<<>>} |-> Dir]
        BY <2>3, <3>1, Zenon
      <4> QED
        BY <1>5, <3>1, <4>1, Zenon DEF PathMap!Prune, PathMap!NewDir
    <3>2. CASE T[p] # Dir
      <4>1. G = [q \in {<<>>} |-> Zero]
        BY <2>3, <3>2, Zenon
      <4> QED
        BY <1>5, <3>2, <4>1, Zenon DEF PathMap!Prune, PathMap!NewFile
    <3> QED
      BY <3>1, <3>2
  <2> QED
    BY <1>5, <2>1, <2>4 DEF WithinDepth
<1>6. ASSUME c # None PROVE Tree(g, c) = PathMap!At(T, p) /\ WithinDepth(g, c)
  <2>1. PathMap!At(T, p) = Tree(h, d) /\ WithinDepth(h, d)
    BY <1>0, AtIs DEF T, d
  <2>2. \A v \in SeqNames : Down(h, t, Cat(p, v)) = Down(h, d, v) /\ Cat(p, v) \in SeqNames
    BY <1>0, DownCat, SeqCat DEF d
  <2>3. d # None
    BY DEF d
  <2>4. ASSUME NEW v \in SeqNames
        PROVE  /\ v \in Reach(g, c) <=> v \in Reach(h, d)
               /\ v \in Reach(h, d) => g.node[Down(g, c, v)] = h.node[Down(h, d, v)]
    <3>1. CASE v # <<>> \/ p # <<>>
      <4>1. Down(g, c, v) = Down(h, d, v) /\ Down(h, d, v) = Down(h, t, Cat(p, v))
        BY <1>1, <2>2, <3>1
      <4>2. ASSUME p = <<>>, Down(h, d, v) # None PROVE Down(h, d, v) # t
        <5>1. d = t
          BY <4>2, DownEmpty DEF d
        <5> QED
          BY <5>1, <3>1, <4>2, <1>0, DownNotBack
      <4>3. Down(h, d, v) # None => Down(h, d, v) \in InUse(h)
        BY <4>1, <2>2, <1>3 DEF Reach
      <4> QED
        BY <4>1, <4>2, <4>3, <1>1 DEF Reach
    <3>2. CASE v = <<>> /\ p = <<>>
      <4>1. Down(g, c, v) = c /\ Down(h, d, v) = d /\ d = t
        BY <3>2, DownEmpty DEF d
      <4> QED
        BY <3>2, <4>1, <2>3, <1>1, <1>6 DEF Reach
    <3> QED
      BY <3>1, <3>2
  <2>5. Reach(g, c) = Reach(h, d)
    BY <2>4 DEF Reach
  <2>6. \A v \in Reach(g, c) : g.node[Down(g, c, v)] = h.node[Down(h, d, v)]
    BY <2>4, <2>5 DEF Reach
  <2>7. Tree(g, c) = Tree(h, d)
    BY <2>5, <2>6, Zenon DEF Tree
  <2> QED
    BY <2>1, <2>5, <2>7 DEF WithinDepth
<1>7. ASSUME NEW s \in InUse(h), s \notin Has(h, t)
      PROVE  Tree(g, s) = Tree(h, s) /\ Reach(g, s) = Reach(h, s)
  <2>1. s \in Nodes /\ s # t /\ t \in Has(h, t)
    BY <1>0, <1>7, HasClosed DEF InUse
  <2>2. t \notin Has(h, s) /\ Has(h, s) \subseteq InUse(h)
    BY <1>0, <2>1, NoParentHas, HasInUse
  <2>3. OneParent(h, Has(h, s) \cup Has(h, t))
    BY <1>0, <2>1, HasClosed DEF OneParent
  <2>4. Has(h, s) \cap Has(h, t) = {}
    BY <1>0, <1>7, <2>1, <2>3, Disjoint
  <2>5. \A k \in Has(h, s) : g.kids[k] = h.kids[k] /\ g.node[k] = h.node[k]
    BY <1>1, <2>2, <2>4
  <2> QED
    BY <1>0, <2>1, <2>5, TreeAway
<1>8. p \in DOMAIN T
  BY <1>0, <1>2 DEF Reach
<1>9. G = PathMap!Prune(T, p) /\ WithinDepth(g, t)
  BY <1>4, <1>5
<1> QED
  BY <1>6, <1>7, <1>8, <1>9 DEF T, G

\* A node without a parent is below none.
LEMMA NoParentOf ==
  ASSUME NEW h, Typed(h), NEW c, NoParent(h, c), NEW a \in Nodes
  PROVE  ~IsParentOf(h, a, c)
<1> SUFFICES ASSUME NEW x \in Names, h.kids[a][x] # None, c \in Has(h, h.kids[a][x])
             PROVE  FALSE
  BY DEF IsParentOf
<1>1. h.kids[a][x] \in Nodes /\ h.kids[a][x] # c
  BY DEF Typed, NoParent
<1> QED
  BY <1>1, NoParentHas

\* What was removed can be put back, and all is as it was.
LEMMA PutBackIs ==
  ASSUME NEW h, Linked(h), OneParent(h, Nodes), NEW t \in InUse(h), NoParent(h, t),
         NEW p \in Paths, Down(h, t, p) # None, FreeCount(h) > 0,
         NEW m, m = Remove(h, t, p), NEW r, r = PutBack(m.h, t, p, m.n)
  PROVE  r.result = "error" /\ \A k \in InUse(h) : r.h.kids[k] = h.kids[k] /\ r.h.node[k] = h.node[k]
<1> DEFINE g == m.h
           c == m.n
           again == Set(g, t, p, c)
<1>0. /\ p \in SeqNames /\ t \in Nodes /\ t # None /\ Typed(h)
      /\ r = [h |-> again.h, result |-> IF again.result = "ok" THEN "error" ELSE "bug"]
  BY PathsAre, TreeAssumption DEF InUse, Linked, PutBack
<1> HIDE DEF again, g, c
<1>1. CASE p = <<>>
  <2>1. /\ c = NewNode(h) /\ c \in FreeNodes(h) /\ c # t
        /\ g.kids[c] = h.kids[t] /\ g.node[c] = h.node[t]
        /\ DOMAIN g.kids = Nodes /\ DOMAIN g.node = Nodes
        /\ \A k \in Nodes : k # t /\ k # c => g.kids[k] = h.kids[k] /\ g.node[k] = h.node[k]
    BY <1>1, RemoveRootNodes DEF g, c
  <2> DEFINE f == Put(g, t, g.node[c], g.kids[c])
  <2>2. again = [h |-> f, result |-> "ok"]
    BY <1>1, SetCases DEF again
  <2>3. f.kids = [g.kids EXCEPT ![t] = g.kids[c]] /\ f.node = [g.node EXCEPT ![t] = g.node[c]]
    BY DEF Put
  <2> HIDE DEF f
  <2>4. r.result = "error" /\ r.h = f
    BY <1>0, <2>2
  <2>5. \A k \in InUse(h) : f.kids[k] = h.kids[k] /\ f.node[k] = h.node[k]
    BY <1>0, <2>1, <2>3 DEF InUse
  <2> QED
    BY <2>4, <2>5
<1>2. CASE p # <<>>
  <2>1. PICK b \in SeqNames, x \in Names : p = Add(b, x)
    BY <1>0, <1>2, SeqLast
  <2> DEFINE d == Down(h, t, b)
             e == Down(h, t, p)
             f == Link(g, d, x, c)
             mk == MkdirAll(g, t, b)
  <2>2. S!Front(p) = b /\ S!Last(p) = x
    BY <2>1, FrontAdd
  <2>3. d # None /\ e = h.kids[d][x]
    BY <2>1, DownAdd
  <2>4. /\ d \in Nodes /\ e \in Nodes /\ e # None
    BY <1>0, <2>3, DownIs
  <2>5. g = Link(h, d, x, None) /\ c = e
    <3>1. m = [h |-> Link(h, d, x, None), n |-> e]
      BY <1>0, <1>2, <2>2, RemoveCases
    <3> QED
      BY <3>1 DEF g, c
  <2>6. IsLink(g, h, d, x, None)
    BY <1>0, <2>4, <2>5, LinkIs
  <2>7. Removed(g, h, t, c)
    BY <1>2, RemoveBelow DEF g, c
  <2> HIDE DEF d, e, f, mk
  <2>8. Linked(g) /\ Typed(g) /\ NoParent(g, c) /\ NoParent(g, t) /\ c \in Nodes
    BY <2>7 DEF Removed, Linked, InUse
  <2>9. ~Related(g, t, c)
    BY <1>0, <2>8, NoParentOf DEF Related
  <2>10. Down(g, t, b) = d
    <3>1. ~Starts(p, b)
      BY <2>1, SeqAdd, SeqIs, StartsFacts
    <3>2. Down(h, t, b) = d
      BY DEF d
    <3> QED
      BY <3>1, <3>2, <1>0, <2>1, <2>3, <2>6, LinkDown
  <2>11. IsDir(h, d)
    BY <2>3, <2>4 DEF Linked, OnlyDirs, NoKids
  <2>12. IsDir(g, d)
    BY <2>6, <2>11 DEF IsLink, IsDir
  <2>13. mk = [h |-> g, n |-> d, ok |-> TRUE]
    BY <1>0, <2>3, <2>8, <2>10, <2>12, MkdirAllThere DEF mk
  <2>14. again = [h |-> f, result |-> "ok"]
    <3>1. mk.h = g /\ mk.n = d /\ mk.ok = TRUE
      BY <2>13
    <3>2. SetIs(again, g, t, c, p, mk)
      BY <1>2, <2>2, SetCases DEF again, mk
    <3> QED
      BY <2>2, <2>9, <2>12, <3>1, <3>2, Zenon DEF SetIs, f
  <2>15. r.result = "error" /\ r.h = f
    BY <1>0, <2>14
  <2>16. IsLink(f, g, d, x, c)
    BY <2>4, <2>8, LinkIs DEF f
  <2>17. f.node = h.node
    BY <2>6, <2>16 DEF IsLink
  <2>18. \A a \in Nodes, y \in Names : f.kids[a][y] = h.kids[a][y]
    BY <2>3, <2>5, <2>6, <2>16 DEF IsLink
  <2>19. \A a \in Nodes : f.kids[a] = h.kids[a]
    BY <1>0, <2>16, <2>18 DEF IsLink, Typed
  <2> QED
    BY <2>15, <2>17, <2>19 DEF InUse
<1> QED
  BY <1>1, <1>2

-----------------------------------------------------------------------------
(* What Copy and RemoveEmptyDirs are to paths *)

LEMMA CopyAt ==
  ASSUME NEW h, Linked(h), NEW n \in InUse(h), NEW g, NEW new, IsCopy(g, h, n, new)
  PROVE  /\ Tree(g, new[n]) = Tree(h, n) /\ Reach(g, new[n]) = Reach(h, n)
         /\ \A k \in InUse(h) : g.kids[k] = h.kids[k] /\ g.node[k] = h.node[k]
<1>0. n \in Nodes /\ Typed(h)
  BY DEF InUse, Linked
<1>1. /\ \A a \in Has(h, n) : new[a] \in FreeNodes(h) /\ new[a] \in Nodes /\ new[a] # None
      /\ \A a \in Has(h, n) :
           /\ g.node[new[a]] = h.node[a]
           /\ \A x \in Names : g.kids[new[a]][x] = IF h.kids[a][x] = None THEN None ELSE new[h.kids[a][x]]
      /\ \A c \in Nodes : (\A a \in Has(h, n) : c # new[a]) => g.node[c] = h.node[c] /\ g.kids[c] = h.kids[c]
  <2>1. FreeNodes(h) \subseteq Nodes /\ None \notin Nodes
    BY TreeAssumption DEF FreeNodes
  <2> QED
    BY <2>1 DEF IsCopy
<1> DEFINE To(a) == IF a = None THEN None ELSE new[a]
           C == {q \in SeqNames : Down(g, new[n], q) = To(Down(h, n, q))}
<1>2. n \in Has(h, n) /\ n # None
  BY <1>0, HasClosed, TreeAssumption
<1>3. <<>> \in C
  BY <1>2, SeqEmpty, DownEmpty
<1>4. ASSUME NEW q \in SeqNames, NEW x \in Names, q \in C
      PROVE  Add(q, x) \in C
  <2> DEFINE d == Down(h, n, q)
  <2>1. /\ Down(g, new[n], Add(q, x)) = IF Down(g, new[n], q) = None THEN None
                                        ELSE g.kids[Down(g, new[n], q)][x]
        /\ Down(h, n, Add(q, x)) = IF d = None THEN None ELSE h.kids[d][x]
        /\ Add(q, x) \in SeqNames
    BY DownAdd, SeqAdd
  <2>2. d \in Has(h, n) \cup {None}
    BY <1>0, DownIs
  <2>3. Down(g, new[n], q) = To(d)
    BY <1>4
  <2> HIDE DEF d
  <2>4. CASE d = None
    BY <2>1, <2>3, <2>4
  <2>5. CASE d # None
    BY <1>1, <2>1, <2>2, <2>3, <2>5
  <2> QED
    BY <2>4, <2>5
<1>5. SeqNames \subseteq C
  <2> HIDE DEF C
  <2> QED
    BY <1>3, <1>4, SeqInduct
<1>6. ASSUME NEW q \in SeqNames
      PROVE  /\ q \in Reach(g, new[n]) <=> q \in Reach(h, n)
             /\ q \in Reach(h, n) => g.node[Down(g, new[n], q)] = h.node[Down(h, n, q)]
  <2>1. Down(h, n, q) \in Has(h, n) \cup {None}
    BY <1>0, DownIs
  <2>2. Down(g, new[n], q) = To(Down(h, n, q))
    BY <1>5
  <2> QED
    BY <1>1, <2>1, <2>2 DEF Reach
<1>7. Reach(g, new[n]) = Reach(h, n)
  BY <1>6 DEF Reach
<1>8. \A q \in Reach(h, n) : g.node[Down(g, new[n], q)] = h.node[Down(h, n, q)]
  BY <1>6 DEF Reach
<1>9. Tree(g, new[n]) = Tree(h, n)
  BY <1>7, <1>8, Zenon DEF Tree
<1>10. \A k \in InUse(h) : g.kids[k] = h.kids[k] /\ g.node[k] = h.node[k]
  BY <1>1 DEF InUse
<1> QED
  BY <1>7, <1>9, <1>10

\* RemoveEmptyDirs on the tree at t, seen from a node s of it.
LEMMA PrunedAt ==
  ASSUME NEW h, Typed(h), NEW t \in Nodes, NEW s \in Nodes, Has(h, s) \subseteq Has(h, t),
         NEW g, g = RemoveEmptyDirs(h, t)
  PROVE  Tree(g, s) = PathMap!WithoutEmptyDirs(Tree(h, s)) /\ Reach(g, s) \subseteq Reach(h, s)
<1>1. /\ g.node = h.node
      /\ \A a \in Has(h, s), x \in Names :
           g.kids[a][x] = IF h.kids[a][x] # None /\ ~HasFile(h, h.kids[a][x]) THEN None ELSE h.kids[a][x]
  <2>1. Has(h, t) \subseteq Nodes
    BY HasClosed
  <2> QED
    BY <2>1 DEF RemoveEmptyDirs, Typed
<1> DEFINE T == Tree(h, s)
           Keep(q) == Down(h, s, q) # None /\ (q = <<>> \/ HasFile(h, Down(h, s, q)))
           C == {q \in SeqNames : Down(g, s, q) = IF Keep(q) THEN Down(h, s, q) ELSE None}
<1>2. s # None
  BY TreeAssumption
<1>3. <<>> \in C
  BY <1>2, SeqEmpty, DownEmpty
<1>4. ASSUME NEW q \in SeqNames, NEW x \in Names, q \in C
      PROVE  Add(q, x) \in C
  <2> DEFINE d == Down(h, s, q)
             e == h.kids[d][x]
  <2>1. /\ Down(g, s, Add(q, x)) = IF Down(g, s, q) = None THEN None ELSE g.kids[Down(g, s, q)][x]
        /\ Down(h, s, Add(q, x)) = IF d = None THEN None ELSE e
        /\ Add(q, x) \in SeqNames /\ Add(q, x) # <<>>
    BY DownAdd, SeqAdd
  <2>2. d \in Has(h, s) \cup {None} /\ (d # None => d \in Nodes)
    BY DownIs
  <2>3. Down(g, s, q) = IF Keep(q) THEN d ELSE None
    BY <1>4
  <2>4. d # None => g.kids[d][x] = IF e # None /\ ~HasFile(h, e) THEN None ELSE e
    BY <1>1, <2>2
  <2>5. Keep(Add(q, x)) <=> d # None /\ e # None /\ HasFile(h, e)
    BY <2>1
  <2>6. d # None /\ e # None /\ HasFile(h, e) => HasFile(h, d)
    <3> SUFFICES ASSUME d # None, e # None, HasFile(h, e) PROVE HasFile(h, d)
      OBVIOUS
    <3>1. d \in Nodes /\ d \in Has(h, d)
      BY <2>2, HasClosed
    <3>2. e \in Has(h, d) /\ e \in Nodes
      BY <3>1, HasChild
    <3>3. Has(h, e) \subseteq Has(h, d)
      BY <3>1, <3>2, HasTransitive
    <3> QED
      BY <3>3 DEF HasFile
  <2>7. Keep(q) <=> d # None /\ (q = <<>> \/ HasFile(h, d))
    OBVIOUS
  <2> HIDE DEF d, e, Keep
  <2>8. Down(g, s, Add(q, x)) = IF Keep(Add(q, x)) THEN Down(h, s, Add(q, x)) ELSE None
    BY <2>1, <2>3, <2>4, <2>5, <2>6, <2>7
  <2> QED
    BY <2>1, <2>8
<1>5. SeqNames \subseteq C
  <2> HIDE DEF C
  <2> QED
    BY <1>3, <1>4, SeqInduct
<1>6. \A q \in SeqNames : /\ q \in Reach(g, s) <=> Keep(q)
                          /\ Keep(q) => Down(g, s, q) = Down(h, s, q) /\ q \in Reach(h, s)
  BY <1>5 DEF Reach
<1>7. ASSUME NEW q \in Reach(h, s)
      PROVE  HasFile(h, Down(h, s, q)) <=> \E r \in Reach(h, s) : PathMap!S!IsPrefix(q, r) /\ T[r] # Dir
  <2>1. q \in SeqNames /\ Down(h, s, q) # None /\ Down(h, s, q) \in Nodes
    BY DownIs DEF Reach
  <2>2. \A r \in Reach(h, s) : T[r] = h.node[Down(h, s, r)] /\ r \in SeqNames
    BY DEF Tree, Reach
  <2> HIDE DEF T
  <2>3. ASSUME NEW k \in Has(h, Down(h, s, q)), ~IsDir(h, k)
        PROVE  \E r \in Reach(h, s) : PathMap!S!IsPrefix(q, r) /\ T[r] # Dir
    <3>1. PICK v \in SeqNames : Down(h, Down(h, s, q), v) = k
      BY <2>1, HasDown
    <3>2. k # None
      BY <2>1, <2>3, HasClosed, TreeAssumption
    <3>3. Cat(q, v) \in SeqNames /\ Down(h, s, Cat(q, v)) = k
      BY <2>1, <3>1, DownCat, SeqCat
    <3>4. Starts(q, Cat(q, v)) /\ Cat(q, v) \in Reach(h, s)
      BY <2>1, <3>2, <3>3, StartsMore DEF Reach
    <3> QED
      BY <2>1, <2>2, <2>3, <3>3, <3>4, PrefixIs DEF IsDir
  <2>4. ASSUME NEW r \in Reach(h, s), PathMap!S!IsPrefix(q, r), T[r] # Dir
        PROVE  HasFile(h, Down(h, s, q))
    <3>1. PICK v \in SeqNames : r = Cat(q, v)
      BY <2>1, <2>2, <2>4, PrefixIs DEF Starts
    <3>2. Down(h, s, r) = Down(h, Down(h, s, q), v) /\ Down(h, s, r) # None
      BY <2>1, <3>1, DownCat DEF Reach
    <3>3. Down(h, s, r) \in Has(h, Down(h, s, q))
      BY <2>1, <3>2, DownIs
    <3> QED
      BY <2>2, <2>4, <3>3 DEF HasFile, IsDir
  <2> QED
    BY <2>3, <2>4 DEF HasFile
<1>8. DOMAIN T = Reach(h, s) /\ \A q \in Reach(h, s) : T[q] = h.node[Down(h, s, q)]
  BY DEF Tree
<1> DEFINE D == {q \in Reach(h, s) : q = <<>> \/ \E r \in Reach(h, s) : PathMap!S!IsPrefix(q, r) /\ T[r] # Dir}
<1> HIDE DEF T
<1>9. Reach(g, s) = D
  <2>1. Reach(g, s) \subseteq SeqNames /\ Reach(h, s) \subseteq SeqNames
    BY DEF Reach
  <2>2. ASSUME NEW q \in Reach(g, s) PROVE q \in D
    <3>1. Keep(q) /\ q \in Reach(h, s)
      BY <1>6, <2>1
    <3> QED
      BY <3>1, <1>7
  <2>3. ASSUME NEW q \in D PROVE q \in Reach(g, s)
    <3>1. q \in Reach(h, s) /\ q \in SeqNames /\ Down(h, s, q) # None
      BY <2>1 DEF Reach
    <3>2. Keep(q)
      BY <3>1, <1>7
    <3> QED
      BY <3>1, <3>2, <1>6
  <2> QED
    BY <2>2, <2>3
<1>10. \A q \in Reach(g, s) : g.node[Down(g, s, q)] = T[q]
  <2>1. Reach(g, s) \subseteq SeqNames
    BY DEF Reach
  <2> QED
    BY <2>1, <1>1, <1>6, <1>8
<1>11. Tree(g, s) = [q \in D |-> T[q]]
  BY <1>9, <1>10, Zenon DEF Tree
<1>12. PathMap!WithoutEmptyDirs(T) = [q \in D |-> T[q]]
  BY <1>8, Zenon DEF PathMap!WithoutEmptyDirs
<1> QED
  BY <1>9, <1>11, <1>12 DEF T

-----------------------------------------------------------------------------
(* What calls are to PathMap *)

\* No tree is deeper than a path can be.
DepthInv == WithinDepth(heap, tree) /\ (sub # None => WithinDepth(heap, sub))

Val(h, n) == IF n = None THEN None ELSE Tree(h, n)

LEMMA TreeOf ==
  ASSUME NEW h, NEW n, WithinDepth(h, n)
  PROVE  [p \in WalkPaths(h, n) |-> h.node[Down(h, n, p)]] = Tree(h, n)
<1>1. WalkPaths(h, n) = Reach(h, n)
  BY WalkPathsAre
<1> QED
  BY <1>1, Zenon DEF Tree

LEMMA NotNil ==
  ASSUME NEW h, Linked(h), NEW n \in InUse(h), WithinDepth(h, n)
  PROVE  Tree(h, n) # None
<1>1. n \in Nodes /\ Typed(h)
  BY DEF InUse, Linked
<1>2. \A q \in Reach(h, n) : h.node[Down(h, n, q)] \in Files \cup {Dir}
  <2>1. \A q \in Reach(h, n) : Down(h, n, q) \in InUse(h)
    BY <1>1, DownIs, HasInUse DEF Reach
  <2>2. \A k \in InUse(h) : h.node[k] \in Files \cup {Dir}
    BY <1>1 DEF InUse, FreeNodes, Typed
  <2> QED
    BY <2>1, <2>2
<1>3. Tree(h, n) \in [Reach(h, n) -> Files \cup {Dir}]
  BY <1>2 DEF Tree
<1>4. Reach(h, n) \in SUBSET Paths
  BY DEF WithinDepth
<1> QED
  BY <1>3, <1>4, TreeAssumption

LEMMA ValuesNow ==
  ASSUME TreeInv, DepthInv
  PROVE  /\ Value(tree) = Tree(heap, tree) /\ Value(sub) = Val(heap, sub)
         /\ sub # None => Value(sub) = Tree(heap, sub) /\ Value(sub) # None
         /\ DOMAIN Value(tree) = Reach(heap, tree)
<1>1. Value(tree) = Tree(heap, tree)
  BY InvIs, TreeOf, Zenon DEF Value, DepthInv
<1>2. Value(sub) = Val(heap, sub)
  BY TreeOf, Zenon DEF Value, Val, DepthInv
<1>3. sub # None => Val(heap, sub) = Tree(heap, sub) /\ Tree(heap, sub) # None
  BY InvIs, NotNil DEF Val, DepthInv
<1>4. DOMAIN Tree(heap, tree) = Reach(heap, tree)
  BY DEF Tree
<1> QED
  BY <1>1, <1>2, <1>3, <1>4

\* What the nodes are to PathMap after a call, from what the call returns: that the rest is
\* collected makes no difference.
LEMMA ReturnsMap ==
  ASSUME TreeInv', NEW r, NEW t, NEW s, Returns(r, t, s),
         WithinDepth(r.h, t), s # None => WithinDepth(r.h, s)
  PROVE  DepthInv' /\ Value(tree)' = Tree(r.h, t) /\ Value(sub)' = Val(r.h, s)
<1>1. heap' = Collected(r.h, Live(r.h, t, s)) /\ tree' = t /\ sub' = s
  BY DEF Returns
<1> DEFINE g == heap'
<1>2. Linked(g) /\ Typed(g) /\ t \in InUse(g) /\ (s # None => s \in InUse(g))
  BY <1>1 DEF TreeInv, Shape, Held, Linked
<1> HIDE DEF g
<1>3. \A k \in InUse(g) : r.h.kids[k] = g.kids[k] /\ r.h.node[k] = g.node[k]
  BY <1>1 DEF Collected, InUse, FreeNodes, g
<1>4. ASSUME NEW n \in InUse(g), WithinDepth(r.h, n)
      PROVE  Tree(r.h, n) = Tree(g, n) /\ WithinDepth(g, n)
  <2>1. Has(g, n) \subseteq InUse(g) /\ n \in Nodes
    BY <1>2, HasInUse
  <2>2. \A k \in Has(g, n) : r.h.kids[k] = g.kids[k] /\ r.h.node[k] = g.node[k]
    BY <1>3, <2>1
  <2>3. Tree(r.h, n) = Tree(g, n) /\ Reach(r.h, n) = Reach(g, n)
    BY <1>2, <2>1, <2>2, TreeAway
  <2> QED
    BY <1>4, <2>3 DEF WithinDepth
<1>5. Tree(r.h, t) = Tree(g, t) /\ WithinDepth(g, t) /\ t # None
  BY <1>2, <1>4, TreeAssumption DEF InUse
<1>6. s # None => Tree(r.h, s) = Tree(g, s) /\ WithinDepth(g, s)
  BY <1>2, <1>4
<1>7. DepthInv'
  BY <1>1, <1>5, <1>6 DEF DepthInv, g
<1>8. Value(tree)' = Tree(g, t)
  <2>1. Value(tree)' = [p \in WalkPaths(g, t) |-> g.node[Down(g, t, p)]]
    BY <1>1, <1>5, Zenon DEF Value, g
  <2> QED
    BY <1>5, <2>1, TreeOf
<1>9. Value(sub)' = IF s = None THEN None ELSE Tree(g, s)
  <2>1. Value(sub)' = IF s = None THEN None ELSE [p \in WalkPaths(g, s) |-> g.node[Down(g, s, p)]]
    BY <1>1, Zenon DEF Value, g
  <2> QED
    BY <1>6, <2>1, TreeOf
<1> QED
  BY <1>5, <1>6, <1>7, <1>8, <1>9 DEF Val

\* A call that fails does nothing.
LEMMA SameMap ==
  ASSUME TreeInv, DepthInv, TreeInv', NEW r, Returns(r, tree, sub),
         \A k \in InUse(heap) : r.h.kids[k] = heap.kids[k] /\ r.h.node[k] = heap.node[k]
  PROVE  DepthInv' /\ UNCHANGED PathMap!mapVars
<1>1. ASSUME NEW n \in InUse(heap)
      PROVE  Tree(r.h, n) = Tree(heap, n) /\ Reach(r.h, n) = Reach(heap, n)
  <2>1. Has(heap, n) \subseteq InUse(heap) /\ n \in Nodes /\ Typed(heap)
    BY InvIs, HasInUse
  <2>2. \A k \in Has(heap, n) : r.h.kids[k] = heap.kids[k] /\ r.h.node[k] = heap.node[k]
    BY <2>1
  <2> QED
    BY <2>1, <2>2, TreeAway
<1>2. /\ Tree(r.h, tree) = Tree(heap, tree) /\ WithinDepth(r.h, tree)
      /\ sub # None => Tree(r.h, sub) = Tree(heap, sub) /\ WithinDepth(r.h, sub)
  BY <1>1, InvIs DEF DepthInv, WithinDepth
<1>3. DepthInv' /\ Value(tree)' = Tree(r.h, tree) /\ Value(sub)' = Val(r.h, sub)
  BY <1>2, ReturnsMap
<1>4. Val(r.h, sub) = Val(heap, sub)
  BY <1>2 DEF Val
<1> QED
  BY <1>2, <1>3, <1>4, ValuesNow DEF PathMap!mapVars

LEMMA StaysAt ==
  ASSUME NEW h, NEW g, NEW t, NEW s, s # None, WithinDepth(h, t), WithinDepth(h, s), WithinDepth(g, t),
         Stays(h, g, t, s)
  PROVE  /\ WithinDepth(g, s)
         /\ \/ Tree(g, s) = Tree(h, s)
            \/ \E u \in Paths : /\ u \in DOMAIN Tree(h, t) \cap DOMAIN Tree(g, t)
                                /\ Tree(h, s) = PathMap!At(Tree(h, t), u)
                                /\ Tree(g, s) = PathMap!At(Tree(g, t), u)
<1>1. CASE Tree(g, s) = Tree(h, s) /\ Reach(g, s) = Reach(h, s)
  BY <1>1 DEF WithinDepth
<1>2. ASSUME NEW u \in SeqNames, Down(h, t, u) = s, Down(g, t, u) = s
      PROVE  /\ WithinDepth(g, s)
             /\ u \in Paths /\ u \in DOMAIN Tree(h, t) \cap DOMAIN Tree(g, t)
             /\ Tree(h, s) = PathMap!At(Tree(h, t), u)
             /\ Tree(g, s) = PathMap!At(Tree(g, t), u)
  <2>1. u \in Reach(h, t) /\ u \in Reach(g, t)
    BY <1>2 DEF Reach
  <2>2. DOMAIN Tree(h, t) = Reach(h, t) /\ DOMAIN Tree(g, t) = Reach(g, t)
    BY DEF Tree
  <2>3. Tree(h, s) = PathMap!At(Tree(h, t), u)
    BY <1>2, AtIs
  <2>4. Tree(g, s) = PathMap!At(Tree(g, t), u) /\ WithinDepth(g, s)
    BY <1>2, AtIs
  <2> QED
    BY <2>1, <2>2, <2>3, <2>4 DEF WithinDepth
<1> QED
  BY <1>1, <1>2 DEF Stays

\* The caller's other node, when its tree is changed.
LEMMA FollowsIs ==
  ASSUME TreeInv, DepthInv, NEW h, NEW g, WithinDepth(g, tree), Tree(h, tree) = Tree(heap, tree),
         WithinDepth(h, tree),
         sub # None => /\ Tree(h, sub) = Tree(heap, sub) /\ WithinDepth(h, sub)
                       /\ Stays(h, g, tree, sub),
         Value(tree)' = Tree(g, tree), Value(sub)' = Val(g, sub)
  PROVE  \E u \in Paths : PathMap!Follows(u)
<1>1. Value(tree) = Tree(h, tree) /\ Value(sub) = Val(heap, sub)
  BY ValuesNow
<1>2. <<>> \in Paths
  BY SeqEmpty, SeqIs, PathsAre, TreeAssumption
<1>3. CASE sub = None
  <2>1. Value(sub)' = Value(sub)
    BY <1>1, <1>3 DEF Val
  <2> QED
    BY <1>2, <2>1 DEF PathMap!Follows
<1>4. CASE sub # None
  <2>1. Value(sub) = Tree(h, sub) /\ Value(sub)' = Tree(g, sub)
    BY <1>1, <1>4 DEF Val
  <2>2. CASE Tree(g, sub) = Tree(h, sub)
    BY <1>2, <2>1, <2>2 DEF PathMap!Follows
  <2>3. CASE \E u \in Paths : /\ u \in DOMAIN Tree(h, tree) \cap DOMAIN Tree(g, tree)
                              /\ Tree(h, sub) = PathMap!At(Tree(h, tree), u)
                              /\ Tree(g, sub) = PathMap!At(Tree(g, tree), u)
    <3>1. PICK u \in Paths : /\ u \in DOMAIN Tree(h, tree) \cap DOMAIN Tree(g, tree)
                             /\ Tree(h, sub) = PathMap!At(Tree(h, tree), u)
                             /\ Tree(g, sub) = PathMap!At(Tree(g, tree), u)
      BY <2>3
    <3>2. PathMap!Follows(u)
      BY <1>1, <2>1, <3>1 DEF PathMap!Follows
    <3> QED
      BY <3>2
  <2> QED
    BY <1>4, <2>2, <2>3, StaysAt
<1> QED
  BY <1>3, <1>4

LEMMA SetIsAt ==
  ASSUME NEW h, Linked(h), OneParent(h, Nodes), NEW t \in InUse(h), NEW c \in InUse(h), t # c,
         NoParent(h, t), NEW p \in Paths, p # <<>> /\ ~Related(h, t, c) => NoParent(h, c),
         FreeCount(h) >= Depth, Set(h, t, p, c).result = "ok",
         WithinDepth(h, t), \A q \in Reach(h, c) : Len(p) + Len(q) <= Depth
  PROVE  /\ SetAt(Set(h, t, p, c).h, h, t, p, c)
         /\ PathMap!CanHold(Tree(h, t), p)
         /\ Tree(Set(h, t, p, c).h, t) = PathMap!Graft(Tree(h, t), p, Tree(h, c))
         /\ WithinDepth(Set(h, t, p, c).h, t)
         /\ \A s \in InUse(h) : Stays(h, Set(h, t, p, c).h, t, s)
<1>1. p \in SeqNames /\ FreeCount(h) >= Len(p) - 1
  BY PathsAre, SeqIs, FreeFinite, TreeAssumption
<1>2. SetAt(Set(h, t, p, c).h, h, t, p, c)
  BY <1>1, SetBelowAt, SetRootAt
<1> QED
  BY <1>1, <1>2, SetAtGraft, SetAtStays

LEMMA LeafIs ==
  ASSUME NEW h, Linked(h), NEW c \in Nodes, h.kids[c] = NoKids
  PROVE  Reach(h, c) = {<<>>} /\ Tree(h, c) = [q \in {<<>>} |-> h.node[c]]
<1>0. Typed(h) /\ Down(h, c, <<>>) = c /\ c # None
  BY DownEmpty, TreeAssumption DEF Linked
<1>1. Closed(h, {c})
  BY DEF Closed, NoKids
<1>2. Has(h, c) \subseteq {c}
  BY <1>1, HasLeast
<1>3. ASSUME NEW q \in SeqNames, q # <<>> PROVE Down(h, c, q) = None
  BY <1>0, <1>2, <1>3, DownIs, DownNotBack
<1>4. Reach(h, c) = {<<>>}
  BY <1>0, <1>3, SeqEmpty DEF Reach
<1>5. \A q \in {<<>>} : h.node[Down(h, c, q)] = h.node[c]
  BY <1>0
<1> QED
  BY <1>4, <1>5, Zenon DEF Tree

LEMMA SamePaths ==
  PathMap!Paths = Paths
BY Zenon DEF PathMap!Paths, Paths

LEMMA SetNewMap ==
  ASSUME TreeInv, DepthInv, TreeInv', NEW p \in Paths, NEW v \in Files \cup {Dir}, SetNew(p, v)
  PROVE  DepthInv' /\ (PathMap!Set(p) \/ UNCHANGED PathMap!mapVars)
<1> DEFINE c == NewNode(heap)
           h == New(heap, v)
           r == Set(h, tree, p, c)
           g == r.h
<1>1. FreeCount(heap) >= Depth + 1 /\ Returns(r, tree, sub)
  BY DEF SetNew, Room, FreeCount
<1>2. c \in FreeNodes(heap) /\ IsNew(h, heap, c, v) /\ FreeCount(h) = FreeCount(heap) - 1
  BY <1>1, InvIs, NewIsNew
<1>3. c \notin InUse(heap) /\ c \in Nodes /\ NoParent(heap, c) /\ heap.kids[c] = NoKids
  BY <1>2, InvIs, FreeAlone DEF InUse
<1> HIDE DEF c, h, r
<1>4. /\ Linked(h) /\ InUse(h) = InUse(heap) \cup {c}
      /\ \A n : NoParent(heap, n) => NoParent(h, n)
      /\ OneParent(h, Nodes)
  BY <1>2, InvIs, NewLinked
<1>5. /\ Held(h, tree, sub) /\ NoParent(h, c) /\ c # tree /\ c # sub /\ c \in InUse(h)
      /\ tree \in InUse(h) /\ NoParent(h, tree)
  BY <1>3, <1>4, InvIs, TreeAssumption DEF Held
<1>6. FreeCount(h) >= Depth
  BY <1>1, <1>2, InvIs
<1>7. /\ r.result # "ok" => r.h = h
      /\ r.result = "ok" => Sound(r.h, tree, sub)
  BY <1>4, <1>5, <1>6, SetSound DEF r
<1>8. \A k \in InUse(heap) : h.kids[k] = heap.kids[k] /\ h.node[k] = heap.node[k]
  BY <1>2, <1>3, InvIs DEF IsNew, Typed
<1>9. CASE r.result # "ok"
  BY <1>1, <1>7, <1>8, <1>9, SameMap
<1>10. CASE r.result = "ok"
  <2>1. ASSUME NEW n \in InUse(heap)
        PROVE  Tree(h, n) = Tree(heap, n) /\ Reach(h, n) = Reach(heap, n)
    <3>1. Has(heap, n) \subseteq InUse(heap) /\ n \in Nodes /\ Typed(heap)
      BY InvIs, HasInUse
    <3>2. \A k \in Has(heap, n) : h.kids[k] = heap.kids[k] /\ h.node[k] = heap.node[k]
      BY <1>8, <3>1
    <3> QED
      BY <3>1, <3>2, TreeAway
  <2>2. /\ Tree(h, tree) = Tree(heap, tree) /\ WithinDepth(h, tree)
        /\ sub # None => Tree(h, sub) = Tree(heap, sub) /\ WithinDepth(h, sub) /\ sub \in InUse(h)
    BY <2>1, <1>4, InvIs DEF DepthInv, WithinDepth
  <2>3. Reach(h, c) = {<<>>} /\ Tree(h, c) = [q \in {<<>>} |-> v]
    <3>1. h.kids[c] = NoKids /\ h.node[c] = v
      BY <1>2, <1>3, InvIs DEF IsNew, Typed
    <3>2. Reach(h, c) = {<<>>} /\ Tree(h, c) = [q \in {<<>>} |-> h.node[c]]
      BY <1>3, <1>4, <3>1, LeafIs
    <3> QED
      BY <3>1, <3>2, Zenon
  <2>4. Len(p) \in Nat /\ Len(p) <= Depth /\ Len(<<>>) = 0
    BY PathLen
  <2>5. \A q \in Reach(h, c) : Len(p) + Len(q) <= Depth
    BY <2>3, <2>4
  <2>6. /\ PathMap!CanHold(Tree(h, tree), p)
        /\ Tree(g, tree) = PathMap!Graft(Tree(h, tree), p, Tree(h, c))
        /\ WithinDepth(g, tree)
        /\ \A s \in InUse(h) : Stays(h, g, tree, s)
    BY <1>4, <1>5, <1>6, <1>10, <2>2, <2>5, SetIsAt DEF r
  <2> HIDE DEF g
  <2>7. sub # None => WithinDepth(g, sub)
    BY <2>2, <2>6, StaysAt
  <2>8. DepthInv' /\ Value(tree)' = Tree(g, tree) /\ Value(sub)' = Val(g, sub)
    BY <1>1, <1>10, <2>6, <2>7, ReturnsMap DEF g
  <2>9. PICK u \in Paths : PathMap!Follows(u)
    BY <2>2, <2>6, <2>8, FollowsIs
  <2>10. Tree(h, c) \in {PathMap!NewFile(w) : w \in Files} \cup {PathMap!NewDir}
    <3>1. PathMap!NewFile(v) = Tree(h, c)
      BY <2>3, Zenon DEF PathMap!NewFile
    <3>2. v = Dir => PathMap!NewDir = Tree(h, c)
      BY <2>3, Zenon DEF PathMap!NewDir
    <3> QED
      BY <3>1, <3>2
  <2>11. PathMap!Fits(p, Tree(h, c))
    <3>1. DOMAIN Tree(h, c) = {<<>>}
      BY <2>3
    <3> QED
      BY <2>4, <3>1 DEF PathMap!Fits
  <2>12. PathMap!SetChild(p, Tree(h, c))
    BY <2>2, <2>6, <2>8, <2>11, ValuesNow DEF PathMap!SetChild
  <2>13. PathMap!Set(p)
    <3>1. \E x \in PathMap!Paths : PathMap!Follows(x)
      BY <2>9, SamePaths
    <3>2. \E child \in {PathMap!NewFile(w) : w \in Files} \cup {PathMap!NewDir} :
            PathMap!SetChild(p, child)
      BY <2>10, <2>12
    <3> QED
      BY <3>1, <3>2, Zenon DEF PathMap!Set
  <2> QED
    BY <2>8, <2>13
<1> QED
  BY <1>9, <1>10

LEMMA SetSubMap ==
  ASSUME TreeInv, DepthInv, TreeInv', NEW p \in Paths, SetSub(p)
  PROVE  DepthInv' /\ (PathMap!Set(p) \/ UNCHANGED PathMap!mapVars)
<1> DEFINE r == Set(heap, tree, p, sub)
           g == r.h
<1>1. /\ FreeCount(heap) >= Depth /\ sub # None /\ sub # tree
      /\ Returns(r, tree, IF r.result = "ok" THEN None ELSE sub)
      /\ \A q \in WalkPaths(heap, sub) : Len(p) + Len(q) <= Depth
  BY DEF SetSub, Room, FreeCount, Fits
<1>2. Held(heap, tree, None)
  BY InvIs DEF Held
<1>3. ~Related(heap, tree, sub) => NoParent(heap, sub)
  BY <1>1, InvIs, HasVia DEF Related
<1> HIDE DEF r
<1>4. r.result # "ok" => r.h = heap
  BY <1>1, <1>2, <1>3, InvIs, SetSound DEF r
<1>5. CASE r.result # "ok"
  <2>1. Returns(r, tree, sub)
    BY <1>1, <1>5
  <2> QED
    BY <1>4, <1>5, <2>1, SameMap
<1>6. CASE r.result = "ok"
  <2>1. \A q \in Reach(heap, sub) : Len(p) + Len(q) <= Depth
    BY <1>1, WalkPathsAre DEF DepthInv
  <2>2. /\ PathMap!CanHold(Tree(heap, tree), p)
        /\ Tree(g, tree) = PathMap!Graft(Tree(heap, tree), p, Tree(heap, sub))
        /\ WithinDepth(g, tree)
    BY <1>1, <1>3, <1>6, <2>1, InvIs, SetIsAt DEF r, DepthInv
  <2> HIDE DEF g
  <2>3. DepthInv' /\ Value(tree)' = Tree(g, tree) /\ Value(sub)' = None
    <3>1. Returns(r, tree, None)
      BY <1>1, <1>6
    <3> QED
      BY <1>6, <2>2, <3>1, ReturnsMap DEF g, Val
  <2>4. PathMap!Fits(p, Tree(heap, sub))
    <3>1. DOMAIN Tree(heap, sub) = Reach(heap, sub)
      BY DEF Tree
    <3> QED
      BY <2>1, <3>1 DEF PathMap!Fits
  <2>5. PathMap!SetChild(p, Value(sub))
    BY <1>1, <2>2, <2>3, <2>4, ValuesNow DEF PathMap!SetChild
  <2>6. PathMap!Set(p)
    BY <1>1, <2>3, <2>5, ValuesNow DEF PathMap!Set
  <2> QED
    BY <2>3, <2>6
<1> QED
  BY <1>5, <1>6

LEMMA SetInSubMap ==
  ASSUME TreeInv, DepthInv, TreeInv', NEW p \in Paths, SetInSub(p)
  PROVE  DepthInv' /\ (PathMap!SetInSub(p) \/ UNCHANGED PathMap!mapVars)
<1> DEFINE r == Set(heap, sub, p, tree)
           g == r.h
<1>1. /\ FreeCount(heap) >= Depth /\ sub # None /\ sub # tree /\ p # <<>>
      /\ IF r.result = "ok" THEN Returns(r, sub, None) ELSE Returns(r, tree, sub)
      /\ \A q \in WalkPaths(heap, tree) : Len(p) + Len(q) <= Depth
  BY DEF SetInSub, Room, FreeCount, Fits
<1>2. FreeCount(heap) >= Len(p) - 1
  BY <1>1, InvIs, PathLen
<1>3. /\ r.result # "ok" => r.h = heap
      /\ r.result = "ok" => sub \notin Has(heap, tree)
  BY <1>1, <1>2, InvIs, SetInto
<1> HIDE DEF r
<1>4. CASE r.result # "ok"
  BY <1>1, <1>3, <1>4, SameMap
<1>5. CASE r.result = "ok"
  <2>1. \A q \in Reach(heap, tree) : Len(p) + Len(q) <= Depth
    BY <1>1, WalkPathsAre DEF DepthInv
  <2>2. NoParent(heap, sub)
    BY <1>1, <1>3, <1>5, InvIs
  <2>3. /\ PathMap!CanHold(Tree(heap, sub), p)
        /\ Tree(g, sub) = PathMap!Graft(Tree(heap, sub), p, Tree(heap, tree))
        /\ WithinDepth(g, sub)
    BY <1>1, <1>5, <2>1, <2>2, InvIs, SetIsAt DEF r, DepthInv
  <2> HIDE DEF g
  <2>4. DepthInv' /\ Value(tree)' = Tree(g, sub) /\ Value(sub)' = None
    BY <1>1, <1>5, <2>3, ReturnsMap DEF g, Val
  <2>5. PathMap!SetInSub(p)
    BY <1>1, <2>3, <2>4, ValuesNow DEF PathMap!SetInSub
  <2> QED
    BY <2>4, <2>5
<1> QED
  BY <1>4, <1>5

LEMMA ApartSame ==
  ASSUME NEW h, Linked(h), OneParent(h, Nodes), NEW t \in InUse(h), NoParent(h, t),
         NEW s \in InUse(h), s \notin Has(h, t),
         NEW g, \A k \in InUse(h) : k \notin Has(h, t) => g.kids[k] = h.kids[k] /\ g.node[k] = h.node[k]
  PROVE  Tree(g, s) = Tree(h, s) /\ Reach(g, s) = Reach(h, s)
<1>1. s \in Nodes /\ t \in Nodes /\ s # t /\ Typed(h)
  BY HasClosed DEF InUse, Linked
<1>2. t \notin Has(h, s) /\ Has(h, s) \subseteq InUse(h)
  BY <1>1, NoParentHas, HasInUse
<1>3. OneParent(h, Has(h, s) \cup Has(h, t))
  BY <1>1, HasClosed DEF OneParent
<1>4. Has(h, s) \cap Has(h, t) = {}
  BY <1>1, <1>3, Disjoint
<1>5. \A k \in Has(h, s) : g.kids[k] = h.kids[k] /\ g.node[k] = h.node[k]
  BY <1>2, <1>4
<1> QED
  BY <1>1, <1>5, TreeAway

LEMMA ReachAbove ==
  ASSUME NEW h, NEW n, NEW p \in Reach(h, n), NEW q \in SeqNames, Starts(q, p)
  PROVE  q \in Reach(h, n)
<1>1. PICK r \in SeqNames : p = Cat(q, r)
  BY DEF Starts
<1>2. Down(h, n, p) # None
  BY DEF Reach
<1> QED
  BY <1>1, <1>2, DownCat DEF Reach

LEMMA GetMap ==
  ASSUME TreeInv, DepthInv, TreeInv', NEW p \in Paths, Get(p)
  PROVE  DepthInv' /\ (PathMap!Get(p) \/ UNCHANGED PathMap!mapVars)
<1> DEFINE n == Down(heap, tree, p)
           bad == [h |-> heap, result |-> "error"]
           ok == [h |-> heap, result |-> "ok"]
<1>1. IF n = None THEN Returns(bad, tree, sub) ELSE Returns(ok, tree, n)
  BY DEF Get
<1>2. bad.h = heap /\ ok.h = heap /\ ok.result # "panic"
  OBVIOUS
<1>3. p \in SeqNames
  BY PathsAre
<1>4. n # None => PathMap!At(Tree(heap, tree), p) = Tree(heap, n) /\ WithinDepth(heap, n)
  BY <1>3, AtIs DEF DepthInv
<1>5. n # None => p \in Reach(heap, tree)
  BY <1>3 DEF Reach
<1> HIDE DEF n, bad, ok
<1>6. CASE n = None
  BY <1>1, <1>2, <1>6, SameMap
<1>7. CASE n # None
  <2>1. DepthInv' /\ Value(tree)' = Tree(heap, tree) /\ Value(sub)' = Tree(heap, n)
    BY <1>1, <1>2, <1>4, <1>7, ReturnsMap DEF DepthInv, Val
  <2>2. PathMap!Get(p)
    BY <1>4, <1>5, <1>7, <2>1, ValuesNow DEF PathMap!Get
  <2> QED
    BY <2>1, <2>2
<1> QED
  BY <1>6, <1>7

LEMMA RemoveIsAt ==
  ASSUME NEW h, Linked(h), OneParent(h, Nodes), NEW t \in InUse(h), NEW p \in Paths,
         Down(h, t, p) # None, FreeCount(h) > 0, NEW m, m = Remove(h, t, p)
  PROVE  RemovedAt(m.h, h, t, p, m.n)
<1>1. CASE p = <<>>
  <2>1. m.n = NewNode(h)
    BY <1>1, RemoveRootNodes
  <2> QED
    BY <1>1, <2>1, RemoveRootAt
<1>2. CASE p # <<>>
  <2>1. m.n = Down(h, t, p)
    <3>1. t # None
      BY TreeAssumption DEF InUse
    <3>2. m = [h |-> Link(h, Down(h, t, S!Front(p)), S!Last(p), None), n |-> Down(h, t, p)]
      BY <1>2, <3>1, RemoveCases
    <3> QED
      BY <3>2
  <2> QED
    BY <1>2, <2>1, RemoveBelowAt
<1> QED
  BY <1>1, <1>2

LEMMA RemovePathMap ==
  ASSUME TreeInv, DepthInv, TreeInv', NEW p \in Paths, RemovePath(p)
  PROVE  DepthInv' /\ (PathMap!Remove(p) \/ UNCHANGED PathMap!mapVars)
<1> DEFINE m == Remove(heap, tree, p)
           bad == [h |-> heap, result |-> "error"]
           ok == [h |-> m.h, result |-> "ok"]
<1>1. /\ FreeCount(heap) > 0
      /\ IF m.n = None THEN Returns(bad, tree, sub) ELSE Returns(ok, tree, m.n)
  BY FreeFinite DEF RemovePath, Room, FreeCount
<1>2. bad.h = heap /\ ok.h = m.h /\ ok.result # "panic"
  OBVIOUS
<1>3. m.n = None <=> Down(heap, tree, p) = None
  BY <1>1, InvIs, RemoveIs
<1>4. m.n # None => RemovedAt(m.h, heap, tree, p, m.n)
  BY <1>1, <1>3, InvIs, RemoveIsAt
<1> HIDE DEF m, bad, ok
<1>5. CASE m.n = None
  BY <1>1, <1>2, <1>5, SameMap
<1>6. CASE m.n # None
  <2>1. /\ p \in DOMAIN Tree(heap, tree)
        /\ Tree(m.h, tree) = PathMap!Prune(Tree(heap, tree), p) /\ WithinDepth(m.h, tree)
        /\ Tree(m.h, m.n) = PathMap!At(Tree(heap, tree), p) /\ WithinDepth(m.h, m.n)
    BY <1>3, <1>4, <1>6, InvIs, RemovedAtPrune DEF DepthInv
  <2>2. DepthInv' /\ Value(tree)' = Tree(m.h, tree) /\ Value(sub)' = Tree(m.h, m.n)
    BY <1>1, <1>2, <1>6, <2>1, ReturnsMap DEF Val
  <2>3. PathMap!Remove(p)
    BY <2>1, <2>2, ValuesNow DEF PathMap!Remove
  <2> QED
    BY <2>2, <2>3
<1> QED
  BY <1>5, <1>6

LEMMA CopyTreeMap ==
  ASSUME TreeInv, DepthInv, TreeInv', CopyTree
  PROVE  DepthInv' /\ PathMap!Copy
<1> DEFINE c == Copy(heap, tree)
           r == [h |-> c.h, result |-> "ok"]
<1>1. FreeCount(heap) >= Cardinality(Has(heap, tree)) /\ Returns(r, tree, c.n)
  BY DEF CopyTree, Room, FreeCount
<1>2. r.h = c.h /\ r.result # "panic"
  OBVIOUS
<1> HIDE DEF r
<1>3. PICK new : IsCopy(c.h, heap, tree, new) /\ c.n = new[tree]
  BY <1>1, InvIs, CopyIs
<1> HIDE DEF c
<1>4. /\ Tree(c.h, c.n) = Tree(heap, tree) /\ Reach(c.h, c.n) = Reach(heap, tree)
      /\ \A k \in InUse(heap) : c.h.kids[k] = heap.kids[k] /\ c.h.node[k] = heap.node[k]
  BY <1>3, InvIs, CopyAt
<1>5. Tree(c.h, tree) = Tree(heap, tree) /\ Reach(c.h, tree) = Reach(heap, tree)
  <2>1. Has(heap, tree) \subseteq InUse(heap) /\ tree \in Nodes /\ Typed(heap)
    BY InvIs, HasInUse
  <2>2. \A k \in Has(heap, tree) : c.h.kids[k] = heap.kids[k] /\ c.h.node[k] = heap.node[k]
    BY <1>4, <2>1
  <2> QED
    BY <2>1, <2>2, TreeAway
<1>6. c.n # None
  <2>1. new[tree] \in FreeNodes(heap)
    BY <1>3, InvIs, HasClosed DEF IsCopy
  <2> QED
    BY <1>3, <2>1, TreeAssumption DEF FreeNodes
<1>7. DepthInv' /\ Value(tree)' = Tree(c.h, tree) /\ Value(sub)' = Tree(c.h, c.n)
  BY <1>1, <1>2, <1>4, <1>5, <1>6, ReturnsMap DEF Val, DepthInv, WithinDepth
<1>8. PathMap!Copy
  BY <1>4, <1>5, <1>7, ValuesNow DEF PathMap!Copy
<1> QED
  BY <1>7, <1>8

LEMMA PruneTreeMap ==
  ASSUME TreeInv, DepthInv, TreeInv', PruneTree
  PROVE  DepthInv' /\ PathMap!RemoveEmptyDirs
<1> DEFINE g == RemoveEmptyDirs(heap, tree)
           r == [h |-> g, result |-> "ok"]
<1>1. Returns(r, tree, sub) /\ r.h = g /\ r.result # "panic"
  BY DEF PruneTree
<1> HIDE DEF r
<1>2. Tree(g, tree) = PathMap!WithoutEmptyDirs(Tree(heap, tree)) /\ Reach(g, tree) \subseteq Reach(heap, tree)
  BY InvIs, PrunedAt
<1>3. ASSUME sub # None
      PROVE  /\ WithinDepth(g, sub)
             /\ Tree(g, sub) \in {Tree(heap, sub), PathMap!WithoutEmptyDirs(Tree(heap, sub))}
  <2>1. CASE sub \in Has(heap, tree)
    <3>1. Has(heap, sub) \subseteq Has(heap, tree) /\ tree \in Nodes /\ sub \in Nodes
      BY <2>1, <1>3, InvIs, HasTransitive
    <3>2. /\ Tree(g, sub) = PathMap!WithoutEmptyDirs(Tree(heap, sub))
          /\ Reach(g, sub) \subseteq Reach(heap, sub)
      BY <3>1, InvIs, PrunedAt
    <3> QED
      BY <3>2, <1>3 DEF DepthInv, WithinDepth
  <2>2. CASE sub \notin Has(heap, tree)
    <3>1. \A k \in InUse(heap) : k \notin Has(heap, tree) => g.kids[k] = heap.kids[k] /\ g.node[k] = heap.node[k]
      BY InvIs DEF RemoveEmptyDirs, Typed
    <3> HIDE DEF g
    <3>2. Tree(g, sub) = Tree(heap, sub) /\ Reach(g, sub) = Reach(heap, sub)
      BY <1>3, <2>2, <3>1, InvIs, ApartSame
    <3> QED
      BY <3>2, <1>3 DEF DepthInv, WithinDepth
  <2> QED
    BY <2>1, <2>2
<1> HIDE DEF g
<1>4. DepthInv' /\ Value(tree)' = Tree(g, tree) /\ Value(sub)' = Val(g, sub)
  BY <1>1, <1>2, <1>3, ReturnsMap DEF DepthInv, WithinDepth
<1>5. PathMap!RemoveEmptyDirs
  <2>1. Value(tree)' = PathMap!WithoutEmptyDirs(Value(tree))
    BY <1>2, <1>4, ValuesNow
  <2>2. CASE sub = None
    <3>1. Value(sub)' = Value(sub)
      BY <1>4, <2>2, ValuesNow DEF Val
    <3> QED
      BY <2>1, <3>1, Zenon DEF PathMap!RemoveEmptyDirs
  <2>3. CASE sub # None
    <3>1. Value(sub) # None /\ Value(sub)' \in {Value(sub), PathMap!WithoutEmptyDirs(Value(sub))}
      BY <1>3, <1>4, <2>3, ValuesNow DEF Val
    <3> QED
      BY <2>1, <3>1 DEF PathMap!RemoveEmptyDirs
  <2> QED
    BY <2>2, <2>3
<1> QED
  BY <1>4, <1>5

LEMMA DropMap ==
  ASSUME TreeInv, DepthInv, TreeInv', Drop
  PROVE  DepthInv' /\ PathMap!Drop
<1> DEFINE r == [h |-> heap, result |-> "ok"]
<1>1. Returns(r, tree, None) /\ r.h = heap /\ r.result # "panic"
  BY DEF Drop
<1> HIDE DEF r
<1>2. DepthInv' /\ Value(tree)' = Tree(heap, tree) /\ Value(sub)' = None
  BY <1>1, ReturnsMap DEF DepthInv, Val
<1>3. PathMap!Drop
  BY <1>2, ValuesNow DEF PathMap!Drop
<1> QED
  BY <1>2, <1>3

LEMMA MkdirCallMap ==
  ASSUME TreeInv, DepthInv, TreeInv', NEW p \in Paths, Mkdir(p)
  PROVE  DepthInv' /\ (PathMap!MkdirAll(p) \/ UNCHANGED PathMap!mapVars)
<1> DEFINE mk == MkdirAll(heap, tree, p)
           r == [h |-> mk.h, result |-> IF mk.ok THEN "ok" ELSE "error"]
           g == mk.h
           T == Tree(heap, tree)
           G == Tree(g, tree)
<1>1. FreeCount(heap) >= Depth /\ Returns(r, tree, sub) /\ r.h = g /\ r.result # "panic"
  BY DEF Mkdir, Room, FreeCount
<1>2. p \in SeqNames /\ FreeCount(heap) >= Len(p) /\ Len(p) \in Nat /\ Len(p) <= Depth
  BY <1>1, InvIs, PathsAre, SeqIs
<1>3. MkdirMap(mk, heap, tree, p) /\ MkdirInv(mk, heap, tree, Len(p))
  BY <1>2, InvIs, MkdirAllMap
<1> HIDE DEF mk, r
<1>4. CASE ~mk.ok
  <2>1. r.h = heap
    BY <1>1, <1>3, <1>4 DEF MkdirInv
  <2> QED
    BY <1>1, <2>1, SameMap
<1>5. CASE mk.ok
  <2>1. /\ Down(g, tree, p) = mk.n
        /\ \A q \in Reach(heap, tree) : Down(g, tree, q) = Down(heap, tree, q)
        /\ \A q \in Reach(g, tree) \ Reach(heap, tree) :
             Starts(q, p) /\ Down(g, tree, q) \notin InUse(heap) /\ IsDir(g, Down(g, tree, q))
        /\ \A q \in Reach(heap, tree) : Starts(q, p) /\ q # p => IsDir(heap, Down(heap, tree, q))
        /\ \A k \in InUse(heap) : g.node[k] = heap.node[k]
        /\ \A k \in InUse(heap) : g.kids[k] = heap.kids[k]
                                  \/ \E q \in Reach(heap, tree) : Starts(q, p) /\ q # p /\ k = Down(heap, tree, q)
    BY <1>3, <1>5, Zenon DEF MkdirMap
  <2>2. mk.n # None
    BY <1>3, TreeAssumption DEF MkdirInv, InUse
  <2> HIDE DEF g
  <2>3. /\ DOMAIN T = Reach(heap, tree) /\ \A q \in Reach(heap, tree) : T[q] = heap.node[Down(heap, tree, q)]
        /\ DOMAIN G = Reach(g, tree) /\ \A q \in Reach(g, tree) : G[q] = g.node[Down(g, tree, q)]
        /\ G = [q \in Reach(g, tree) |-> G[q]]
        /\ Reach(heap, tree) \subseteq SeqNames /\ Reach(g, tree) \subseteq SeqNames
    BY DEF Tree, Reach
  <2> HIDE DEF T, G
  <2>4. Reach(heap, tree) \subseteq Reach(g, tree)
    BY <2>1 DEF Reach
  <2>5. \A q \in Reach(heap, tree) : G[q] = T[q]
    <3>1. \A q \in Reach(heap, tree) : Down(heap, tree, q) \in InUse(heap)
      BY InvIs, DownIs, HasInUse DEF Reach
    <3> QED
      BY <2>1, <2>3, <2>4, <3>1
  <2>6. WithinDepth(g, tree)
    <3>1. Reach(heap, tree) \subseteq Paths
      BY DEF DepthInv, WithinDepth
    <3>2. \A q \in SeqNames : Starts(q, p) => q \in Paths
      BY <1>2, StartsFacts, SeqIs, PathsAre, TreeAssumption
    <3> QED
      BY <2>1, <2>3, <3>1, <3>2 DEF WithinDepth
  <2>7. ASSUME sub # None PROVE Stays(heap, g, tree, sub)
    <3>1. CASE sub \in Has(heap, tree)
      <4>1. PICK u \in SeqNames : Down(heap, tree, u) = sub
        BY <3>1, InvIs, HasDown
      <4>2. Down(g, tree, u) = sub
        BY <2>1, <2>7, <4>1 DEF Reach
      <4> QED
        BY <4>1, <4>2 DEF Stays
    <3>2. CASE sub \notin Has(heap, tree)
      <4>1. \A q \in Reach(heap, tree) : Down(heap, tree, q) \in Has(heap, tree)
        BY InvIs, DownIs DEF Reach
      <4>2. \A k \in InUse(heap) : k \notin Has(heap, tree) => g.kids[k] = heap.kids[k] /\ g.node[k] = heap.node[k]
        BY <2>1, <4>1
      <4> QED
        BY <2>7, <3>2, <4>2, InvIs, ApartSame DEF Stays
    <3> QED
      BY <3>1, <3>2
  <2>8. sub # None => /\ WithinDepth(g, sub)
                      /\ \/ Tree(g, sub) = Tree(heap, sub)
                         \/ \E u \in Paths : /\ Tree(heap, sub) = PathMap!At(T, u)
                                             /\ Tree(g, sub) = PathMap!At(G, u)
    BY <2>6, <2>7, StaysAt DEF DepthInv, T, G
  <2>9. DepthInv' /\ Value(tree)' = G /\ Value(sub)' = Val(g, sub)
    BY <1>1, <2>6, <2>8, ReturnsMap DEF g, G
  <2>10. Value(tree) = T
    BY ValuesNow DEF T
  <2>11. ASSUME p \in Reach(heap, tree) PROVE UNCHANGED PathMap!mapVars
    <3>1. Reach(g, tree) = Reach(heap, tree)
      BY <2>1, <2>3, <2>4, <2>11, ReachAbove
    <3>2. T = [q \in Reach(heap, tree) |-> T[q]]
      BY DEF T, Tree
    <3>3. G = T
      BY <2>3, <2>5, <3>1, <3>2, Zenon
    <3>4. Value(sub)' = Value(sub)
      <4>1. Val(g, sub) = Val(heap, sub)
        BY <2>8, <3>3 DEF Val
      <4> QED
        BY <2>9, <4>1, ValuesNow
    <3> QED
      BY <2>9, <2>10, <3>3, <3>4 DEF PathMap!mapVars
  <2>12. ASSUME p \notin Reach(heap, tree) PROVE PathMap!MkdirAll(p)
    <3>1. PathMap!NewDir = [q \in {<<>>} |-> Dir]
      BY DEF PathMap!NewDir
    <3>2. p \in Reach(g, tree) /\ Cat(p, <<>>) = p
      BY <1>2, <2>1, <2>2, SeqCat DEF Reach
    <3>3. ASSUME NEW q \in SeqNames
          PROVE  q \in Reach(g, tree) <=> \/ q = p
                                          \/ q \in Reach(heap, tree) /\ ~Starts(p, q)
                                          \/ Starts(q, p) /\ q # p
      <4>1. q \in Reach(heap, tree) => ~Starts(p, q)
        BY <1>2, <2>12, ReachAbove
      <4>2. Starts(q, p) => q \in Reach(g, tree)
        BY <3>2, ReachAbove
      <4> QED
        BY <2>1, <2>4, <3>2, <4>1, <4>2
    <3>4. G[p] = Dir /\ \A q \in Reach(g, tree) : q \notin Reach(heap, tree) => G[q] = Dir
      BY <2>1, <2>3, <2>12, <3>2 DEF IsDir
    <3>5. IsGraft(G, Reach(g, tree), T, p, PathMap!NewDir)
      <4>1. DOMAIN PathMap!NewDir = {<<>>} /\ PathMap!NewDir[<<>>] = Dir
        BY <3>1
      <4>2. DOMAIN T \subseteq SeqNames /\ DOMAIN PathMap!NewDir \subseteq SeqNames
        BY <2>3, <4>1, SeqEmpty
      <4>3. \A q \in SeqNames :
              q \in Reach(g, tree) <=> \/ \E u \in DOMAIN PathMap!NewDir : q = Cat(p, u)
                                       \/ q \in DOMAIN T /\ ~Starts(p, q)
                                       \/ Starts(q, p) /\ q # p
        BY <2>3, <3>2, <3>3, <4>1
      <4>4. \A u \in DOMAIN PathMap!NewDir : G[Cat(p, u)] = PathMap!NewDir[u]
        BY <3>2, <3>4, <4>1
      <4> HIDE DEF T, G
      <4> QED
        BY <2>3, <2>5, <3>4, <4>2, <4>3, <4>4, Zenon DEF IsGraft
    <3>6. G = PathMap!Graft(T, p, PathMap!NewDir)
      BY <1>2, <3>5, GraftIs
    <3>7. PathMap!CanHold(T, p)
      <4>1. \A q \in PathMap!Above(p) : q \in DOMAIN T => T[q] = Dir
        BY <1>2, <2>1, <2>3, AboveIs DEF IsDir
      <4> QED
        BY <4>1 DEF PathMap!CanHold
    <3>8. \E x \in PathMap!Paths : PathMap!Follows(x)
      <4>1. \E x \in Paths : PathMap!Follows(x)
        BY <2>6, <2>7, <2>9, FollowsIs DEF DepthInv, G
      <4> QED
        BY <4>1, SamePaths
    <3>9. p \notin DOMAIN Value(tree)
      BY <2>3, <2>10, <2>12
    <3> QED
      BY <2>9, <2>10, <3>6, <3>7, <3>8, <3>9, Zenon DEF PathMap!MkdirAll
  <2> QED
    BY <2>9, <2>11, <2>12
<1> QED
  BY <1>4, <1>5

\* Where the caller's other node goes when from becomes to: c is what was at from, h is the
\* heap without it, and g the one that the call leaves.
LEMMA RenameStays ==
  ASSUME NEW e, Linked(e), OneParent(e, Nodes), NEW t \in InUse(e), NoParent(e, t),
         NEW from \in Paths, NEW to \in Paths, NEW c, Down(e, t, from) # None,
         NEW h, Linked(h), OneParent(h, Nodes), t \in InUse(h), RemovedAt(h, e, t, from, c),
         NEW g, SetAt(g, h, t, to, c), NEW s \in InUse(e), Stays(h, g, t, s),
         to = <<>> => Down(e, t, from) # s,
         WithinDepth(e, t), WithinDepth(e, s), WithinDepth(h, t), WithinDepth(g, t)
  PROVE  /\ WithinDepth(g, s)
         /\ \/ Tree(g, s) = Tree(e, s)
            \/ \E u \in Reach(e, t) :
                 /\ Tree(e, s) = PathMap!At(Tree(e, t), u)
                 /\ \/ Tree(g, s) \in {PathMap!At(Tree(h, t), u), PathMap!At(Tree(g, t), u)}
                    \/ \E v \in SeqNames : u = Cat(from, v) /\ Tree(g, s) = PathMap!At(Tree(g, t), Cat(to, v))
<1>0. /\ from \in SeqNames /\ to \in SeqNames /\ t \in Nodes /\ s \in Nodes /\ s # None /\ t # None
      /\ Typed(e) /\ Typed(h)
  BY PathsAre, TreeAssumption DEF InUse, Linked
<1>1. /\ \A q \in SeqNames : ~Starts(from, q) => Down(h, t, q) = Down(e, t, q)
      /\ \A v \in SeqNames : v # <<>> \/ from # <<>> => Down(h, t, Cat(from, v)) = None
      /\ \A v \in SeqNames : v # <<>> \/ from # <<>> => Down(h, c, v) = Down(e, t, Cat(from, v))
  BY DEF RemovedAt
<1>2. \A v \in SeqNames : v # <<>> \/ to # <<>> => Down(g, t, Cat(to, v)) = Down(h, c, v)
  BY DEF SetAt
<1>3. \A u \in SeqNames : Down(g, t, u) = s => Tree(g, s) = PathMap!At(Tree(g, t), u) /\ WithinDepth(g, s)
  BY <1>0, AtIs
<1>4. ASSUME NEW u \in SeqNames, Down(e, t, u) = s
      PROVE  /\ WithinDepth(g, s)
             /\ \/ Tree(g, s) \in {PathMap!At(Tree(h, t), u), PathMap!At(Tree(g, t), u)}
                \/ \E v \in SeqNames : u = Cat(from, v) /\ Tree(g, s) = PathMap!At(Tree(g, t), Cat(to, v))
  <2>1. CASE Starts(from, u) /\ (u # <<>> \/ from # <<>>)
    <3>1. PICK v \in SeqNames : u = Cat(from, v)
      BY <2>1 DEF Starts
    <3>2. v # <<>> \/ from # <<>>
      BY <2>1, <3>1, <1>0, SeqCat
    <3>3. Down(h, c, v) = s
      BY <1>1, <1>4, <3>1, <3>2
    <3>4. v # <<>> \/ to # <<>>
      <4>1. v = <<>> => u = from
        BY <3>1, <1>0, SeqCat
      <4> QED
        BY <4>1, <1>4
    <3>5. Down(g, t, Cat(to, v)) = s /\ Cat(to, v) \in SeqNames
      BY <1>0, <1>2, <3>3, <3>4, SeqCat
    <3> QED
      BY <1>3, <3>1, <3>5
  <2>2. CASE ~Starts(from, u) \/ (u = <<>> /\ from = <<>>)
    <3>1. Down(h, t, u) = s
      <4>1. CASE ~Starts(from, u)
        BY <1>1, <1>4, <4>1
      <4>2. CASE u = <<>>
        BY <1>4, <4>2, DownEmpty
      <4> QED
        BY <2>2, <4>1, <4>2
    <3>2. Tree(h, s) = PathMap!At(Tree(h, t), u) /\ WithinDepth(h, s)
      BY <1>0, <3>1, AtIs
    <3>3. CASE Tree(g, s) = Tree(h, s) /\ Reach(g, s) = Reach(h, s)
      BY <3>2, <3>3 DEF WithinDepth
    <3>4. ASSUME NEW w \in SeqNames, Down(h, t, w) = s, Down(g, t, w) = s
          PROVE  Tree(g, s) = PathMap!At(Tree(g, t), u) /\ WithinDepth(g, s)
      <4>1. w = u
        BY <1>0, <3>1, <3>4, OneWay
      <4> QED
        BY <1>3, <3>4, <4>1
    <3> QED
      BY <3>3, <3>4 DEF Stays
  <2> QED
    BY <2>1, <2>2
<1>5. CASE s \in Has(e, t)
  <2>1. PICK u \in SeqNames : Down(e, t, u) = s
    BY <1>0, <1>5, HasDown
  <2>2. u \in Reach(e, t) /\ Tree(e, s) = PathMap!At(Tree(e, t), u)
    BY <1>0, <2>1, AtIs DEF Reach
  <2> QED
    BY <2>1, <2>2, <1>4
<1>6. CASE s \notin Has(e, t)
  <2>1. Tree(h, s) = Tree(e, s) /\ Reach(h, s) = Reach(e, s)
    BY <1>6, RemovedAtPrune
  <2>2. ASSUME NEW u \in SeqNames, Down(h, t, u) = s PROVE FALSE
    <3>1. CASE ~Starts(from, u)
      BY <1>0, <1>1, <1>6, <2>2, <3>1, DownIs
    <3>2. CASE Starts(from, u)
      <4>1. PICK v \in SeqNames : u = Cat(from, v)
        BY <3>2 DEF Starts
      <4>2. v = <<>> /\ from = <<>>
        BY <1>0, <1>1, <2>2, <4>1
      <4>3. s = t
        BY <1>0, <2>2, <4>1, <4>2, SeqCat, DownEmpty
      <4> QED
        BY <1>0, <1>6, <4>3, HasClosed
    <3> QED
      BY <3>1, <3>2
  <2>3. Tree(g, s) = Tree(h, s) /\ Reach(g, s) = Reach(h, s)
    BY <2>2 DEF Stays
  <2> QED
    BY <2>1, <2>3 DEF WithinDepth
<1> QED
  BY <1>5, <1>6

\* The caller's other node, when Rename has removed its node and panics: what was taken out
\* is as it was, and what is left has lost it.
LEMMA RemovedStays ==
  ASSUME NEW e, Linked(e), OneParent(e, Nodes), NEW t \in InUse(e), NoParent(e, t),
         NEW p \in Paths, NEW c, c # None, Down(e, t, p) # None,
         NEW h, Linked(h), RemovedAt(h, e, t, p, c), NEW s \in InUse(e),
         WithinDepth(e, t), WithinDepth(e, s)
  PROVE  Stays(e, h, t, s)
<1>0. p \in SeqNames /\ t \in Nodes /\ s \in Nodes /\ s # None /\ t # None /\ Typed(e)
  BY PathsAre, TreeAssumption DEF InUse, Linked
<1>1. CASE s \notin Has(e, t)
  BY <1>1, RemovedAtPrune DEF Stays
<1>2. CASE s \in Has(e, t)
  <2>1. PICK u \in SeqNames : Down(e, t, u) = s
    BY <1>0, <1>2, HasDown
  <2>2. CASE Starts(p, u) /\ (u # <<>> \/ p # <<>>)
    <3>1. PICK v \in SeqNames : u = Cat(p, v)
      BY <2>2 DEF Starts
    <3>2. v # <<>> \/ p # <<>>
      BY <2>2, <3>1, <1>0, SeqCat
    <3>3. Down(h, c, v) = s
      BY <2>1, <3>1, <3>2 DEF RemovedAt
    <3>4. ASSUME NEW w \in SeqNames PROVE Down(h, s, w) = Down(e, s, w)
      <4>1. Down(e, t, Cat(u, w)) = Down(e, s, w)
        BY <1>0, <2>1, <3>4, DownCat
      <4>2. Down(h, c, Cat(v, w)) = Down(h, s, w)
        BY <1>0, <3>3, <3>4, DownCat
      <4>3. Cat(u, w) = Cat(p, Cat(v, w)) /\ Cat(v, w) \in SeqNames
        BY <1>0, <3>1, <3>4, CatCat, SeqCat
      <4>4. Cat(v, w) # <<>> \/ p # <<>>
        <5>1. v # <<>> => Len(v) \in Nat \ {0} /\ Len(w) \in Nat
          BY SeqIs
        <5>2. Len(Cat(v, w)) = Len(v) + Len(w)
          BY <3>4, SeqCat
        <5>3. Cat(v, w) = <<>> => Len(Cat(v, w)) = 0
          BY <4>3, SeqIs
        <5> QED
          BY <3>2, <5>1, <5>2, <5>3
      <4> QED
        BY <4>1, <4>2, <4>3, <4>4 DEF RemovedAt
    <3>5. Reach(h, s) = Reach(e, s)
      BY <3>4 DEF Reach
    <3>6. ASSUME NEW w \in Reach(e, s) PROVE h.node[Down(h, s, w)] = e.node[Down(e, s, w)]
      <4>1. w \in SeqNames /\ Down(e, s, w) # None
        BY <3>6 DEF Reach
      <4>2. Down(e, s, w) \in InUse(e)
        BY <1>0, <4>1, DownIs, HasInUse
      <4>3. p = <<>> => Down(e, s, w) # t
        <5>1. Cat(u, w) \in SeqNames /\ Len(Cat(u, w)) = Len(u) + Len(w)
          BY <4>1, SeqCat
        <5>2. Down(e, t, Cat(u, w)) = Down(e, s, w)
          BY <1>0, <2>1, <4>1, DownCat
        <5>3. Down(e, t, <<>>) = t
          BY DownEmpty
        <5>4. Down(e, s, w) = t => Cat(u, w) = <<>>
          BY <1>0, <5>1, <5>2, <5>3, SeqEmpty, OneWay
        <5>5. Len(u) \in Nat /\ Len(w) \in Nat /\ (u = <<>> <=> Len(u) = 0)
              /\ (Cat(u, w) = <<>> <=> Len(Cat(u, w)) = 0)
          BY <4>1, <5>1, SeqIs
        <5> QED
          BY <2>2, <5>1, <5>4, <5>5
      <4>4. h.node[Down(e, s, w)] = e.node[Down(e, s, w)]
        BY <4>2, <4>3 DEF RemovedAt
      <4> QED
        BY <3>4, <4>1, <4>4
    <3>7. Tree(h, s) = Tree(e, s)
      BY <3>5, <3>6, Zenon DEF Tree
    <3> QED
      BY <3>5, <3>7 DEF Stays
  <2>3. CASE ~Starts(p, u)
    <3>1. Down(h, t, u) = s
      BY <2>1, <2>3 DEF RemovedAt
    <3> QED
      BY <2>1, <3>1 DEF Stays
  <2>4. CASE u = <<>>
    <3>1. Down(h, t, u) = s
      BY <2>1, <2>4, DownEmpty
    <3> QED
      BY <2>1, <3>1 DEF Stays
  <2> QED
    BY <2>2, <2>3, <2>4
<1> QED
  BY <1>1, <1>2

\* Set panics only where the directory of its path is there and is a file.
LEMMA PanicIs ==
  ASSUME NEW h, Linked(h), OneParent(h, Nodes), NEW t \in InUse(h), NEW c, NEW p,
         FreeCount(h) >= Depth, Set(h, t, p, c).result = "panic"
  PROVE  /\ p \in Paths /\ Len(p) > 1
         /\ S!Front(p) \in Reach(h, t) /\ ~IsDir(h, Down(h, t, S!Front(p)))
<1> DEFINE q == S!Front(p)
           mk == MkdirAll(h, t, q)
           r == Set(h, t, p, c)
<1>1. p \in Paths /\ p # <<>>
  <2>1. p \notin Paths => r = [h |-> h, result |-> "error"]
    BY SetCases
  <2>2. p = <<>> => r = [h |-> Put(h, t, h.node[c], h.kids[c]), result |-> "ok"]
    BY SetCases
  <2> QED
    BY <2>1, <2>2
<1>2. Len(q) \in Nat /\ q \in [1..Len(q) -> Names] /\ Len(p) = Len(q) + 1 /\ q \in SeqNames
  <2>1. Len(p) \in Nat \ {0} /\ Len(q) = Len(p) - 1 /\ q \in [1..(Len(p) - 1) -> Names]
    BY <1>1, FrontIs
  <2>2. q \in Seq(Names)
    BY <2>1, LenIs
  <2> HIDE DEF q
  <2> QED
    BY <2>1, <2>2 DEF SeqNames
<1>3. FreeCount(h) >= Len(q)
  <2>1. Len(p) <= Depth
    BY <1>1, PathsAre
  <2> HIDE DEF q
  <2> QED
    BY <1>2, <2>1, FreeFinite, TreeAssumption
<1>4. SetIs(r, h, t, c, p, mk)
  BY <1>1, SetCases
<1>5. MkdirMap(mk, h, t, q) /\ MkdirInv(mk, h, t, Len(q))
  BY <1>2, <1>3, MkdirAllMap
<1>6. q = <<>> => mk.n = t /\ (mk.ok => IsDir(h, t))
  <2>0. Len(q) \in Nat /\ mk = MkdirAll(h, t, q)
    BY <1>2
  <2>2. q = <<>> => Len(q) = 0
    OBVIOUS
  <2> HIDE DEF mk, q, r
  <2>1. PICK at : /\ at[0] = [h |-> h, n |-> t, ok |-> q # <<>> \/ IsDir(h, t)]
                  /\ mk = at[Len(q)]
    <3>1. \E at : /\ at[0] = [h |-> h, n |-> t, ok |-> q # <<>> \/ IsDir(h, t)]
                  /\ \A k \in 0..(Len(q) - 1) : at[k + 1] = MkdirStep(at[k], q[k + 1])
                  /\ MkdirAll(h, t, q) = at[Len(q)]
      BY <2>0, MkdirAllFcn
    <3> QED
      BY <2>0, <3>1, Zenon
  <2> DEFINE there == q # <<>> \/ IsDir(h, t)
  <2>3. at[0] = [h |-> h, n |-> t, ok |-> there]
    BY <2>1
  <2>4. q = <<>> => (there => IsDir(h, t))
    OBVIOUS
  <2> HIDE DEF there
  <2>5. at[0].n = t /\ at[0].ok = there
    BY <2>3
  <2> QED
    BY <2>1, <2>2, <2>4, <2>5
<1> HIDE DEF r
<1>7. mk.ok /\ ~IsDir(mk.h, mk.n)
  <2>1. r.result = "panic"
    BY DEF r
  <2> HIDE DEF mk
  <2> QED
    BY <1>4, <2>1 DEF SetIs
<1> HIDE DEF mk
<1>8. mk.h = h
  BY <1>5, <1>7 DEF MkdirInv
<1>9. Down(h, t, q) = mk.n
  BY <1>5, <1>7, <1>8, Zenon DEF MkdirMap
<1>10. mk.n # None
  BY <1>5, TreeAssumption DEF MkdirInv, InUse
<1>11. q # <<>>
  <2> SUFFICES ASSUME q = <<>> PROVE FALSE
    OBVIOUS
  <2>1. mk.n = t /\ IsDir(h, t)
    BY <1>6, <1>7
  <2> HIDE DEF q
  <2> QED
    BY <1>7, <1>8, <2>1
<1>12. Len(q) # 0
  BY <1>2, <1>11, SeqIs
<1> HIDE DEF q
<1>13. q \in Reach(h, t) /\ ~IsDir(h, Down(h, t, q))
  BY <1>2, <1>7, <1>8, <1>9, <1>10 DEF Reach
<1>14. Len(p) > 1
  BY <1>2, <1>12
<1> QED
  BY <1>1, <1>13, <1>14 DEF q

LEMMA RenamePathMap ==
  ASSUME TreeInv, DepthInv, TreeInv', NEW from \in Paths, NEW to, RenamePath(from, to)
  PROVE  /\ DepthInv'
         /\ \/ to \in Paths /\ (PathMap!Rename(from, to) \/ PathMap!RenameBelowFile(from, to))
            \/ UNCHANGED PathMap!mapVars
         /\ result' # "bug"
<1> DEFINE m == Remove(heap, tree, from)
           n == Down(heap, tree, from)
           h == m.h
           c == m.n
           set == Set(h, tree, to, c)
           r == Rename(heap, tree, from, to)
           T == Tree(heap, tree)
<1>1. /\ FreeCount(heap) >= Depth + 1 /\ Returns(r, tree, sub)
      /\ n # None => /\ \A q \in WalkPaths(heap, n) : Len(to) + Len(q) <= Depth
                     /\ to = <<>> => n # sub
  BY DEF RenamePath, Room, FreeCount, Fits
<1>2. /\ FreeCount(heap) > 0 /\ (c = None <=> n = None)
      /\ c # None => Removed(h, heap, tree, c)
      /\ c # None /\ from # <<>> => c = n
      /\ c # None /\ from = <<>> => c \notin InUse(heap)
  BY <1>1, InvIs, RemoveIs
<1>3. \/ c = None /\ r = [h |-> heap, result |-> "error"]
      \/ c # None /\ set.result # "error" /\ r = set
      \/ c # None /\ set.result = "error" /\ r = PutBack(set.h, tree, from, c)
  BY RenameCases
<1>4. from \in SeqNames
  BY PathsAre
<1>5. result' = r.result
  BY <1>1 DEF Returns
<1>6. CASE c = None
  <2>1. r.h = heap /\ r.result = "error"
    BY <1>3, <1>6
  <2> HIDE DEF r, c
  <2>2. DepthInv' /\ UNCHANGED PathMap!mapVars
    BY <1>1, <2>1, SameMap
  <2> QED
    BY <1>5, <2>1, <2>2
<1>7. CASE c # None
  <2>1. /\ Linked(h) /\ OneParent(h, Nodes) /\ InUse(heap) \subseteq InUse(h)
        /\ c \in InUse(h) /\ c # tree /\ NoParent(h, c) /\ NoParent(h, tree)
        /\ FreeCount(h) >= Depth /\ tree \in InUse(h) /\ Held(h, tree, None)
    BY <1>1, <1>2, <1>7, InvIs, FreeFinite DEF Removed, Held
  <2>2. /\ set.result \in {"ok", "error", "panic"}
        /\ set.result # "ok" => set.h = h
    BY <2>1, SetSound
  <2>3. n # None
    BY <1>2, <1>7
  <2>4. CASE set.result = "panic"
    <3> DEFINE T1 == Tree(h, tree)
    <3>1. r = set /\ r.h = h /\ r.result = "panic"
      BY <1>3, <1>7, <2>2, <2>4
    <3>2. RemovedAt(h, heap, tree, from, c)
      BY <1>2, <2>3, InvIs, RemoveIsAt
    <3>3. /\ to \in Paths /\ Len(to) > 1
          /\ S!Front(to) \in Reach(h, tree) /\ ~IsDir(h, Down(h, tree, S!Front(to)))
      BY <2>1, <2>4, PanicIs
    <3> HIDE DEF m, h, c, set, r
    <3>4. /\ from \in DOMAIN T
          /\ T1 = PathMap!Prune(T, from) /\ WithinDepth(h, tree)
      BY <1>7, <2>3, <3>2, InvIs, RemovedAtPrune DEF DepthInv
    <3>5. sub # None => Stays(heap, h, tree, sub) /\ WithinDepth(heap, sub)
      BY <1>7, <2>1, <2>3, <3>2, InvIs, RemovedStays DEF DepthInv
    <3>6. sub # None => WithinDepth(h, sub)
      BY <3>4, <3>5, InvIs, StaysAt, TreeAssumption DEF DepthInv, InUse
    <3>7. DepthInv' /\ Value(tree)' = T1 /\ Value(sub)' = Val(h, sub)
      BY <1>1, <3>1, <3>4, <3>6, ReturnsMap
    <3>8. \E u \in Paths : PathMap!Follows(u)
      BY <3>4, <3>5, <3>7, FollowsIs DEF DepthInv
    <3>9. Value(tree) = T
      BY ValuesNow
    <3>10. S!Front(to) \in DOMAIN T1 /\ T1[S!Front(to)] # Dir
      BY <3>3 DEF Tree, IsDir
    <3>11. PathMap!S!Front(to) = S!Front(to)
      BY DEF PathMap!S!Front, S!Front
    <3> HIDE DEF T, T1
    <3>12. PathMap!RenameBelowFile(from, to)
      BY <3>3, <3>4, <3>7, <3>8, <3>9, <3>10, <3>11, SamePaths DEF PathMap!RenameBelowFile
    <3> QED
      BY <1>5, <3>1, <3>3, <3>7, <3>12
  <2>5. CASE set.result = "error"
    <3>1. r = PutBack(h, tree, from, c)
      BY <1>3, <1>7, <2>2, <2>5
    <3> HIDE DEF r
    <3>2. r.result = "error" /\ \A k \in InUse(heap) : r.h.kids[k] = heap.kids[k] /\ r.h.node[k] = heap.node[k]
      BY <1>2, <2>3, <3>1, InvIs, PutBackIs
    <3>3. DepthInv' /\ UNCHANGED PathMap!mapVars
      BY <1>1, <3>2, SameMap
    <3> QED
      BY <1>5, <3>2, <3>3
  <2>6. CASE set.result = "ok"
    <3> DEFINE g == set.h
               T1 == Tree(h, tree)
               G == Tree(g, tree)
    <3>1. r = set
      BY <1>3, <1>7, <2>6
    <3>2. to \in Paths
      <4>1. to \notin Paths => set = [h |-> h, result |-> "error"]
        BY SetCases
      <4> QED
        BY <2>6, <4>1
    <3>3. RemovedAt(h, heap, tree, from, c)
      BY <1>2, <2>3, InvIs, RemoveIsAt
    <3> HIDE DEF m, h, c, set, r
    <3>4. /\ from \in DOMAIN T
          /\ T1 = PathMap!Prune(T, from) /\ WithinDepth(h, tree)
          /\ Tree(h, c) = PathMap!At(T, from) /\ WithinDepth(h, c)
      BY <1>7, <2>3, <3>3, InvIs, RemovedAtPrune DEF DepthInv
    <3>5. Tree(h, c) = Tree(heap, n) /\ WithinDepth(heap, n)
      BY <1>4, <2>3, <3>4, AtIs DEF DepthInv
    <3> HIDE DEF n
    <3>6. Reach(h, c) = Reach(heap, n)
      <4>1. DOMAIN Tree(h, c) = Reach(h, c) /\ DOMAIN Tree(heap, n) = Reach(heap, n)
        BY DEF Tree
      <4> QED
        BY <3>5, <4>1
    <3>7. \A q \in Reach(h, c) : Len(to) + Len(q) <= Depth
      BY <1>1, <2>3, <3>5, <3>6, WalkPathsAre
    <3>8. /\ SetAt(g, h, tree, to, c)
          /\ PathMap!CanHold(T1, to)
          /\ G = PathMap!Graft(T1, to, Tree(h, c))
          /\ WithinDepth(g, tree)
          /\ \A s \in InUse(h) : Stays(h, g, tree, s)
      BY <2>1, <2>6, <3>2, <3>4, <3>7, SetIsAt DEF set
    <3>9. ASSUME sub # None
          PROVE  /\ WithinDepth(g, sub)
                 /\ \/ Tree(g, sub) = Tree(heap, sub)
                    \/ \E u \in Reach(heap, tree) :
                         /\ Tree(heap, sub) = PathMap!At(T, u)
                         /\ \/ Tree(g, sub) \in {PathMap!At(T1, u), PathMap!At(G, u)}
                            \/ \E v \in SeqNames : u = Cat(from, v) /\ Tree(g, sub) = PathMap!At(G, Cat(to, v))
      <4>1. sub \in InUse(heap) /\ sub \in InUse(h) /\ Stays(h, g, tree, sub)
        BY <2>1, <3>8, <3>9, InvIs
      <4>2. to = <<>> => Down(heap, tree, from) # sub
        BY <1>1, <2>3 DEF n
      <4>3. Down(heap, tree, from) # None
        BY <2>3 DEF n
      <4> QED
        BY <2>1, <3>2, <3>3, <3>4, <3>8, <3>9, <4>1, <4>2, <4>3, InvIs, RenameStays DEF DepthInv
    <3>10. DepthInv' /\ Value(tree)' = G /\ Value(sub)' = Val(g, sub)
      BY <1>1, <2>6, <3>1, <3>8, <3>9, ReturnsMap
    <3>11. Value(tree) = T /\ DOMAIN T = Reach(heap, tree) /\ (sub # None => Value(sub) = Tree(heap, sub))
           /\ Value(sub) = Val(heap, sub)
      BY ValuesNow
    <3> DEFINE Moved(u) ==
                 IF PathMap!S!IsPrefix(from, u) THEN to \o SubSeq(u, Len(from) + 1, Len(u)) ELSE u
    <3> HIDE DEF T, T1, G, g
    <3>12. ASSUME NEW v \in SeqNames PROVE Moved(Cat(from, v)) = Cat(to, v)
      <4>1. PathMap!S!IsPrefix(from, Cat(from, v))
        BY <1>4, SeqCat, StartsMore, PrefixIs
      <4>2. SubSeq(Cat(from, v), Len(from) + 1, Len(Cat(from, v))) = v
        BY <1>4, CutOfCat
      <4> QED
        BY <4>1, <4>2, Zenon DEF Cat
    <3> HIDE DEF Moved
    <3>13. \/ Value(sub)' = Value(sub)
           \/ \E u \in DOMAIN Value(tree) :
                /\ Value(sub) = PathMap!At(Value(tree), u)
                /\ Value(sub)' \in {PathMap!At(T1, u), PathMap!At(Value(tree)', u), PathMap!At(Value(tree)', Moved(u))}
      <4>1. CASE sub = None
        BY <3>10, <3>11, <4>1 DEF Val
      <4>2. CASE sub # None
        <5>1. Value(sub)' = Tree(g, sub) /\ Value(sub) = Tree(heap, sub)
          BY <3>10, <3>11, <4>2 DEF Val
        <5>2. CASE Tree(g, sub) = Tree(heap, sub)
          BY <5>1, <5>2
        <5>3. ASSUME NEW u \in Reach(heap, tree), Tree(heap, sub) = PathMap!At(T, u),
                     Tree(g, sub) \in {PathMap!At(T1, u), PathMap!At(G, u)}
              PROVE  /\ Value(sub) = PathMap!At(Value(tree), u)
                     /\ Value(sub)' \in {PathMap!At(T1, u), PathMap!At(Value(tree)', u)}
          BY <5>1, <5>3, <3>10, <3>11
        <5>4. ASSUME NEW u \in Reach(heap, tree), Tree(heap, sub) = PathMap!At(T, u),
                     NEW v \in SeqNames, u = Cat(from, v), Tree(g, sub) = PathMap!At(G, Cat(to, v))
              PROVE  /\ Value(sub) = PathMap!At(Value(tree), u)
                     /\ Value(sub)' = PathMap!At(Value(tree)', Moved(u))
          BY <5>1, <5>4, <3>10, <3>11, <3>12
        <5> QED
          BY <4>2, <3>9, <3>11, <5>2, <5>3, <5>4
      <4> QED
        BY <4>1, <4>2
    <3>14. /\ from \in DOMAIN Value(tree)
           /\ PathMap!CanHold(PathMap!Prune(Value(tree), from), to)
           /\ Value(tree)' = PathMap!Graft(PathMap!Prune(Value(tree), from), to, PathMap!At(Value(tree), from))
           /\ T1 = PathMap!Prune(Value(tree), from)
      BY <3>4, <3>8, <3>10, <3>11 DEF T1
    <3>15. PathMap!Rename(from, to)
      BY <3>13, <3>14, Zenon DEF PathMap!Rename, Moved
    <3> QED
      BY <1>5, <2>6, <3>1, <3>2, <3>10, <3>15
  <2> QED
    BY <2>2, <2>4, <2>5, <2>6
<1> QED
  BY <1>6, <1>7

LEMMA InitMap ==
  ASSUME Init
  PROVE  DepthInv /\ PathMap!Init
<1>1. TreeInv /\ tree = 1 /\ sub = None /\ 1 \in Nodes
  BY InitTree, TreeAssumption DEF Init, Nodes
<1>2. heap.kids[1] = NoKids /\ heap.node[1] = Dir
  BY <1>1 DEF Init
<1>3. Reach(heap, 1) = {<<>>} /\ Tree(heap, 1) = [q \in {<<>>} |-> heap.node[1]]
  BY <1>1, <1>2, InvIs, LeafIs
<1>4. <<>> \in Paths
  BY TreeAssumption DEF Paths
<1>5. DepthInv
  BY <1>1, <1>3, <1>4 DEF DepthInv, WithinDepth
<1>6. Value(tree) = [q \in {<<>>} |-> Dir]
  <2>1. Value(tree) = Tree(heap, 1)
    BY <1>1, <1>5, ValuesNow
  <2>2. Tree(heap, 1) = [q \in {<<>>} |-> Dir]
    BY <1>2, <1>3, Zenon
  <2> QED
    BY <2>1, <2>2
<1>7. Value(sub) = None
  BY <1>1, Zenon DEF Value
<1> QED
  BY <1>5, <1>6, <1>7, Zenon DEF PathMap!Init, PathMap!NewDir

LEMMA NextMap ==
  ASSUME TreeInv, DepthInv, TreeInv', [Next]_vars
  PROVE  DepthInv' /\ [PathMap!Next]_(PathMap!mapVars)
<1> DEFINE Step == PathMap!Next \/ UNCHANGED PathMap!mapVars
<1>1. ASSUME NEW p \in Paths, NEW v \in Files \cup {Dir}, SetNew(p, v) PROVE DepthInv' /\ Step
  BY <1>1, SetNewMap, SamePaths DEF PathMap!Next
<1>2. ASSUME NEW p \in Paths, SetSub(p) PROVE DepthInv' /\ Step
  BY <1>2, SetSubMap, SamePaths DEF PathMap!Next
<1>3. ASSUME NEW p \in Paths, SetInSub(p) PROVE DepthInv' /\ Step
  BY <1>3, SetInSubMap, SamePaths DEF PathMap!Next
<1>4. ASSUME NEW p \in Paths, Mkdir(p) PROVE DepthInv' /\ Step
  BY <1>4, MkdirCallMap, SamePaths DEF PathMap!Next
<1>5. ASSUME NEW p \in Paths, Get(p) PROVE DepthInv' /\ Step
  BY <1>5, GetMap, SamePaths DEF PathMap!Next
<1>6. ASSUME NEW p \in Paths, RemovePath(p) PROVE DepthInv' /\ Step
  BY <1>6, RemovePathMap, SamePaths DEF PathMap!Next
<1>7. ASSUME NEW p \in Paths, NEW q \in Paths \cup {InvalidPath}, RenamePath(p, q)
      PROVE  DepthInv' /\ Step
  BY <1>7, RenamePathMap, SamePaths DEF PathMap!Next
<1>8. ASSUME CopyTree PROVE DepthInv' /\ Step
  BY <1>8, CopyTreeMap DEF PathMap!Next
<1>9. ASSUME PruneTree PROVE DepthInv' /\ Step
  BY <1>9, PruneTreeMap DEF PathMap!Next
<1>10. ASSUME Drop PROVE DepthInv' /\ Step
  BY <1>10, DropMap DEF PathMap!Next
<1>11. ASSUME Ended \/ UNCHANGED vars PROVE DepthInv' /\ Step
  <2>1. heap' = heap /\ tree' = tree /\ sub' = sub
    BY <1>11 DEF Ended, vars
  <2>2. Value(tree)' = Value(tree) /\ Value(sub)' = Value(sub)
    BY <2>1, Zenon DEF Value
  <2> QED
    BY <2>1, <2>2 DEF DepthInv, PathMap!mapVars
<1> HIDE DEF Step
<1>12. DepthInv' /\ Step
  BY <1>1, <1>2, <1>3, <1>4, <1>5, <1>6, <1>7, <1>8, <1>9, <1>10, <1>11 DEF Next
<1> QED
  BY <1>12 DEF Step

\* The nodes and pointers of pathtree.go are the map from paths that its comments promise:
\* every call of Set, MkdirAll, Get, Remove, Rename, Copy, RemoveEmptyDirs changes what its
\* paths name and nothing else, or nothing at all, in the tree and in a node that the caller
\* has got from it.  Rename to a path below a file is the exception (RenameBelowFile): it
\* panics after the node was removed, and the node stays out of the tree.
THEOREM NodesImplementPathMap ==
  Spec => ImplementsPathMap
<1>1. TreeInv /\ DepthInv /\ TreeInv' /\ [Next]_vars =>
        DepthInv' /\ [PathMap!Next]_(PathMap!mapVars)
  BY NextMap
<1>2. Init => DepthInv /\ PathMap!Init
  BY InitMap
<1> QED
  BY <1>1, <1>2, TreeInvariant, PTL DEF Spec, ImplementsPathMap, PathMap!Spec

-----------------------------------------------------------------------------
(* The panic of Rename *)

LEMMA SetResult ==
  ASSUME NEW h, NEW n, NEW p, NEW c
  PROVE  Set(h, n, p, c).result \in {"ok", "error", "panic"}
BY Zenon DEF Set

\* "error here is a bug: the node we just removed wasn't re-added" (pathtree.go:211-216):
\* the panic is never reached. A node that Rename has removed and cannot set at its new path
\* can always be set again where it was.
THEOREM RemovedIsPutBack ==
  Spec => [](result # "bug")
<1> DEFINE Fine == result # "bug"
<1>1. Init => Fine
  BY DEF Init
<1>2. ASSUME TreeInv, DepthInv, TreeInv', Fine, [Next]_vars PROVE Fine'
  <2>1. ASSUME NEW r, NEW t, NEW s, Returns(r, t, s), r.result # "bug" PROVE Fine'
    BY <2>1 DEF Returns
  <2>2. ASSUME NEW p \in Paths, NEW v \in Files \cup {Dir}, SetNew(p, v) PROVE Fine'
    <3> DEFINE r == Set(New(heap, v), tree, p, NewNode(heap))
    <3>1. r.result # "bug"
      BY SetResult
    <3> QED
      BY <2>1, <2>2, <3>1 DEF SetNew
  <2>3. ASSUME NEW p \in Paths, SetSub(p) PROVE Fine'
    <3> DEFINE r == Set(heap, tree, p, sub)
    <3>1. r.result # "bug"
      BY SetResult
    <3> QED
      BY <2>1, <2>3, <3>1 DEF SetSub
  <2>4. ASSUME NEW p \in Paths, SetInSub(p) PROVE Fine'
    <3> DEFINE r == Set(heap, sub, p, tree)
    <3>1. r.result # "bug"
      BY SetResult
    <3> QED
      BY <2>1, <2>4, <3>1 DEF SetInSub
  <2>5. ASSUME NEW p \in Paths, NEW q \in Paths \cup {InvalidPath}, RenamePath(p, q) PROVE Fine'
    BY <1>2, <2>5, RenamePathMap
  <2>6. CASE \E p \in Paths : Mkdir(p) \/ Get(p) \/ RemovePath(p)
    BY <2>6 DEF Mkdir, Get, RemovePath, Returns
  <2>7. CASE CopyTree \/ PruneTree \/ Drop \/ Ended \/ UNCHANGED vars
    BY <1>2, <2>7 DEF CopyTree, PruneTree, Drop, Ended, vars, Returns
  <2> HIDE DEF Fine
  <2> QED
    BY <1>2, <2>2, <2>3, <2>4, <2>5, <2>6, <2>7 DEF Next
<1>3. TreeInv /\ DepthInv /\ TreeInv' /\ [Next]_vars => DepthInv'
  BY NextMap
<1>4. Init => DepthInv
  BY InitMap
<1> QED
  BY <1>1, <1>2, <1>3, <1>4, TreeInvariant, PTL DEF Spec
=============================================================================
