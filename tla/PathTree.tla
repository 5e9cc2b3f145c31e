------------------------------- MODULE PathTree -------------------------------
(***************************************************************************)
(* Package pathtree (internal/pathtree/pathtree.go): trees of nodes that   *)
(* hold each other by pointers.  A caller has a tree and at most one other *)
(* node: one that it has got from the tree, and which may still be in it,  *)
(* or one that was removed or copied.  Pointers are numbers, the values of *)
(* directories are left out, and nodes that nobody has are given free.     *)
(*                                                                         *)
(* A caller gives a node away when it sets it, does not set a tree in      *)
(* itself, and does not put a tree in the place of a node of its own; nor  *)
(* does it rename to "." a node that it holds, for Set(".", child) makes   *)
(* the two share one map.                                                  *)
(***************************************************************************)
EXTENDS Naturals, Sequences, FiniteSets, TLC

S == INSTANCE SequencesExt

CONSTANTS
  Names,     \* path elements, numbered in their order
  Depth,     \* bound: names in a path
  Files,     \* values of files
  Zero,      \* the zero value among them
  Dir,       \* value of a node that has a map of children
  Free,      \* no node
  MaxNode,   \* bound: nodes at a time
  None       \* the nil pointer

Nodes == 1..MaxNode
Paths == UNION {[1..n -> Names] : n \in 0..Depth}

ASSUME TreeAssumption ==
  /\ Names \subseteq Nat \ {0}
  /\ Depth \in Nat /\ MaxNode \in Nat \ {0}
  /\ Zero \in Files
  /\ Dir \notin Files /\ Free \notin Files \cup {Dir}
  /\ None \notin Nodes
  /\ \A ps \in SUBSET Paths : None \notin [ps -> Files \cup {Dir}]

VARIABLES
  heap,      \* node: the value of each node; kids: its children by name
  tree, sub, \* the nodes that the caller has
  result     \* of the last call: "ok", "error", "panic", or "bug" for the panic
             \* of Rename

vars == <<heap, tree, sub, result>>

InvalidPath == <<0>>
ValidPath(p) == p \in Paths

NoKids == [x \in Names |-> None]

-----------------------------------------------------------------------------
(* Slips that the code avoids, each a variant of one definition below: they *)
(* take no part in the specification.                                       *)

\* The node is set without a look at what it holds.
RelatedNever(h, n, c) == FALSE

\* A removed node that cannot be set is forgotten.
PutBackNever(h, n, p, c) == [h |-> h, result |-> "error"]

-----------------------------------------------------------------------------
\* The nodes on the way, n first; None from the name that is not there.
Steps(h, n, p) ==
  LET at[i \in 0..Len(p)] ==
        IF i = 0 THEN n ELSE IF at[i - 1] = None THEN None ELSE h.kids[at[i - 1]][p[i]]
  IN  at

Down(h, n, p) == Steps(h, n, p)[Len(p)]

WalkPaths(h, n) == {p \in Paths : Down(h, n, p) # None}

Kids(h, ns) == {h.kids[m][x] : m \in ns, x \in Names} \ {None}

\* All nodes that Walk comes to.
Has(h, n) ==
  LET upTo[i \in 0..MaxNode] == IF i = 0 THEN {n} ELSE upTo[i - 1] \cup Kids(h, upTo[i - 1])
  IN  upTo[MaxNode]

IsParentOf(h, a, b) == \E x \in Names : h.kids[a][x] # None /\ b \in Has(h, h.kids[a][x])

IsDir(h, n) == h.node[n] = Dir

FreeNodes(h) == {n \in Nodes : h.node[n] = Free}
NewNode(h) == CHOOSE n \in FreeNodes(h) : \A m \in FreeNodes(h) : n <= m

Put(h, n, v, kids) == [node |-> [h.node EXCEPT ![n] = v], kids |-> [h.kids EXCEPT ![n] = kids]]
New(h, v) == Put(h, NewNode(h), v, NoKids)

Link(h, n, x, c) == [h EXCEPT !.kids[n][x] = c]

\* What the caller cannot reach any more is gone.
Live(h, t, s) == Has(h, t) \cup (IF s = None THEN {} ELSE Has(h, s))

Collected(h, live) ==
  [node |-> [n \in Nodes |-> IF n \in live THEN h.node[n] ELSE Free],
   kids |-> [n \in Nodes |-> IF n \in live THEN h.kids[n] ELSE NoKids]]

-----------------------------------------------------------------------------
(* Methods: what they leave of the heap, what they return *)

MkdirStep(st, x) ==
  IF ~st.ok \/ ~IsDir(st.h, st.n)
    THEN [st EXCEPT !.ok = FALSE]
    ELSE LET next == st.h.kids[st.n][x]
             new == NewNode(st.h)
         IN  IF next # None
               THEN [st EXCEPT !.n = next]
               ELSE [st EXCEPT !.h = Link(New(st.h, Dir), st.n, x, new), !.n = new]

\* The last node on the way may be a file.
MkdirAll(h, n, p) ==
  LET at[i \in 0..Len(p)] ==
        IF i = 0 THEN [h |-> h, n |-> n, ok |-> p # <<>> \/ IsDir(h, n)]
                 ELSE MkdirStep(at[i - 1], p[i])
  IN  at[Len(p)]

Related(h, n, c) == IsParentOf(h, n, c) \/ IsParentOf(h, c, n)

\* A write to the nil map of a file panics.
Set(h, n, p, c) ==
  LET mk == MkdirAll(h, n, S!Front(p))
  IN  CASE ~ValidPath(p) -> [h |-> h, result |-> "error"]
        [] p = <<>> -> [h |-> Put(h, n, h.node[c], h.kids[c]), result |-> "ok"]
        [] p # <<>> /\ ValidPath(p) ->
             CASE Related(h, n, c) -> [h |-> h, result |-> "error"]
               [] ~Related(h, n, c) /\ ~mk.ok -> [h |-> mk.h, result |-> "error"]
               [] ~Related(h, n, c) /\ mk.ok /\ ~IsDir(mk.h, mk.n) ->
                    [h |-> mk.h, result |-> "panic"]
               [] OTHER -> [h |-> Link(mk.h, mk.n, S!Last(p), c), result |-> "ok"]

Remove(h, n, p) ==
  LET parent == Down(h, n, S!Front(p))
      copy == NewNode(h)
  IN  CASE Down(h, n, p) = None -> [h |-> h, n |-> None]
        [] p = <<>> ->
             [h |-> Put(Put(h, copy, h.node[n], h.kids[n]),
                        n, IF IsDir(h, n) THEN Dir ELSE Zero, NoKids),
              n |-> copy]
        [] OTHER -> [h |-> Link(h, parent, S!Last(p), None), n |-> Down(h, n, p)]

PutBack(h, n, p, c) ==
  LET again == Set(h, n, p, c)
  IN  [h |-> again.h, result |-> IF again.result = "ok" THEN "error" ELSE "bug"]

Rename(h, n, from, to) ==
  LET removed == Remove(h, n, from)
      set == Set(removed.h, n, to, removed.n)
  IN  CASE removed.n = None -> [h |-> h, result |-> "error"]
        [] removed.n # None /\ set.result # "error" -> set
        [] OTHER -> PutBack(set.h, n, from, removed.n)

\* A new node for each that Walk comes to, with its value, and the copies of its children.
Copy(h, n) ==
  LET new == CHOOSE f \in S!Injection(Has(h, n), FreeNodes(h)) : TRUE
      copies == {new[m] : m \in Has(h, n)}
      Of(c) == CHOOSE m \in Has(h, n) : new[m] = c
      Kid(m, x) == IF h.kids[m][x] = None THEN None ELSE new[h.kids[m][x]]
  IN  [h |-> [node |-> [c \in Nodes |-> IF c \in copies THEN h.node[Of(c)] ELSE h.node[c]],
              kids |-> [c \in Nodes |-> IF c \in copies THEN [x \in Names |-> Kid(Of(c), x)]
                                                        ELSE h.kids[c]]],
       n |-> new[n]]

HasFile(h, n) == \E m \in Has(h, n) : ~IsDir(h, m)

RemoveEmptyDirs(h, n) ==
  [h EXCEPT !.kids = [m \in Nodes |->
     IF m \in Has(h, n)
       THEN [x \in Names |->
               IF @[m][x] # None /\ ~HasFile(h, @[m][x]) THEN None ELSE @[m][x]]
       ELSE @[m]]]

-----------------------------------------------------------------------------
(* Calls *)

Init ==
  /\ heap = [node |-> [n \in Nodes |-> IF n = 1 THEN Dir ELSE Free],
             kids |-> [n \in Nodes |-> NoKids]]
  /\ tree = 1
  /\ sub = None
  /\ result = "ok"

Calling == result \notin {"panic", "bug"}
Room(k) == Cardinality(FreeNodes(heap)) >= k
Fits(p, n) == \A q \in WalkPaths(heap, n) : Len(p) + Len(q) <= Depth

Returns(r, t, s) ==
  /\ result' = r.result
  /\ heap' = Collected(r.h, Live(r.h, t, s))
  /\ tree' = t
  /\ sub' = s

SetNew(p, v) ==
  /\ Calling /\ Room(Depth + 1)
  /\ Returns(Set(New(heap, v), tree, p, NewNode(heap)), tree, sub)

SetSub(p) ==
  /\ Calling /\ Room(Depth)
  /\ sub \notin {None, tree} /\ Fits(p, sub)
  /\ LET r == Set(heap, tree, p, sub)
     IN  Returns(r, tree, IF r.result = "ok" THEN None ELSE sub)

SetInSub(p) ==
  /\ Calling /\ Room(Depth)
  /\ sub \notin {None, tree} /\ p # <<>> /\ Fits(p, tree)
  /\ LET r == Set(heap, sub, p, tree)
     IN  IF r.result = "ok" THEN Returns(r, sub, None) ELSE Returns(r, tree, sub)

Mkdir(p) ==
  /\ Calling /\ Room(Depth)
  /\ LET mk == MkdirAll(heap, tree, p)
     IN  Returns([h |-> mk.h, result |-> IF mk.ok THEN "ok" ELSE "error"], tree, sub)

Get(p) ==
  /\ Calling
  /\ LET n == Down(heap, tree, p)
     IN  IF n = None THEN Returns([h |-> heap, result |-> "error"], tree, sub)
                     ELSE Returns([h |-> heap, result |-> "ok"], tree, n)

RemovePath(p) ==
  /\ Calling /\ Room(1)
  /\ LET r == Remove(heap, tree, p)
     IN  IF r.n = None THEN Returns([h |-> heap, result |-> "error"], tree, sub)
                       ELSE Returns([h |-> r.h, result |-> "ok"], tree, r.n)

RenamePath(from, to) ==
  /\ Calling /\ Room(Depth + 1)
  /\ LET n == Down(heap, tree, from)
     IN  n # None => Fits(to, n) /\ (to = <<>> => n # sub)
  /\ Returns(Rename(heap, tree, from, to), tree, sub)

CopyTree ==
  /\ Calling /\ Room(Cardinality(Has(heap, tree)))
  /\ LET r == Copy(heap, tree) IN Returns([h |-> r.h, result |-> "ok"], tree, r.n)

PruneTree ==
  /\ Calling
  /\ Returns([h |-> RemoveEmptyDirs(heap, tree), result |-> "ok"], tree, sub)

Drop == Calling /\ sub # None /\ Returns([h |-> heap, result |-> "ok"], tree, None)

\* "error here is a bug: the node we just removed wasn't re-added" (pathtree.go:211-216):
\* after that nothing could follow, which TLC would report as a deadlock.
Ended == result = "panic" /\ UNCHANGED vars

Next ==
  \/ \E p \in Paths, v \in Files \cup {Dir} : SetNew(p, v)
  \/ \E p \in Paths : \/ SetSub(p) \/ SetInSub(p) \/ Mkdir(p) \/ Get(p) \/ RemovePath(p)
  \/ \E p \in Paths, q \in Paths \cup {InvalidPath} : RenamePath(p, q)
  \/ CopyTree
  \/ PruneTree
  \/ Drop
  \/ Ended

Spec == Init /\ [][Next]_vars

-----------------------------------------------------------------------------
Value(n) ==
  IF n = None THEN None ELSE [p \in WalkPaths(heap, n) |-> heap.node[Down(heap, n, p)]]

\* A node has one place in one tree, whatever is set, moved and copied: no cycle, no
\* node that two directories share (the errors of Set, pathtree.go:115-128, and
\* "prevent cycle", pathtree_test.go:48).
TreeShape ==
  /\ \A n \in {tree, sub} \ {None} : \A p, q \in WalkPaths(heap, n) :
       Down(heap, n, p) = Down(heap, n, q) => p = q
  /\ sub # None => sub \in Has(heap, tree) \/ Has(heap, tree) \cap Has(heap, sub) = {}
  /\ \A n \in Nodes : ~IsDir(heap, n) => heap.kids[n] = NoKids

\* Each call does what it says to the paths that it names, and nothing else; one
\* that fails does nothing, except that a Rename to a path below a file panics in Set
\* (pathtree.go:135) when it has taken its node out of the tree.
PathMap == INSTANCE PathMap WITH tree <- Value(tree), sub <- Value(sub)
ImplementsPathMap == PathMap!Spec
=============================================================================
