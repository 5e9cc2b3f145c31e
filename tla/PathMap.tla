------------------------------- MODULE PathMap -------------------------------
(***************************************************************************)
(* What a path tree promises (the comments of                              *)
(* internal/pathtree/pathtree.go): it is a map from paths to files and     *)
(* directories, in which all that is above a path is a directory, and an   *)
(* operation changes what its paths name and nothing else, or nothing at   *)
(* all; a Rename that panics is the exception.  A path is the sequence of  *)
(* its names, and <<>> is ".".                                             *)
(***************************************************************************)
EXTENDS Naturals, Sequences

S == INSTANCE SequencesExt

CONSTANTS
  Names,  \* path elements, numbered in their order
  Depth,  \* bound: names in a path
  Files,  \* values of files
  Zero,   \* the zero value among them
  Dir,    \* marks a directory
  None    \* no node

Paths == UNION {[1..n -> Names] : n \in 0..Depth}

VARIABLES
  tree,   \* the tree that is worked on: a function from its paths
  sub     \* another one that the caller has, or None; it may be a part of the
          \* tree, and change with it

mapVars == <<tree, sub>>

NewFile(v) == [p \in {<<>>} |-> v]
NewDir == [p \in {<<>>} |-> Dir]

\* The paths above p, "." first.
Above(p) == {SubSeq(p, 1, n) : n \in 0..(Len(p) - 1)}

At(t, p) == [q \in {r \in Paths : p \o r \in DOMAIN t} |-> t[p \o q]]

CanHold(t, p) == \A q \in Above(p) : q \in DOMAIN t => t[q] = Dir

Without(t, p) == [q \in {r \in DOMAIN t : ~S!IsPrefix(p, r)} |-> t[q]]

\* "removes the node for path p"; what is left of a removed root is empty.
Prune(t, p) ==
  IF p # <<>> THEN Without(t, p) ELSE IF t[p] = Dir THEN NewDir ELSE NewFile(Zero)

\* s at path p, "creating any directory nodes if necessary"
Graft(t, p, s) ==
  LET rest == Without(t, p)
  IN  [q \in {p \o r : r \in DOMAIN s} \cup DOMAIN rest \cup Above(p) |->
         CASE S!IsPrefix(p, q) -> s[SubSeq(q, Len(p) + 1, Len(q))]
           [] q \in DOMAIN rest -> rest[q]
           [] OTHER -> Dir]

\* "any directories that do not have file nodes as descendants"
WithoutEmptyDirs(t) ==
  [p \in {q \in DOMAIN t : q = <<>> \/ \E r \in DOMAIN t : S!IsPrefix(q, r) /\ t[r] # Dir}
     |-> t[p]]

Fits(p, s) == \A q \in DOMAIN s : Len(p) + Len(q) <= Depth

-----------------------------------------------------------------------------
\* The other tree stays as it is, or is the part of the tree at r, and changes with it.
Follows(r) ==
  \/ sub' = sub
  \/ r \in DOMAIN tree \cap DOMAIN tree' /\ sub = At(tree, r) /\ sub' = At(tree', r)

SetChild(p, child) == CanHold(tree, p) /\ Fits(p, child) /\ tree' = Graft(tree, p, child)

Set(p) ==
  \/ /\ \E child \in {NewFile(v) : v \in Files} \cup {NewDir} : SetChild(p, child)
     /\ \E r \in Paths : Follows(r)
  \/ sub # None /\ sub' = None /\ SetChild(p, sub)

MkdirAll(p) ==
  /\ p \notin DOMAIN tree
  /\ CanHold(tree, p)
  /\ tree' = Graft(tree, p, NewDir)
  /\ \E r \in Paths : Follows(r)

Get(p) == p \in DOMAIN tree /\ sub' = At(tree, p) /\ UNCHANGED tree

Remove(p) == p \in DOMAIN tree /\ sub' = At(tree, p) /\ tree' = Prune(tree, p)

\* What was below p is below q, and what was at q is no part of the tree any more.
Rename(p, q) ==
  LET rest == Prune(tree, p)
      Moved(r) == IF S!IsPrefix(p, r) THEN q \o SubSeq(r, Len(p) + 1, Len(r)) ELSE r
  IN  /\ p \in DOMAIN tree
      /\ CanHold(rest, q)
      /\ tree' = Graft(rest, q, At(tree, p))
      /\ \/ sub' = sub
         \/ \E r \in DOMAIN tree : /\ sub = At(tree, r)
                                   /\ sub' \in {At(rest, r), At(tree', r), At(tree', Moved(r))}

\* The directory of q is a file: Rename panics, and has taken out what was at p.
RenameBelowFile(p, q) ==
  LET rest == Prune(tree, p)
  IN  /\ p \in DOMAIN tree
      /\ Len(q) > 1
      /\ S!Front(q) \in DOMAIN rest /\ rest[S!Front(q)] # Dir
      /\ tree' = rest
      /\ \E r \in Paths : Follows(r)

Copy == sub' = tree /\ UNCHANGED tree

RemoveEmptyDirs ==
  /\ tree' = WithoutEmptyDirs(tree)
  /\ \/ sub' = sub
     \/ sub # None /\ sub' = WithoutEmptyDirs(sub)

\* The other tree takes this one, and takes its place.
SetInSub(p) ==
  /\ sub # None
  /\ CanHold(sub, p)
  /\ tree' = Graft(sub, p, tree)
  /\ sub' = None

Drop == sub' = None /\ UNCHANGED tree

Init == tree = NewDir /\ sub = None

Next ==
  \/ \E p \in Paths : Set(p) \/ MkdirAll(p) \/ Get(p) \/ Remove(p) \/ SetInSub(p)
  \/ \E p, q \in Paths : Rename(p, q) \/ RenameBelowFile(p, q)
  \/ Copy
  \/ RemoveEmptyDirs
  \/ Drop

Spec == Init /\ [][Next]_mapVars
=============================================================================
