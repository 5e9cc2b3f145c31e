----------------------------- MODULE VersionTree -----------------------------
(***************************************************************************)
(* Digests of the directories of a version's path tree (dirDigests,        *)
(* internal/index/pathtree.go), on every tree that the calls of PathTree   *)
(* make.  What is hashed is text: lines, one after the other.  A digest    *)
(* stands for the text, or the content, that was hashed: a file of the     *)
(* object may well hold the text that a directory's digest is made from,   *)
(* as an empty file and an empty directory do, and a name may hold a       *)
(* newline, and what looks like another line after it.                     *)
(***************************************************************************)
EXTENDS PathTree

CONSTANTS
  Content,   \* of each value of a file, what its digest is made from
  Chars,     \* what names are written with: characters, and digits of digests
  NameText   \* of each name, its text

Space == <<"space">>
Slash == <<"slash">>
Newline == <<"newline">>
Hex(sum) == <<"digits", sum>>

\* fs.ValidPath allows all but the slash, which separates names.
ASSUME NameAssumption ==
  /\ NameText \in [Names -> Seq(Chars)]
  /\ \A x, y \in Names : NameText[x] = NameText[y] => x = y
  /\ Slash \notin Chars

Child(n, x) == heap.kids[n][x]

ChildNames(n) == {x \in Names : Child(n, x) # None}

\* Names of n's children, sorted.
DirEntries(n) ==
  CHOOSE s \in S!Bijection(1..Cardinality(ChildNames(n)), ChildNames(n)) :
    \A i, j \in DOMAIN s : i < j => s[i] < s[j]

\* Both kinds of lines look the same (a slip that the code avoids).
LineWithoutSlash(sum, x, isDir) == <<Hex(sum), Space>> \o NameText[x] \o <<Newline>>

\* A line of a listing: the child's digest, and its name with a slash if it is a
\* directory.
Line(sum, x, isDir) ==
  <<Hex(sum), Space>> \o NameText[x] \o (IF isDir THEN <<Slash>> ELSE <<>>) \o <<Newline>>

\* What dirDigests leaves in Val.Sum of each node below n, and in n.
Sum[n \in Nodes] ==
  IF IsDir(heap, n)
    THEN S!FlattenSeq([i \in DOMAIN DirEntries(n) |->
           LET x == DirEntries(n)[i]
           IN  Line(Sum[Child(n, x)], x, IsDir(heap, Child(n, x)))])
    ELSE Content[heap.node[n]]

-----------------------------------------------------------------------------
\* What a reader can tell of a node without its children.
SameEntry(m, n) ==
  /\ IsDir(heap, m) = IsDir(heap, n)
  /\ ~IsDir(heap, m) => Content[heap.node[m]] = Content[heap.node[n]]

\* No name below n has a newline in it.
PlainNames(n) ==
  \A m \in Has(heap, n) : \A x \in ChildNames(m) : Newline \notin S!ToSet(NameText[x])

\* Two nodes with the same digest, of the same kind, hold the same: the index keeps one
\* row for both (UNIQUE(sum, dir), schema.sql) and with it one list of children.  The
\* digest alone does not do (pathtree.go:60-74).  Names with a newline are the exception:
\* the lines of two names may then be the line of one.
DigestsIdentify ==
  \A m, n \in {k \in Live(heap, tree, sub) : PlainNames(k)} :
    Sum[m] = Sum[n] /\ IsDir(heap, m) = IsDir(heap, n) =>
      /\ WalkPaths(heap, m) = WalkPaths(heap, n)
      /\ \A p \in WalkPaths(heap, m) : SameEntry(Down(heap, m, p), Down(heap, n, p))
=============================================================================
