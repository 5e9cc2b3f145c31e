----------------------------- MODULE MCIndexStore -----------------------------
(* Two object roots; object A with two inventories of which one extends the  *)
(* other and a third one with a first version that has lost its user; object  *)
(* B, whose root holds what a directory of A holds, and is one node with it.  *)
EXTENDS IndexStore, TLC

CONSTANTS p1, p2, f1, f2, r1, r2, sub

E(n, c) == [name |-> n, child |-> c]
MCEntries ==
  [d \in {r1, r2, sub} |->
     CASE d = r1  -> <<E("x", f1)>>
       [] d = r2  -> <<E("d", sub), E("x", f1)>>
       [] d = sub -> <<E("y", f2)>>]

\* A version as its inventory has it, and as one has it that was written again: the user
\* is lost, and created has changed below the second.
V(d) == [root |-> d, meta |-> "m", fraction |-> 5, user |-> "u"]
Rewritten(d) == [V(d) EXCEPT !.fraction = 0, !.user = NoUser]
MCVersions == {V(r1), V(r2), V(sub), Rewritten(r1)}

C(f, p) == [file |-> f, path |-> p]
\* The first inventory of A has a file that is in no version yet.
A1 == [id |-> "A", versions |-> <<V(r1)>>, manifest |-> {C(f1, "v1/x"), C(f2, "v1/z")}]
A2 == [id |-> "A", versions |-> <<V(r1), V(r2)>>,
       manifest |-> {C(f1, "v1/x"), C(f2, "v1/z"), C(f2, "v2/y")}]
Again1 == [A1 EXCEPT !.versions = <<Rewritten(r1)>>]
B1 == [id |-> "B", versions |-> <<V(sub)>>, manifest |-> {C(f2, "v1/z")}]
MCInventories == {A1, A2, Again1, B1}

Symmetry == Permutations(Paths)
=============================================================================
