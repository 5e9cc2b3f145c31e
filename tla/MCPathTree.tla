----------------------------- MODULE MCPathTree -----------------------------
EXTENDS VersionTree

CONSTANT Listing   \* another file

MCChars == {<<"a">>, <<"b">>, Newline}
MCNameText == << << <<"a">> >>, << <<"b">> >> >>

\* The zero value is an empty file; the other file holds the listing of a directory with
\* an empty file in it.
MCContent == Zero :> <<>> @@ Listing :> Line(<<>>, 1, FALSE)

\* Which numbers the pointers have makes no difference.
View == <<Value(tree), Value(sub), {p \in WalkPaths(heap, tree) : Down(heap, tree, p) = sub}, result>>
=============================================================================
