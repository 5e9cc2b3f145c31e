------------------------------ MODULE MCPaging ------------------------------
(* A small instance of Paging.  Two rows fit in a page: four rows fill two *)
(* pages, with and without a row that is left over.                        *)
EXTENDS Paging

MCState == <<{1, 2, 4}, {1, 3, 4, 5}, {1, 2, 3, 4, 5}>>
\* Without limit; one that makes the slice panic; the default; one, two (all that
\* fit), and more.
MCPageSizes == {-2, -1, 0, 1, MaxLimit, MaxLimit + 1}
=============================================================================
