----------------------------- MODULE MCIndexFile -----------------------------
(* A server, and another process of the same or of another version. *)
EXTENDS IndexFile, TLC

CONSTANTS server, other

\* A full scan is one full batch and a row more.
MCTxCap == Cardinality(Paths) - 1

MCSchemaVersions == {server :> 1 @@ other :> v : v \in {1, 2}}
=============================================================================
