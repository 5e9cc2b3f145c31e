-------------------------- MODULE MCObjectRootSync --------------------------
(* Small instances of ObjectRootSync. *)
EXTENDS ObjectRootSync

\* A full scan is one full batch and a row more.
MCTxCap == Cardinality(Paths) - 1
=============================================================================
