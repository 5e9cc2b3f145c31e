------------------------------ MODULE MCAsync ------------------------------
(* A small instance of Async: an IndexAll, which does not wait for its task, *)
(* and two IndexIDs, which do.                                               *)
EXTENDS Async

CONSTANTS a1, i1, i2

MCWaiters == {i1, i2}
MCCalls == {a1} \cup MCWaiters
=============================================================================
