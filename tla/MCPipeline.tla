----------------------------- MODULE MCPipeline -----------------------------
(* A small instance of Pipeline. *)
EXTENDS Pipeline

\* Two more jobs than the workers and resultQ can hold: setup blocks on workQ
\* while all the workers block on resultQ.
MCNumJobs == Cardinality(Workers) + Capacity + 2
=============================================================================
