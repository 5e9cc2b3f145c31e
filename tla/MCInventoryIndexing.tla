------------------------ MODULE MCInventoryIndexing ------------------------
(* Small instances of InventoryIndexing.  TLC's symmetry is not used, for    *)
(* liveness; one initial state stands for those that differ from it in the   *)
(* names of the inventories only.                                            *)
EXTENDS InventoryIndexing

CONSTANTS d1, d2

\* d1 is the first inventory that is in the storage root or in the index.
MCInit ==
  /\ IdxInit
  /\ LET first == <<disk[1], disk[2], db[1], db[2]>>
     IN  \A i \in 1..4 : first[i] = d2 => \E j \in 1..(i - 1) : first[j] = d1

MCSpec == MCInit /\ [][IdxNext]_idxVars /\ IdxFairness
=============================================================================
