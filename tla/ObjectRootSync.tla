--------------------------- MODULE ObjectRootSync ---------------------------
(***************************************************************************)
(* The first phase of IndexAll: syncObjectRoots and syncObjecRootsTX       *)
(* (internal/index/indexer.go:56-119).  A scan of the storage root stamps  *)
(* a row for every object root it finds, in transactions of TxCap rows;    *)
(* rows that are older than the start of the scan are removed afterwards.  *)
(* Object roots come and go while the scan runs, any call may fail, and    *)
(* the process may die.                                                    *)
(*                                                                         *)
(* Stamps matter only by how they compare to startSync, so times are       *)
(* renumbered when a sync starts: rows it finds are Old, startSync is one  *)
(* later, and reading the clock may or may not move it on.  Assumed: the   *)
(* wall clock does not step back, and moves between two syncs.             *)
(***************************************************************************)
EXTENDS Naturals, FiniteSets

CONSTANTS
  Paths,       \* object root paths that may exist in the storage root
  TxCap,       \* txCapObjRoot, rows per transaction
  MaxTime,     \* bound: the last reading of the clock
  MaxFaults    \* bound: how many calls fail, crashes included

ASSUME SyncAssumption ==
  /\ IsFiniteSet(Paths)
  /\ TxCap \in Nat \ {0}
  /\ MaxTime \in Nat
  /\ MaxTime > 1
  /\ MaxFaults \in Nat

NoRow == 0
Old == 1
startSync == 2
Stamps == 0..MaxTime

VARIABLES
  store,       \* the object roots in the storage root
  db,          \* committed rows: path -> indexed_at, or NoRow
  pc,          \* "idle", "scan", "remove"
  unvisited,   \* paths the scan has not come to
  found,       \* rows written by this scan
  tx,          \* the transaction of the scan: "none", "first" or "later"
  work,        \* what the transaction sees: db and its own writes
  dirty,       \* it has written
  leaked,      \* a transaction that has written was never closed
  clock,
  result,      \* of the last sync: "none", "ok", "failed"
  faults,
  kept, gone   \* paths that were there, or were not, since the sync began (history)

envVars == <<store, kept, gone>>
txVars == <<tx, work, dirty>>
scanVars == <<unvisited, found>>
vars == <<envVars, db, pc, scanVars, txVars, leaked, clock, result, faults>>

Rows == {p \in Paths : db[p] # NoRow}
NoRows == [p \in Paths |-> NoRow]

Init ==
  /\ store \in SUBSET Paths
  /\ db = NoRows
  /\ pc = "idle"
  /\ unvisited = {}
  /\ found = 0
  /\ tx = "none"
  /\ work = NoRows
  /\ dirty = FALSE
  /\ leaked = FALSE
  /\ clock = startSync
  /\ result = "none"
  /\ faults = 0
  /\ kept = {}
  /\ gone = {}

\* Some call returns an error, or the process dies.
Fault == faults < MaxFaults /\ faults' = faults + 1
NoFault == UNCHANGED faults

\* time.Now()
ReadClock == clock' \in {clock, clock + 1} /\ clock' <= MaxTime

\* Close the transaction of the scan without effect.
NoTx == tx' = "none" /\ work' = NoRows /\ dirty' = FALSE

-----------------------------------------------------------------------------
(* Slips that the code avoids, each a variant of one definition below: they *)
(* take no part in the specification.                                       *)

\* Rows stamped at the start of the scan count as old.
ExpiredOrEqual(stamp) == stamp # NoRow /\ stamp <= startSync

\* The start of the sync is compared in a time zone of its own, to its west.
ExpiredInLocalTime(stamp) == stamp # NoRow /\ stamp + 1 < startSync

\* The old rows are removed although the scan failed.
AfterFailedScanRemove == "remove"

-----------------------------------------------------------------------------
(* The storage root: other programs add and remove objects at any time *)

Appear(p) ==
  /\ p \notin store
  /\ store' = store \cup {p}
  /\ gone' = gone \ {p}
  /\ UNCHANGED <<kept, db, pc, scanVars, txVars, leaked, clock, result, faults>>

Vanish(p) ==
  /\ p \in store
  /\ store' = store \ {p}
  /\ kept' = kept \ {p}
  /\ UNCHANGED <<gone, db, pc, scanVars, txVars, leaked, clock, result, faults>>

-----------------------------------------------------------------------------
(* syncObjecRootsTX *)

\* startSync is read and the first transaction begins, or cannot.
BeginSync ==
  /\ pc = "idle"
  /\ clock' = startSync
  /\ db' = [p \in Paths |-> IF db[p] = NoRow THEN NoRow ELSE Old]
  /\ kept' = store
  /\ gone' = Paths \ store
  /\ found' = 0
  /\ \/ /\ NoFault
        /\ pc' = "scan"
        /\ unvisited' = Paths
        /\ tx' = "first" /\ work' = db' /\ dirty' = FALSE
        /\ result' = "none"
     \/ /\ Fault
        /\ result' = "failed"
        /\ UNCHANGED <<pc, unvisited, txVars>>
  /\ UNCHANGED <<store, leaked>>

\* The scan comes to a path with no object root.
Pass(p) ==
  /\ pc = "scan"
  /\ p \in unvisited \ store
  /\ unvisited' = unvisited \ {p}
  /\ UNCHANGED <<envVars, db, pc, found, txVars, leaked, clock, result, faults>>

\* With the row about to be written.
BatchFull == (found + 1) % TxCap = 0

\* Commit and start a new transaction.
NextBatch(written) ==
  /\ db' = written
  /\ tx' = "later"
  /\ work' = written
  /\ dirty' = FALSE

\* eachObj: the row of an object root is stamped; with every TxCap rows the
\* transaction is committed and another one begins.
Index(p) ==
  /\ pc = "scan"
  /\ p \in unvisited \cap store
  /\ ~leaked
  /\ ReadClock
  /\ unvisited' = unvisited \ {p}
  /\ found' = found + 1
  /\ LET written == [work EXCEPT ![p] = clock']
     IN  IF BatchFull
           THEN NextBatch(written)
           ELSE work' = written /\ dirty' = TRUE /\ UNCHANGED <<tx, db>>
  /\ UNCHANGED <<envVars, pc, leaked, result, faults>>

AfterFailedScan == "idle"

\* The deferred tx.Rollback(): the receiver is evaluated at the defer statement
\* and is the first transaction.  A later one stays open, with its write lock.
RollbackFirst ==
  /\ leaked' = (leaked \/ (tx = "later" /\ dirty))
  /\ NoTx

\* The scan fails, or the write of a row: always, when a leaked transaction
\* has the write lock.  NewTx failing after a batch is a failure of the scan
\* with nothing written since.
ScanFails ==
  /\ pc = "scan"
  /\ \/ Fault
     \/ leaked /\ unvisited \cap store # {} /\ NoFault
  /\ RollbackFirst
  /\ pc' = AfterFailedScan
  /\ result' = "failed"
  /\ UNCHANGED <<envVars, db, scanVars, clock>>

\* Commit fails after TxCap rows or at the end, which closes the transaction.
CommitFails ==
  /\ pc = "scan"
  /\ unvisited = {} \/ BatchFull
  /\ Fault
  /\ NoTx
  /\ pc' = "idle"
  /\ result' = "failed"
  /\ UNCHANGED <<envVars, db, scanVars, leaked, clock>>

\* The scan is complete: the last commit.
EndScan ==
  /\ pc = "scan"
  /\ unvisited = {}
  /\ db' = work
  /\ NoTx
  /\ pc' = "remove"
  /\ UNCHANGED <<envVars, scanVars, leaked, clock, result, faults>>

-----------------------------------------------------------------------------
(* syncObjectRoots after the scan *)

\* DELETE ... WHERE indexed_at < ?1
Expired(stamp) == stamp # NoRow /\ stamp < startSync

\* A transaction of its own removes the rows the scan has not stamped.
RemoveObjectsBefore ==
  /\ pc = "remove"
  /\ ~leaked
  /\ db' = [p \in Paths |-> IF Expired(db[p]) THEN NoRow ELSE db[p]]
  /\ pc' = "idle"
  /\ result' = "ok"
  /\ UNCHANGED <<envVars, scanVars, txVars, leaked, clock, faults>>

\* It cannot begin, write or commit; its rollback is deferred.
RemoveFails ==
  /\ pc = "remove"
  /\ Fault \/ (leaked /\ NoFault)
  /\ pc' = "idle"
  /\ result' = "failed"
  /\ UNCHANGED <<envVars, db, scanVars, txVars, leaked, clock>>

\* The process dies and is started again: open transactions are undone.
Crash ==
  /\ Fault
  /\ NoTx
  /\ leaked' = FALSE
  /\ pc' = "idle"
  /\ result' = "none"
  /\ UNCHANGED <<envVars, db, scanVars, clock>>

-----------------------------------------------------------------------------
SyncStep ==
  \/ \E p \in Paths : Pass(p) \/ Index(p)
  \/ ScanFails
  \/ EndScan
  \/ RemoveObjectsBefore
  \/ RemoveFails

Next ==
  \/ \E p \in Paths : Appear(p) \/ Vanish(p)
  \/ BeginSync
  \/ SyncStep
  \/ CommitFails
  \/ Crash

Spec == Init /\ [][Next]_vars

\* A sync that was started goes on, and IndexAll is called again and again.
FairSpec == Spec /\ WF_vars(BeginSync) /\ WF_vars(SyncStep)

-----------------------------------------------------------------------------
TypeOK ==
  /\ store \subseteq Paths
  /\ db \in [Paths -> Stamps]
  /\ pc \in {"idle", "scan", "remove"}
  /\ unvisited \subseteq Paths
  /\ found \in Nat
  /\ tx \in {"none", "first", "later"}
  /\ work \in [Paths -> Stamps]
  /\ dirty \in BOOLEAN
  /\ leaked \in BOOLEAN
  /\ clock \in startSync..MaxTime
  /\ result \in {"none", "ok", "failed"}
  /\ faults \in 0..MaxFaults
  /\ kept \subseteq store
  /\ gone \subseteq Paths \ store
  /\ tx # "none" <=> pc = "scan"
  /\ tx = "none" => work = NoRows /\ ~dirty

\* A sync never takes an object root out of the index that was in the storage
\* root all the time since the sync began (indexer.go:53-78).
LiveRootKept == [][\A p \in kept : db[p] # NoRow => db'[p] # NoRow]_vars

\* After a sync without an error the index has the object roots that were there
\* all the time, and none of those that were not (indexer.go:53-78).
SyncedRows ==
  [][result' = "ok" /\ pc = "remove" =>
       \A p \in Paths : /\ p \in kept => db'[p] # NoRow
                        /\ p \in gone => db'[p] = NoRow]_vars

\* What makes the two properties above inductive: how the stamps in the index and
\* in the transaction compare to startSync while the sync goes on.
StampsOfSync ==
  /\ pc = "scan" =>
       /\ \A p \in Paths : db[p] # NoRow => work[p] # NoRow
       /\ \A p \in kept \ unvisited : work[p] >= startSync
       /\ \A p \in gone : work[p] < startSync
  /\ pc = "remove" =>
       /\ \A p \in kept : db[p] >= startSync
       /\ \A p \in gone : db[p] < startSync
  /\ pc # "idle" => result = "none"

IInv == TypeOK /\ StampsOfSync

\* An object root that is gone for good leaves the index, whatever fails at
\* first, unless a transaction that was not closed locks the database
\* (indexer.go:53-78).
StaleRemovedUnlessLocked ==
  \A p \in Paths : <>[](p \notin store) => <>[](db[p] = NoRow) \/ <>[]leaked

\* "Indexed objects not found during the storage root scan are removed from the
\* index" (index.proto:15-16): an object root that is gone for good leaves the
\* index, if IndexAll is repeated and no more than MaxFaults calls fail.
StaleRemoved ==
  \A p \in Paths : <>[](p \notin store) => <>[](db[p] = NoRow)
=============================================================================
