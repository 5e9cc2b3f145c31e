------------------------- MODULE InventoryIndexing -------------------------
(***************************************************************************)
(* The second phase of IndexAll, and all of IndexIDs: indexInventories     *)
(* (internal/index/indexer.go:121-288), one call of it.  It runs a         *)
(* pipeline.Run, so this module extends Pipeline: the goroutines, their    *)
(* queues and their steps are the ones of that module, jobs are object     *)
(* root paths in the order of the index, and the setup, work and result    *)
(* functions get their own state here.  All of them share one database     *)
(* transaction, which they pass around in txCh, a channel with one slot.   *)
(*                                                                         *)
(* An inventory is named by its digest.  Objects are written by others     *)
(* while the run goes on.  What an inventory row has besides the digest,   *)
(* and that ids and paths can disagree, is left out here.                  *)
(***************************************************************************)
EXTENDS Pipeline

CONSTANTS
  Modes,        \* which values indexingAll may have
  PageSize,     \* how many paths ListObjectRoots returns
  TxCaps,       \* which values txCapInv, inventories per transaction, may have
  Digests,      \* the valid inventories
  Bad,          \* an inventory that is missing or does not validate
  NoRow,        \* no inventory in the index
  MaxEvents     \* bound: how many database calls fail, and how often an object is
                \* written during the run, together

ASSUME IndexingAssumption ==
  /\ Modes \subseteq BOOLEAN
  /\ PageSize \in Nat \ {0}
  /\ TxCaps \subseteq Nat \ {0}
  /\ Bad \notin Digests
  /\ NoRow \notin Digests \cup {Bad}
  /\ MaxEvents \in Nat

VARIABLES
  indexingAll,  \* every path of the index (IndexAll), or a given list (IndexIDs)
  txCap,        \* inventories per transaction
  disk,         \* per path: the inventory in the storage root
  db,           \* per path: the inventory in the index, committed
  work,         \* the same, as the transaction sees it
  txAt,         \* who has the transaction: "chan", "main", "setup", a worker
  txVal,        \* its value: "open", "done" (committed or rolled back), "nil"
  txChClosed,
  setupPhase,   \* setup function: "list", "listing", "add", "failed"
  pageEnd,      \* the last path of the page it has
  workPhase,    \* per worker, in parse: "take", "query", "validate"
  prev,         \* per worker: what its query found
  out,          \* per path: the result of parse: its error, prev and inventory
  cur,          \* the path that the function index was called with
  phase,        \* the caller: "run", "write" (index has the transaction),
                \* "commit", "close" (the deferred function), "ended"
  numObjs,
  runErr,       \* indexInventories returns an error
  crashed,      \* a goroutine panicked and nothing recovered: the process is gone
  faults, changes,
  stable        \* paths whose inventory is the same since the run began (history)

dataVars == <<indexingAll, txCap, disk, db, work, stable>>
txVars == <<txAt, txVal, txChClosed>>
fnVars == <<setupPhase, pageEnd, workPhase, prev, out>>
callerVars == <<cur, phase, numObjs, runErr>>
boundVars == <<faults, changes>>
idxVars == <<vars, dataVars, txVars, fnVars, callerVars, crashed, boundVars>>

NoOut == [err |-> FALSE, prev |-> NoRow, inv |-> Bad]

\* The run may find any index that earlier runs have left, whole or not.
IdxInit ==
  /\ Init
  /\ indexingAll \in Modes
  /\ txCap \in TxCaps
  /\ disk \in [Jobs -> Digests \cup {Bad}]
  /\ db \in [Jobs -> Digests \cup {NoRow}]
  /\ work = db
  /\ txAt = "chan"
  /\ txVal = "open"
  /\ txChClosed = FALSE
  /\ setupPhase = IF indexingAll THEN "list" ELSE "add"
  /\ pageEnd = IF indexingAll THEN 0 ELSE NumJobs
  /\ workPhase = [w \in Workers |-> "take"]
  /\ prev = [w \in Workers |-> NoRow]
  /\ out = [j \in Jobs |-> NoOut]
  /\ cur = 0
  /\ phase = "run"
  /\ numObjs = 0
  /\ runErr = FALSE
  /\ crashed = FALSE
  /\ faults = 0
  /\ changes = 0
  /\ stable = Jobs

Fault == faults + changes < MaxEvents /\ faults' = faults + 1

-----------------------------------------------------------------------------
(* Slips that the code avoids, each a variant of one definition below: they *)
(* take no part in the specification.                                       *)

\* The pending inventories are committed after an error, too.
CommitAlways == TRUE

\* An inventory that was indexed before is taken for unchanged.
UnchangedWhenKnown(o) == o.prev # NoRow

\* The transaction is lost for the others when the write has failed.
PutBackUnlessFailed ==
  txAt' = IF mainPc' = "range" THEN "chan" ELSE "main"

\* The error of NewTx is lost.
NewTxErrorShadowed == ResultReturns(FALSE)

-----------------------------------------------------------------------------
(* The storage root *)

\* Another program writes an object, or damages it.
ChangeObject(p, inv) ==
  /\ faults + changes < MaxEvents
  /\ phase # "ended"
  /\ inv # disk[p]
  /\ disk' = [disk EXCEPT ![p] = inv]
  /\ stable' = stable \ {p}
  /\ changes' = changes + 1
  /\ UNCHANGED <<vars, indexingAll, txCap, db, work, txVars, fnVars, callerVars, crashed,
                 faults>>

-----------------------------------------------------------------------------
(* The setup function: addPaths, addAllObjectsPaths *)

\* tx := <-txCh.  The zero value comes from a closed channel, and nil is what a
\* failed NewTx has put in: calling a method of either panics.
CanTake == txAt = "chan" \/ txChClosed
TakesNil == txChClosed \/ txVal = "nil"

TakeToList ==
  /\ setupPc = "run" /\ setupPhase = "list"
  /\ CanTake
  /\ txAt' = "setup"
  /\ setupPhase' = "listing"
  /\ crashed' = TakesNil
  /\ UNCHANGED <<vars, dataVars, txVal, txChClosed, pageEnd, workPhase, prev, out,
                 callerVars, boundVars>>

LastOfPage ==
  IF next + PageSize - 1 < NumJobs THEN next + PageSize - 1 ELSE NumJobs

\* ListObjectRoots from the cursor on; the transaction goes back.
ListPage ==
  /\ setupPhase = "listing"
  /\ txAt' = "chan"
  /\ \/ /\ txVal = "open"
        /\ setupPhase' = "add"
        /\ pageEnd' = LastOfPage
        /\ UNCHANGED faults
     \/ /\ Fault \/ (txVal = "done" /\ UNCHANGED faults)
        /\ setupPhase' = "failed"
        /\ UNCHANGED pageEnd
  /\ UNCHANGED <<vars, dataVars, txVal, txChClosed, workPhase, prev, out, callerVars,
                 crashed, changes>>

\* The page is used up and was not the last.
NextPage ==
  /\ setupPc = "run" /\ setupPhase = "add"
  /\ next > pageEnd
  /\ pageEnd < NumJobs
  /\ setupPhase' = "list"
  /\ UNCHANGED <<vars, dataVars, txVars, pageEnd, workPhase, prev, out, callerVars,
                 crashed, boundVars>>

AddPath(w) ==
  /\ setupPhase = "add"
  /\ next <= pageEnd
  /\ AddWork(w)
  /\ workPhase' = [workPhase EXCEPT ![w] = "take"]
  /\ UNCHANGED <<dataVars, txVars, setupPhase, pageEnd, prev, out, callerVars, crashed,
                 boundVars>>

\* addPath returns false, which both setup functions ignore.
AddPathRefused ==
  /\ setupPhase = "add"
  /\ next <= pageEnd
  /\ AddRefused
  /\ UNCHANGED <<dataVars, txVars, fnVars, callerVars, crashed, boundVars>>

\* No path is left; a listing has failed; or an id has no path, which is found
\* out before the first path is added.
AddPathsReturns ==
  /\ \/ /\ setupPhase = "add"
        /\ next > NumJobs
        /\ SetupReturns("nil")
        /\ UNCHANGED faults
     \/ /\ setupPhase = "failed"
        /\ SetupReturns("err")
        /\ UNCHANGED faults
     \/ /\ ~indexingAll
        /\ next = 1
        /\ Fault
        /\ SetupReturns("err")
  /\ UNCHANGED <<dataVars, txVars, fnVars, callerVars, crashed, changes>>

CloseQueue ==
  /\ CloseWorkQ
  /\ UNCHANGED <<dataVars, txVars, fnVars, callerVars, crashed, boundVars>>

AddPathsStep ==
  \/ TakeToList \/ ListPage \/ NextPage
  \/ (\E w \in Workers : AddPath(w)) \/ AddPathRefused \/ AddPathsReturns

-----------------------------------------------------------------------------
(* The work function: parse *)

TakeToQuery(w) ==
  /\ workerPc[w] = "work" /\ workPhase[w] = "take"
  /\ CanTake
  /\ txAt' = w
  /\ workPhase' = [workPhase EXCEPT ![w] = "query"]
  /\ crashed' = TakesNil
  /\ UNCHANGED <<vars, dataVars, txVal, txChClosed, setupPhase, pageEnd, prev, out,
                 callerVars, boundVars>>

\* GetObjectByPath; the transaction goes back.
Query(w) ==
  /\ workerPc[w] = "work" /\ workPhase[w] = "query"
  /\ txVal = "open"
  /\ prev' = [prev EXCEPT ![w] = work[job[w]]]
  /\ workPhase' = [workPhase EXCEPT ![w] = "validate"]
  /\ txAt' = "chan"
  /\ UNCHANGED <<vars, dataVars, txVal, txChClosed, setupPhase, pageEnd, out, callerVars,
                 crashed, boundVars>>

\* It fails, which ends parse with an error.
QueryFails(w) ==
  /\ workPhase[w] = "query"
  /\ Fault \/ (txVal = "done" /\ UNCHANGED faults)
  /\ Work(w)
  /\ out' = [out EXCEPT ![job[w]] = [NoOut EXCEPT !.err = TRUE]]
  /\ txAt' = "chan"
  /\ UNCHANGED <<dataVars, txVal, txChClosed, setupPhase, pageEnd, workPhase, prev,
                 callerVars, crashed, changes>>

\* ValidateInventory: parse returns what it found, which may be damaged.
Validate(w) ==
  /\ workPhase[w] = "validate"
  /\ Work(w)
  /\ out' = [out EXCEPT ![job[w]] =
               [err |-> FALSE, prev |-> prev[w], inv |-> disk[job[w]]]]
  /\ UNCHANGED <<dataVars, txVars, setupPhase, pageEnd, workPhase, prev, callerVars,
                 crashed, boundVars>>

\* A worker that has taken nil panics; crashed says so.
Queue(w) ==
  /\ Push(w) \/ WorkerExit(w)
  /\ UNCHANGED <<dataVars, txVars, fnVars, callerVars, crashed, boundVars>>

ParseStep(w) ==
  TakeToQuery(w) \/ Query(w) \/ QueryFails(w) \/ Validate(w) \/ Queue(w)

-----------------------------------------------------------------------------
(* The result function: index, in the goroutine of the caller *)

CallIndex ==
  /\ Receive
  /\ cur' = Head(resultQ)
  /\ UNCHANGED <<dataVars, txVars, fnVars, phase, numObjs, runErr, crashed, boundVars>>

Stops(o) == o.err \/ (o.inv = Bad /\ ~indexingAll)
Unchanged(o) == o.prev = o.inv
Skips(o) == ~Stops(o) /\ (o.inv = Bad \/ Unchanged(o))

\* An error ends the run; nothing is to be done for an inventory with errors
\* when all are indexed, or for one that is unchanged.
IndexReturns ==
  /\ mainPc = "call" /\ phase = "run"
  /\ \/ Stops(out[cur]) /\ ResultReturns(TRUE)
     \/ Skips(out[cur]) /\ ResultReturns(FALSE)
  /\ UNCHANGED <<dataVars, txVars, fnVars, callerVars, crashed, boundVars>>

TakeToWrite ==
  /\ mainPc = "call" /\ phase = "run"
  /\ ~Stops(out[cur]) /\ ~Skips(out[cur])
  /\ CanTake
  /\ numObjs' = numObjs + 1
  /\ txAt' = "main"
  /\ phase' = "write"
  /\ UNCHANGED <<vars, dataVars, txVal, txChClosed, fnVars, cur, runErr, crashed,
                 boundVars>>

\* The transaction goes back, whatever has become of it.
PutBack == txAt' = "chan"

NewTxError == ResultReturns(TRUE)

\* IndexObjectInventory; every txCap times, Commit and NewTx.  Each may fail.
WriteInventory ==
  /\ mainPc = "call" /\ phase = "write"
  /\ LET written == [work EXCEPT ![cur] = out[cur].inv]
         full == numObjs % txCap = 0
     IN  \/ \* written; with a full batch committed, and a new transaction begun
            /\ txVal = "open"
            /\ work' = written
            /\ db' = IF full THEN written ELSE db
            /\ ResultReturns(FALSE)
            /\ UNCHANGED <<txVal, faults>>
         \/ \* the write fails
            /\ Fault \/ (txVal = "done" /\ UNCHANGED faults)
            /\ ResultReturns(TRUE)
            /\ UNCHANGED <<work, db, txVal>>
         \/ \* the commit fails
            /\ txVal = "open" /\ full
            /\ Fault
            /\ work' = db /\ db' = db /\ txVal' = "done"
            /\ ResultReturns(TRUE)
         \/ \* NewTx fails and returns nil
            /\ txVal = "open" /\ full
            /\ Fault
            /\ work' = written /\ db' = written /\ txVal' = "nil"
            /\ NewTxError
  /\ PutBack
  /\ phase' = "run"
  /\ UNCHANGED <<indexingAll, txCap, disk, stable, txChClosed, fnVars, cur, numObjs, runErr,
                 crashed, changes>>

RunStep ==
  /\ RangeEnds \/ CloseTerm \/ Return
  /\ UNCHANGED <<dataVars, txVars, fnVars, callerVars, crashed, boundVars>>

CloseResults ==
  /\ CloseResultQ
  /\ UNCHANGED <<dataVars, txVars, fnVars, callerVars, crashed, boundVars>>

-----------------------------------------------------------------------------
(* indexInventories after pipeline.Run *)

RunFailed == resultErr \/ setupErr = "err"
CommitOnlyIfOk == ~RunFailed

RunReturned ==
  /\ mainPc = "returned" /\ phase = "run"
  /\ phase' = IF CommitOnlyIfOk THEN "commit" ELSE "close"
  /\ runErr' = RunFailed
  /\ UNCHANGED <<vars, dataVars, txVars, fnVars, cur, numObjs, crashed, boundVars>>

\* Commit any pending changes.
FinalCommit ==
  /\ phase = "commit"
  /\ CanTake
  /\ phase' = "close"
  /\ txVal' = "done"
  /\ \/ /\ db' = work
        /\ UNCHANGED <<work, runErr, faults>>
     \/ /\ Fault
        /\ work' = db /\ runErr' = TRUE
        /\ UNCHANGED db
  /\ UNCHANGED <<vars, indexingAll, txCap, disk, stable, txAt, txChClosed, fnVars, cur,
                 numObjs, crashed, changes>>

\* The deferred function: take the transaction, roll it back, close txCh.  On a
\* nil transaction it panics, asyncTask.run recovers, and txCh stays open.
CloseTxCh ==
  /\ phase = "close"
  /\ CanTake
  /\ phase' = "ended"
  /\ txAt' = "main"
  /\ work' = db
  /\ IF txVal = "nil"
       THEN runErr' = TRUE /\ UNCHANGED <<txVal, txChClosed>>
       ELSE txVal' = "done" /\ txChClosed' = TRUE /\ UNCHANGED runErr
  /\ UNCHANGED <<vars, indexingAll, txCap, disk, db, stable, fnVars, cur, numObjs,
                 crashed, boundVars>>

\* The task has ended; workers of it may be left behind.
Ended == phase = "ended" /\ UNCHANGED idxVars

-----------------------------------------------------------------------------
CallerStep ==
  \/ CallIndex \/ IndexReturns \/ TakeToWrite \/ WriteInventory \/ RunStep
  \/ RunReturned \/ FinalCommit \/ CloseTxCh

IdxNext ==
  \/ /\ ~crashed
     /\ \/ \E p \in Jobs, inv \in Digests \cup {Bad} : ChangeObject(p, inv)
        \/ AddPathsStep
        \/ CloseQueue
        \/ \E w \in Workers : ParseStep(w)
        \/ CloseResults
        \/ CallerStep
  \/ crashed /\ UNCHANGED idxVars
  \/ Ended

IdxSpec == IdxInit /\ [][IdxNext]_idxVars

\* Some goroutine that can run runs, and every call returns.
IdxFairness ==
  WF_idxVars(~crashed /\ (\/ AddPathsStep \/ CloseQueue \/ CloseResults \/ CallerStep
                          \/ \E w \in Workers : ParseStep(w)))

IdxFairSpec == IdxSpec /\ IdxFairness

-----------------------------------------------------------------------------
IdxTypeOK ==
  /\ TypeOK
  /\ indexingAll \in Modes
  /\ txCap \in TxCaps
  /\ disk \in [Jobs -> Digests \cup {Bad}]
  /\ db \in [Jobs -> Digests \cup {NoRow}]
  /\ work \in [Jobs -> Digests \cup {NoRow}]
  /\ txAt \in {"chan", "main", "setup"} \cup Workers
  /\ txVal \in {"open", "done", "nil"}
  /\ txChClosed \in BOOLEAN
  /\ setupPhase \in {"list", "listing", "add", "failed"}
  /\ pageEnd \in 0..NumJobs
  /\ workPhase \in [Workers -> {"take", "query", "validate"}]
  /\ prev \in [Workers -> Digests \cup {NoRow}]
  /\ out \in [Jobs -> [err : BOOLEAN, prev : Digests \cup {NoRow},
                       inv : Digests \cup {Bad}]]
  /\ cur \in 0..NumJobs
  /\ phase \in {"run", "write", "commit", "close", "ended"}
  /\ numObjs \in Nat
  /\ runErr \in BOOLEAN
  /\ crashed \in BOOLEAN
  /\ faults \in Nat /\ changes \in Nat /\ faults + changes <= MaxEvents
  /\ stable \subseteq Jobs

\* A run that reports no error has left the index as the storage root is, for
\* every path of it whose valid inventory did not change meanwhile, whatever an
\* earlier run had left (indexer.go:121-258).
IndexedMatches ==
  phase = "ended" /\ ~runErr =>
    \A p \in stable : disk[p] # Bad => db[p] = disk[p]

\* The transaction is never left to a goroutine of a run that has ended well.
NothingLeftBehind ==
  phase = "ended" /\ ~runErr => txChClosed /\ \A w \in Workers : Done(w)

\* "we quit without indexing additional objects" (indexer.go:203-206): after an
\* error of index nothing more is committed, and the incomplete batch is not.
NoIndexingAfterError == [][resultErr => db' = db]_idxVars

\* Without an error of index, no goroutine is ever handed a transaction that is
\* not there (indexer.go:133-141, 231-241).
CrashOnlyAfterError == crashed => resultErr

\* What makes the two properties above and NothingLeftBehind inductive, together
\* with IInv: what the phase of the caller and the transaction say of errors.
PhaseInv ==
  /\ phase \in {"commit", "close", "ended"} => mainPc = "returned"
  /\ phase \in {"run", "write", "commit", "close", "ended"}
  /\ phase = "commit" => ~resultErr
  /\ phase = "close" /\ ~runErr => ~resultErr
  /\ phase = "ended" /\ ~runErr => ~resultErr /\ txChClosed
  /\ txChClosed => phase = "ended"
  /\ txVal = "nil" => resultErr
  /\ crashed => resultErr

\* What makes IndexedMatches inductive, together with IInv and PhaseInv.  Every path
\* was passed on when setup has ended well.  While no call of index has failed, what
\* is known of a path since its inventory was parsed is still true of the
\* transaction, and of the storage root if that has not changed.
Parsed ==
  {job[w] : w \in {v \in Workers : workerPc[v] = "push"}} \cup Queued
    \cup {p \in {cur} : mainPc = "call"}

Handled == {p \in Called : mainPc = "call" => p # cur}

Passed ==
  /\ setupErr = "nil" => next > NumJobs
  /\ refused # {} => resultErr
  /\ phase = "commit" => setupErr = "nil"

Calling ==
  /\ mainPc = "call" => cur \in Called
  /\ phase = "write" => mainPc = "call" /\ ~out[cur].err /\ out[cur].inv # Bad

ParsedKnown ==
  /\ \A w \in Workers :
       workerPc[w] = "work" /\ workPhase[w] = "validate" => prev[w] = work[job[w]]
  /\ \A p \in Parsed : ~out[p].err =>
       out[p].prev = work[p] /\ (p \in stable => out[p].inv = disk[p])

HandledWritten == \A p \in Handled \cap stable : disk[p] # Bad => work[p] = disk[p]

MatchInv ==
  /\ Passed
  /\ Calling
  /\ ~resultErr /\ phase \in {"run", "write", "commit"} => ParsedKnown /\ HandledWritten
  /\ phase \in {"close", "ended"} /\ ~runErr =>
       \A p \in stable : disk[p] # Bad => db[p] = disk[p]

\* The task comes to an end: nobody waits for ever for the transaction or for a
\* queue (indexer.go:121-258).
RunEnds == <>(phase = "ended" \/ crashed)

\* "For select ids, we quit" (indexer.go:203-206): with an inventory that does not
\* validate, IndexIDs ends with an error, and the process lives on.
NoCrash == ~crashed
=============================================================================
