--------------------------- MODULE IndexFileProofs ---------------------------
(***************************************************************************)
(* Proofs about ObjectRootSync, for every set of paths, batch size and     *)
(* number of failures: a sync removes no object root that was in the       *)
(* storage root all the time, and one that succeeds leaves the index in    *)
(* step with what the storage root held throughout.  And about the index   *)
(* file over the life of its processes, any number of them and whatever    *)
(* versions they have: they do not mix their tables, and what is shown of  *)
(* a sync holds of a server that dies and starts again, too.               *)
(***************************************************************************)
EXTENDS IndexFile, TLAPS

-----------------------------------------------------------------------------
(* A sync of the server *)


USE SyncAssumption DEF SyncAssumption, NoRow, Old, startSync, Stamps

LEMMA NoRowsType == NoRows \in [Paths -> Stamps]
  BY DEF NoRows

LEMMA InitIInv == Init => IInv
<1> SUFFICES ASSUME Init PROVE IInv
  OBVIOUS
<1>1. TypeOK
  <2>1. db \in [Paths -> Stamps] /\ work \in [Paths -> Stamps]
    BY NoRowsType DEF Init
  <2>2. clock \in startSync..MaxTime /\ faults \in 0..MaxFaults /\ found \in Nat
    BY DEF Init
  <2>3. store \subseteq Paths /\ kept \subseteq store /\ gone \subseteq Paths \ store /\ unvisited \subseteq Paths
    BY DEF Init
  <2>4. pc = "idle" /\ tx = "none" /\ work = NoRows /\ dirty = FALSE /\ leaked = FALSE /\ result = "none"
    BY DEF Init
  <2> QED
    BY <2>1, <2>2, <2>3, <2>4 DEF TypeOK
<1>2. StampsOfSync
  BY DEF Init, StampsOfSync
<1> QED
  BY <1>1, <1>2 DEF IInv

LEMMA EnvIInv ==
  ASSUME IInv, NEW p \in Paths, Appear(p) \/ Vanish(p) PROVE IInv'
<1> USE DEF Appear, Vanish, scanVars, txVars
<1>1. TypeOK'
  BY NoRowsType DEF IInv, TypeOK
<1>2. kept' \subseteq kept /\ gone' \subseteq gone
  OBVIOUS
<1>3. UNCHANGED <<db, pc, unvisited, work>>
  OBVIOUS
<1>4. StampsOfSync'
  BY <1>2, <1>3 DEF IInv, StampsOfSync
<1> QED
  BY <1>1, <1>4 DEF IInv

LEMMA BeginSyncIInv == ASSUME IInv, BeginSync PROVE IInv'
<1> USE DEF BeginSync, Fault, NoFault, txVars
<1>1. db' \in [Paths -> Stamps] /\ \A p \in Paths : db'[p] < startSync
  BY DEF IInv, TypeOK
<1>2. TypeOK'
  <2>1. clock' \in startSync..MaxTime /\ faults' \in 0..MaxFaults /\ found' \in Nat
    BY DEF IInv, TypeOK
  <2>2. kept' \subseteq store' /\ gone' \subseteq Paths \ store' /\ store' \subseteq Paths
    BY DEF IInv, TypeOK
  <2>3. leaked' \in BOOLEAN /\ result' \in {"none", "ok", "failed"}
    BY DEF IInv, TypeOK
  <2>4. CASE pc' = "scan" /\ unvisited' = Paths /\ tx' = "first" /\ work' = db' /\ dirty' = FALSE
    BY <1>1, <2>1, <2>2, <2>3, <2>4 DEF TypeOK
  <2>5. CASE UNCHANGED <<pc, unvisited, txVars>>
    BY <1>1, <2>1, <2>2, <2>3, <2>5 DEF IInv, TypeOK, NoRows
  <2> QED
    BY <2>4, <2>5
<1>3. StampsOfSync'
  BY <1>1 DEF IInv, TypeOK, StampsOfSync
<1> QED
  BY <1>2, <1>3 DEF IInv

LEMMA PassIInv == ASSUME IInv, NEW p \in Paths, Pass(p) PROVE IInv'
<1> USE DEF Pass, envVars, txVars
<1>1. TypeOK'
  BY NoRowsType DEF IInv, TypeOK
<1>2. p \notin kept
  BY DEF IInv, TypeOK
<1>3. StampsOfSync'
  BY <1>2 DEF IInv, StampsOfSync
<1> QED
  BY <1>1, <1>3 DEF IInv

LEMMA IndexIInv == ASSUME IInv, NEW p \in Paths, Index(p) PROVE IInv'
<1> USE DEF Index, ReadClock, envVars
<1> DEFINE written == [work EXCEPT ![p] = clock']
<1>1. clock' \in startSync..MaxTime
  BY DEF IInv, TypeOK
<1>2. /\ written \in [Paths -> Stamps]
      /\ written[p] >= startSync
      /\ \A q \in Paths \ {p} : written[q] = work[q]
  BY <1>1 DEF IInv, TypeOK
<1>3. work' = written /\ db' \in {db, written} /\ tx' # "none"
  BY DEF NextBatch, IInv, TypeOK
<1>4. TypeOK'
  <2>1. /\ db' \in [Paths -> Stamps]
        /\ work' \in [Paths -> Stamps]
        /\ tx' \in {"first", "later"}
        /\ dirty' \in BOOLEAN
    BY <1>2, <1>3 DEF NextBatch, IInv, TypeOK
  <2>2. found' \in Nat /\ unvisited' \subseteq Paths
    BY DEF IInv, TypeOK
  <2> QED
    BY <1>1, <2>1, <2>2 DEF IInv, TypeOK
<1>5. p \notin gone
  BY DEF IInv, TypeOK
<1>6. StampsOfSync'
  <2>1. \A q \in Paths : db'[q] # NoRow => written[q] # NoRow
    BY <1>2, <1>3 DEF IInv, StampsOfSync
  <2>2. \A q \in kept \ unvisited' : written[q] >= startSync
    BY <1>2 DEF IInv, TypeOK, StampsOfSync
  <2>3. \A q \in gone : written[q] < startSync
    BY <1>2, <1>5 DEF IInv, TypeOK, StampsOfSync
  <2> QED
    BY <1>3, <2>1, <2>2, <2>3 DEF IInv, StampsOfSync
<1> QED
  BY <1>4, <1>6 DEF IInv

\* The sync ends with an error, or the process dies: the index stays.
LEMMA FailIInv ==
  ASSUME IInv, ScanFails \/ CommitFails \/ Crash PROVE IInv'
<1> USE DEF ScanFails, CommitFails, Crash, RollbackFirst, NoTx, Fault, NoFault,
        AfterFailedScan, envVars, scanVars
<1>1. TypeOK'
  <2>1. work' = NoRows /\ tx' = "none" /\ dirty' = FALSE /\ pc' = "idle"
    OBVIOUS
  <2>2. result' \in {"none", "failed"} /\ faults' \in 0..MaxFaults
    BY DEF IInv, TypeOK
  <2>3. leaked' \in BOOLEAN
    <3>1. CASE ScanFails
      BY <3>1, Zenon
    <3>2. CASE CommitFails \/ Crash
      BY <3>2 DEF IInv, TypeOK
    <3> QED
      BY <3>1, <3>2
  <2>4. UNCHANGED <<envVars, db, scanVars, clock>>
    OBVIOUS
  <2> QED
    BY <2>1, <2>2, <2>3, <2>4, NoRowsType DEF IInv, TypeOK
<1>2. pc' = "idle"
  OBVIOUS
<1>3. StampsOfSync'
  BY <1>2 DEF StampsOfSync
<1> QED
  BY <1>1, <1>3 DEF IInv

LEMMA EndScanIInv == ASSUME IInv, EndScan PROVE IInv'
<1> USE DEF EndScan, NoTx, envVars, scanVars
<1>1. TypeOK'
  BY NoRowsType DEF IInv, TypeOK
<1>2. StampsOfSync'
  BY DEF IInv, StampsOfSync
<1> QED
  BY <1>1, <1>2 DEF IInv

LEMMA RemoveIInv == ASSUME IInv, RemoveObjectsBefore \/ RemoveFails PROVE IInv'
<1> USE DEF RemoveObjectsBefore, RemoveFails, Fault, NoFault, envVars, scanVars,
        txVars
<1>1. db' \in [Paths -> Stamps]
  BY DEF IInv, TypeOK
<1>2. TypeOK'
  BY <1>1 DEF IInv, TypeOK, NoRows
<1>3. StampsOfSync'
  BY DEF StampsOfSync
<1> QED
  BY <1>2, <1>3 DEF IInv

LEMMA NextIInv == IInv /\ [Next]_vars => IInv'
<1> SUFFICES ASSUME IInv, [Next]_vars PROVE IInv'
  OBVIOUS
<1>1. ASSUME NEW p \in Paths, Appear(p) \/ Vanish(p) PROVE IInv'
  BY <1>1, EnvIInv
<1>2. CASE BeginSync
  BY <1>2, BeginSyncIInv
<1>3. CASE SyncStep
  BY <1>3, PassIInv, IndexIInv, FailIInv, EndScanIInv, RemoveIInv DEF SyncStep
<1>4. CASE CommitFails \/ Crash
  BY <1>4, FailIInv
<1>5. CASE UNCHANGED vars
  BY <1>5 DEF vars, envVars, scanVars, txVars, IInv, TypeOK, NoRows, StampsOfSync
<1> QED
  BY <1>1, <1>2, <1>3, <1>4, <1>5 DEF Next

\* How stamps compare to the start of the sync, at any time (indexer.go:56-119).
THEOREM StampInvariant == Spec => []IInv
  BY InitIInv, NextIInv, PTL DEF Spec

-----------------------------------------------------------------------------
\* The committed rows change in four actions only.
LEMMA RowsChange ==
  ASSUME [Next]_vars,
         ~BeginSync, ~EndScan, ~RemoveObjectsBefore,
         \A p \in Paths : ~Index(p)
  PROVE  db' = db
  BY DEF Next, SyncStep, Appear, Vanish, Pass, ScanFails, RemoveFails,
         CommitFails, Crash, vars

LEMMA StepKeepsLive ==
  ASSUME IInv, [Next]_vars, NEW p \in kept, db[p] # NoRow PROVE db'[p] # NoRow
<1>0. p \in Paths
  BY DEF IInv, TypeOK
<1>1. CASE BeginSync
  BY <1>0, <1>1 DEF BeginSync
<1>2. CASE EndScan
  BY <1>0, <1>2 DEF EndScan, IInv, StampsOfSync
<1>3. CASE RemoveObjectsBefore
  BY <1>0, <1>3 DEF RemoveObjectsBefore, Expired, IInv, TypeOK, StampsOfSync
<1>4. ASSUME NEW q \in Paths, Index(q) PROVE db'[p] # NoRow
  BY <1>0, <1>4 DEF Index, ReadClock, NextBatch, IInv, TypeOK, StampsOfSync
<1> QED
  BY <1>1, <1>2, <1>3, <1>4, RowsChange

\* A sync never removes an object root that was in the storage root all the time
\* since the sync began (indexer.go:53-78).
THEOREM KeepsLiveRoots == Spec => LiveRootKept
<1>1. IInv /\ [Next]_vars => [\A p \in kept : db[p] # NoRow => db'[p] # NoRow]_vars
  BY StepKeepsLive
<1> QED
  BY <1>1, StampInvariant, PTL DEF Spec, LiveRootKept

\* Only the removal of old rows ends a sync without an error.
LEMMA SyncEnds ==
  ASSUME IInv, [Next]_vars, pc = "remove", result' = "ok"
  PROVE  RemoveObjectsBefore
<1>1. result = "none"
  BY DEF IInv, StampsOfSync
<1> QED
  BY <1>1 DEF Next, SyncStep, Appear, Vanish, BeginSync, Pass, Index, ScanFails,
     EndScan, RemoveFails, CommitFails, Crash, vars

LEMMA StepSyncs ==
  ASSUME IInv, [Next]_vars, pc = "remove", result' = "ok", NEW p \in Paths
  PROVE  /\ p \in kept => db'[p] # NoRow
         /\ p \in gone => db'[p] = NoRow
<1>1. RemoveObjectsBefore
  BY SyncEnds
<1> QED
  BY <1>1 DEF RemoveObjectsBefore, Expired, IInv, TypeOK, StampsOfSync

\* After a sync without an error the index has the object roots that were there
\* all the time, and none of those that were not (indexer.go:53-78).
THEOREM SyncsRows == Spec => SyncedRows
<1>1. IInv /\ [Next]_vars =>
        [result' = "ok" /\ pc = "remove" =>
           \A p \in Paths : /\ p \in kept => db'[p] # NoRow
                            /\ p \in gone => db'[p] = NoRow]_vars
  BY StepSyncs
<1> QED
  BY <1>1, StampInvariant, PTL DEF Spec, SyncedRows

-----------------------------------------------------------------------------
(* The processes and their file *)


FileTypeOK ==
  /\ startPc \in [Processes -> {"down", "check", "create", "up"}]
  /\ executed \in [Processes -> 0..AllTables]

\* Tables are committed all together, by the one process that creates them.
OneCreator ==
  /\ tables \in {0, AllTables}
  /\ \A p, q \in Processes : executed[p] > 0 /\ executed[q] > 0 => p = q
  /\ \A p \in Processes : executed[p] > 0 => startPc[p] = "create" /\ tables = 0

FileIInv == FileTypeOK /\ OneCreator /\ RunsOnOwnSchema

LEMMA FileInitIInv == FileInit => FileIInv
BY DEF FileInit, FileIInv, FileTypeOK, OneCreator, RunsOnOwnSchema, AllTables

\* Steps that start a process, and leave the tables alone.
LEMMA StartIInv ==
  ASSUME FileIInv, NEW p \in Processes,
         ExistingTables(p) \/ CheckSchema(p) \/ TableExists(p) \/ StartFails(p)
  PROVE  FileIInv'
<1>1. FileTypeOK'
  BY DEF ExistingTables, CheckSchema, TableExists, StartFails, Goes, FileIInv, FileTypeOK, AllTables
<1>2. /\ UNCHANGED <<schemaVer, tables, version>>
      /\ \A q \in Processes \ {p} : startPc'[q] = startPc[q] /\ executed'[q] = executed[q]
  BY DEF ExistingTables, CheckSchema, TableExists, StartFails, Goes, fileVars, FileIInv, FileTypeOK
<1>3. executed'[p] = 0
  BY DEF ExistingTables, CheckSchema, TableExists, StartFails, FileIInv, FileTypeOK, OneCreator, AllTables
<1>4. OneCreator'
  BY <1>1, <1>2, <1>3 DEF FileIInv, OneCreator
<1>5. startPc'[p] = "up" => tables = AllTables /\ version = schemaVer[p]
  BY DEF ExistingTables, CheckSchema, TableExists, StartFails, Goes, VersionMatches, VersionRow, AllTables,
         FileIInv, FileTypeOK, OneCreator
<1>6. RunsOnOwnSchema'
  BY <1>2, <1>5 DEF FileIInv, RunsOnOwnSchema
<1> QED
  BY <1>1, <1>4, <1>6 DEF FileIInv

LEMMA CreateTablesIInv == ASSUME FileIInv, NEW p \in Processes, CreateTables(p) PROVE FileIInv'
<1>1. \A q \in Processes \ {p} : executed[q] = 0
  BY DEF CreateTables, Locked, FileIInv, FileTypeOK, AllTables
<1>2. FileTypeOK'
  BY DEF CreateTables, FileIInv, FileTypeOK, AllTables
<1>3. \A q \in Processes \ {p} : executed'[q] = 0
  BY <1>1 DEF CreateTables, FileIInv, FileTypeOK
<1>4. OneCreator'
  BY <1>2, <1>3 DEF CreateTables, Executed, fileVars, FileIInv, OneCreator
<1>5. RunsOnOwnSchema'
  BY DEF CreateTables, Executed, fileVars, FileIInv, RunsOnOwnSchema
<1> QED
  BY <1>2, <1>4, <1>5 DEF FileIInv

LEMMA CommitTablesIInv == ASSUME FileIInv, NEW p \in Processes, CommitTables(p) PROVE FileIInv'
<1>1. /\ startPc[p] = "create" /\ tables = 0
      /\ \A q \in Processes : executed'[q] = 0
  BY DEF CommitTables, FileIInv, FileTypeOK, OneCreator, AllTables
<1>2. FileTypeOK' /\ OneCreator'
  BY <1>1 DEF CommitTables, Goes, FileIInv, FileTypeOK, OneCreator, AllTables
<1>3. \A q \in Processes \ {p} : startPc'[q] = startPc[q] /\ startPc[q] # "up"
  BY <1>1 DEF CommitTables, Goes, FileIInv, FileTypeOK, RunsOnOwnSchema, AllTables
<1>4. RunsOnOwnSchema'
  BY <1>3 DEF CommitTables, vars, RunsOnOwnSchema
<1> QED
  BY <1>2, <1>4 DEF FileIInv

LEMMA ServerDiesIInv == ASSUME FileIInv, ServerDies PROVE FileIInv'
<1>1. FileTypeOK' /\ OneCreator'
  BY FileAssumption DEF FileAssumption, ServerDies, Goes, fileVars, FileIInv, FileTypeOK, OneCreator
<1>2. RunsOnOwnSchema'
  BY FileAssumption DEF FileAssumption, ServerDies, Goes, fileVars, FileIInv, FileTypeOK, RunsOnOwnSchema
<1> QED
  BY <1>1, <1>2 DEF FileIInv

LEMMA UnchangedFileIInv == ASSUME FileIInv, UNCHANGED startVars PROVE FileIInv'
BY DEF startVars, fileVars, FileIInv, FileTypeOK, OneCreator, RunsOnOwnSchema

LEMMA FileNextIInv == FileIInv /\ [FileNext]_allVars => FileIInv'
<1> SUFFICES ASSUME FileIInv, [FileNext]_allVars PROVE FileIInv'
  OBVIOUS
<1>1. CASE UNCHANGED startVars
  BY <1>1, UnchangedFileIInv
<1>2. CASE ServerDies
  BY <1>2, ServerDiesIInv
<1>3. ASSUME NEW p \in Processes, InitSchema(p) \/ StartFails(p) PROVE FileIInv'
  BY <1>3, StartIInv, CreateTablesIInv, CommitTablesIInv DEF InitSchema
<1> QED
  BY <1>1, <1>2, <1>3 DEF FileNext, allVars

\* A process that runs has all tables of its own version, however many start on the same
\* file and die meanwhile (sqlite.go:76-104).
THEOREM StartsOnOwnSchema == FileSpec => []RunsOnOwnSchema
<1>1. FileIInv => RunsOnOwnSchema
  BY DEF FileIInv
<1> QED
  BY <1>1, FileInitIInv, FileNextIInv, PTL DEF FileSpec

-----------------------------------------------------------------------------
(* The syncs of the server *)

\* A step of the file is one of a sync, or spends a failed call at most.
LEMMA FileStepSyncs ==
  ASSUME [FileNext]_allVars
  PROVE  \/ [Next]_vars
         \/ UNCHANGED syncVars /\ Fault
<1>1. CASE (\E p \in Paths : Appear(p) \/ Vanish(p)) \/ ServerSyncs \/ ServerDies
  BY <1>1 DEF ServerSyncs, ServerDies, Next
<1>2. ASSUME NEW p \in Processes, InitSchema(p) \/ StartFails(p)
      PROVE  UNCHANGED vars \/ (UNCHANGED syncVars /\ Fault)
  BY <1>2 DEF InitSchema, ExistingTables, CheckSchema, CreateTables, TableExists, CommitTables,
              StartFails, NoFault, syncVars, vars
<1>3. CASE UNCHANGED allVars
  BY <1>3 DEF allVars
<1> QED
  BY <1>1, <1>2, <1>3 DEF FileNext

LEMMA FaultIInv == ASSUME IInv, UNCHANGED syncVars, Fault PROVE IInv'
BY SyncAssumption DEF SyncAssumption, syncVars, envVars, scanVars, txVars, Fault, IInv, TypeOK, StampsOfSync

\* The inductive invariant of a sync holds through deaths and starts of the server.
THEOREM FileStampInvariant == FileSpec => []IInv
<1>1. FileInit => IInv
  BY InitIInv DEF FileInit
<1>2. IInv /\ [FileNext]_allVars => IInv'
  BY FileStepSyncs, NextIInv, FaultIInv
<1> QED
  BY <1>1, <1>2, PTL DEF FileSpec

\* The server never takes an object root out of the index that was there since the sync
\* began, also when it has died and started again in between (indexer.go:53-78).
THEOREM FileKeepsLiveRoots == FileSpec => LiveRootKept
<1>1. IInv /\ [FileNext]_allVars => [\A p \in kept : db[p] # NoRow => db'[p] # NoRow]_vars
  <2> SUFFICES ASSUME IInv, [FileNext]_allVars, NEW p \in kept, db[p] # NoRow
               PROVE  db'[p] # NoRow
    OBVIOUS
  <2>1. CASE [Next]_vars
    BY <2>1, StepKeepsLive
  <2>2. CASE UNCHANGED syncVars
    BY <2>2 DEF syncVars
  <2> QED
    BY <2>1, <2>2, FileStepSyncs
<1> QED
  BY <1>1, FileStampInvariant, PTL DEF FileSpec, LiveRootKept

\* After a sync without an error the index has what was there all the time, and nothing
\* that was not, whatever an earlier life of the server has left (indexer.go:53-78).
THEOREM FileSyncsRows == FileSpec => SyncedRows
<1>1. IInv /\ [FileNext]_allVars =>
        [result' = "ok" /\ pc = "remove" =>
           \A p \in Paths : /\ p \in kept => db'[p] # NoRow
                            /\ p \in gone => db'[p] = NoRow]_vars
  <2> SUFFICES ASSUME IInv, [FileNext]_allVars, result' = "ok", pc = "remove", NEW p \in Paths
               PROVE  /\ p \in kept => db'[p] # NoRow
                      /\ p \in gone => db'[p] = NoRow
    OBVIOUS
  <2>1. CASE [Next]_vars
    BY <2>1, StepSyncs
  <2>2. CASE UNCHANGED syncVars
    BY <2>2 DEF syncVars, IInv, StampsOfSync
  <2> QED
    BY <2>1, <2>2, FileStepSyncs
<1> QED
  BY <1>1, FileStampInvariant, PTL DEF FileSpec, SyncedRows
=============================================================================
