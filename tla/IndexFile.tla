------------------------------ MODULE IndexFile ------------------------------
(***************************************************************************)
(* The index file over the life of the processes that use it: a server     *)
(* (cmd/ocfl-index/cmd/server.go), which syncs object roots as in          *)
(* ObjectRootSync, and another process that opens the same file, a second  *)
(* server or ocfl-index index (index.go), of this version of the program   *)
(* or of another one.  Each begins with InitSchema                         *)
(* (internal/sqlite/sqlite.go:76-104), which lists the tables outside of   *)
(* the transaction that creates them.  Processes die and are started again.*)
(*                                                                         *)
(* What the other process does once it has started is left out.            *)
(***************************************************************************)
EXTENDS ObjectRootSync

CONSTANTS
  Processes, Server,
  SchemaVersions    \* which schemaVer each process may have

ASSUME FileAssumption == Server \in Processes

\* schema.sql: the table of the version, its only row, the other tables.
VersionTable == 1
VersionRow == 2
AllTables == 3
NoVersion == 0

VARIABLES
  schemaVer,   \* of each process
  tables,      \* how many statements of schema.sql are committed
  version,     \* the version in the row
  startPc,     \* of each process: "down", "check", "create", "up"
  executed     \* statements of schema.sql that its open transaction has executed

fileVars == <<tables, version>>
startVars == <<schemaVer, fileVars, startPc, executed>>
allVars == <<vars, startVars>>

FileInit ==
  /\ Init
  /\ schemaVer \in SchemaVersions
  /\ tables = 0
  /\ version = NoVersion
  /\ startPc = [p \in Processes |-> "down"]
  /\ executed = [p \in Processes |-> 0]

syncVars == <<envVars, db, pc, scanVars, txVars, leaked, clock, result>>

Goes(p, to) == startPc' = [startPc EXCEPT ![p] = to]

\* The write lock is with another process, which has written or is in a sync.
Locked(p) ==
  \/ \E q \in Processes \ {p} : executed[q] > 0
  \/ p # Server /\ (dirty \/ leaked)

-----------------------------------------------------------------------------
(* Slips that the code avoids, each a variant of one definition below: they *)
(* take no part in the specification.                                       *)

\* The statements are executed without a transaction.
ExecutedAtOnce(p, n) == tables' = n /\ version' = IF n >= VersionRow THEN schemaVer[p] ELSE version

\* A file with tables will do, whatever version it has.
VersionIgnored(p) == TRUE

-----------------------------------------------------------------------------
(* InitSchema *)

\* An error in the middle of the list goes unnoticed, and may hide the tables.
ExistingTables(p) ==
  /\ startPc[p] = "down"
  /\ \/ Goes(p, IF tables > 0 THEN "check" ELSE "create") /\ NoFault
     \/ Goes(p, "create") /\ Fault
  /\ UNCHANGED <<syncVars, schemaVer, fileVars, executed>>

VersionMatches(p) == tables >= VersionRow /\ version = schemaVer[p]

\* GetSchemaVersion: the start of a process of another version fails.
CheckSchema(p) ==
  /\ startPc[p] = "check"
  /\ Goes(p, IF VersionMatches(p) THEN "up" ELSE "down")
  /\ UNCHANGED <<vars, schemaVer, fileVars, executed>>

\* What the statements have done is in the transaction only.
Executed(p, n) == UNCHANGED fileVars

\* The next statement of schema.sql waits for the lock.
CreateTables(p) ==
  /\ startPc[p] = "create"
  /\ executed[p] < AllTables
  /\ ~Locked(p)
  /\ tables = 0
  /\ executed' = [executed EXCEPT ![p] = @ + 1]
  /\ Executed(p, executed[p] + 1)
  /\ UNCHANGED <<vars, schemaVer, startPc>>

\* "table ocfl_index_schema already exists": another process was faster.
TableExists(p) ==
  /\ startPc[p] = "create"
  /\ executed[p] = 0
  /\ tables > 0
  /\ Goes(p, "down")
  /\ UNCHANGED <<vars, schemaVer, fileVars, executed>>

CommitTables(p) ==
  /\ executed[p] = AllTables
  /\ tables' = AllTables
  /\ version' = schemaVer[p]
  /\ Goes(p, "up")
  /\ executed' = [executed EXCEPT ![p] = 0]
  /\ UNCHANGED <<vars, schemaVer>>

\* A call fails, or the process dies: the transaction is rolled back.
StartFails(p) ==
  /\ startPc[p] \in {"check", "create"}
  /\ Fault
  /\ Goes(p, "down")
  /\ executed' = [executed EXCEPT ![p] = 0]
  /\ UNCHANGED <<syncVars, schemaVer, fileVars>>

InitSchema(p) ==
  \/ ExistingTables(p) \/ CheckSchema(p)
  \/ CreateTables(p) \/ TableExists(p) \/ CommitTables(p)

-----------------------------------------------------------------------------
(* The processes *)

ServerSyncs == BeginSync \/ SyncStep \/ CommitFails

ServerDies ==
  /\ startPc[Server] = "up"
  /\ Crash
  /\ Goes(Server, "down")
  /\ UNCHANGED <<schemaVer, fileVars, executed>>

FileNext ==
  \/ (\E p \in Paths : Appear(p) \/ Vanish(p)) /\ UNCHANGED startVars
  \/ startPc[Server] = "up" /\ ServerSyncs /\ UNCHANGED startVars
  \/ ServerDies
  \/ \E p \in Processes : InitSchema(p) \/ StartFails(p)

\* A process that has begun to start goes on, the server is started again whenever it is
\* down, and is asked to index again and again.
FileSpec ==
  /\ FileInit
  /\ [][FileNext]_allVars
  /\ \A p \in Processes : WF_allVars(startPc[p] # "down" /\ InitSchema(p))
  /\ WF_allVars(InitSchema(Server))
  /\ WF_allVars(startPc[Server] = "up" /\ BeginSync /\ UNCHANGED startVars)
  /\ WF_allVars(startPc[Server] = "up" /\ SyncStep /\ UNCHANGED startVars)

-----------------------------------------------------------------------------
\* A process that has started has found, or made, all tables of its own version, and
\* they stay what they are as long as it runs: two processes that start on the same new
\* file, one of which may die half way, do not mix their tables (sqlite.go:76-104).
RunsOnOwnSchema ==
  \A p \in Processes : startPc[p] = "up" => tables = AllTables /\ version = schemaVer[p]

\* A server that is started again and again starts in the end, unless another version
\* of the program has made the file its own; nothing that a failed start or a process
\* that died has left stands in its way.
ServerStarts ==
  <>(startPc[Server] = "up" \/ version \notin {NoVersion, schemaVer[Server]})
=============================================================================
