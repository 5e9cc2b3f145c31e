# ocfl-index: specification and verification

This directory holds TLA+ modules that model the core of ocfl-index, the TLC configurations that
check them on small instances, and TLAPS proofs of their main safety properties for every size.
Every definition is translated from the Go and SQL sources; `PROJECT.json` (`map`) names the lines.

## 1. The system

ocfl-index keeps an SQLite index of an OCFL storage root and serves it over HTTP/gRPC.

| part | state | operations | interacts with |
|---|---|---|---|
| service (`internal/index/service.go`) | none of its own | `IndexAll`, `IndexIDs`, `GetStatus`, `ListObjects`, `GetObject`, `GetObjectState`, `FollowLogs`, download | calls `TryNow`, `MonitorOn`, the index |
| task runner (`async.go`, `Async`) | `status`, `tokenCh`, `taskCh`, `done` | `TryNow`, `Close`, `Wait`, goroutine `workLoop` | runs one task; writes its log to the monitor; closes the monitor |
| log monitor (`async.go`, `monitor`) | `sessions`, `msgCh`, `sessInitCh`, `sessFreeCh`, `done` | `Write`, `Handle`, `Close`, goroutine `runLoop` | tasks write, one goroutine per `FollowLogs` request reads |
| indexer, first phase (`indexer.go`, `syncObjectRoots`) | a transaction, `startSync`, `found` | scan, commit every 1000 rows, remove stale rows | storage root, index |
| indexer, second phase (`indexInventories`) | `txCh`, `numObjs` | three callbacks of a pipeline, final commit | `pipeline.Run`, storage root, index |
| pipeline (`internal/pipeline`) | `workQ`, `resultQ`, `term`, `setupErr` | `Run` | callbacks of the indexer |
| index (`internal/sqlite`) | tables of object roots, inventories, versions, nodes, names, content paths | upserts, lookups, lists, `NewTx`, `Commit`, `Rollback` | SQLite |
| start (`cmd/ocfl-index`, `sqlite.InitSchema`) | the tables and their version in the file | `InitSchema`, `GetSchemaVersion` | other processes that use the file |
| path trees (`internal/pathtree`, `internal/index/pathtree.go`) | a tree of nodes and pointers | `Set`, `SetFile`, `MkdirAll`, `Get`, `Remove`, `Rename`, `Copy`, `RemoveEmptyDirs`, digests of directories | index writer |
| `ox export` (`cmd/ox/cmd/export`) and the download handler | the destination directory, one file at a time | list, check or make the directory, request, copy | service, storage root, whoever else uses the directory |
| other clients (`cmd/ox`) | none | `ls`, `status`, `reindex` | service |

What is hard: goroutines that pass a transaction and results through channels and stop early on an
error; the deferred functions that then run; a task runner that is shut down while requests come in;
sessions that break while messages are sent to them; a storage root that changes during a scan; batches
that are committed before a failure or a crash; processes that start on one new file; trees whose nodes
callers hold by pointer; downloads that break off, from an index that is behind. `PROJECT.json` (`hazards`) lists each at its line.

What makes each part correct: the pipeline delivers each accepted job once and stops after an error;
the task runner runs one task at a time, never blocks a request and reports every task; the monitor
delivers messages in order, frees its sessions and does not keep the task from working as long as clients read; a sync neither
removes what is there nor keeps what is gone; a run over the inventories that reports no error leaves
the index as the storage root is, whatever an earlier run left; a process runs on tables of its own version;
a path tree is a map from paths, and a directory's digest stands for one tree; an export without an error has
the files of the version and nothing else, and does not write over other people's.

## 2. Modules

```
            FanOut                        ObjectRootSync         Monitor
              ^ implements                (phase 1 of IndexAll)    ^ written to, and closed,
   Pipeline --+                             ^ EXTENDS              | by the task runner
     ^ EXTENDS                            IndexFile              Async
   InventoryIndexing                      (starts and deaths of
   (phase 2 of IndexAll, IndexIDs)         the processes)        Paging   (lists, read meanwhile)
                                                                 Export   (lists and downloads)
            PathMap                       Backend  (an index, as its users see it)
              ^ implements                  ^ implements
   PathTree --+                           IndexStore  (the tables that both phases write)
     ^ EXTENDS
   VersionTree (digests that IndexStore takes for trees)
```

`MC<Module>` gives the sets their symmetry or their content and is what TLC runs; `<Module>Proofs`
holds the theorems. `InventoryIndexing` is a composition in the strict sense: it extends `Pipeline`,
uses the steps of `Pipeline` as they are, and conjoins to each one what the callback of `indexer.go`
does at that point. The others are connected by assumption and guarantee: `Async!OpenWhileRunning`
(the monitor is not closed while a task runs) is what `Monitor` uses to leave out the case of `Write`
on a closed monitor, `VersionTree!DigestsIdentify` is what lets `IndexStore` give a tree the name of its digest, `FanOut` is what `indexInventories` relies on, and `Backend`, which `IndexStore` implements, has what
the two phases take for granted: `ObjectRootSync` keeps its set of roots with their stamps, `InventoryIndexing`
its objects, one for a root.

| module | code | state | actions |
|---|---|---|---|
| `FanOut` | the contract of `pipeline.Run` | jobs accepted, jobs handled, status | `Accept`, `Handle`, `CallReturns`, `ReturnAll`, `ReturnFailed` |
| `Pipeline` | `pipeline.go` | the goroutine of setup (`setupPc`, `next`), workers (`workerPc`, `job`), `resultQ`, `setupErr`, `term`, the caller (`mainPc`, `resultErr`) | a send on `workQ` (no buffer) is one step with its receipt, `AddWork`; each other receive, send, close and return is a step |
| `Async` | `async.go:24-138`, `service.go:41-79` | `token` for `tokenCh`, `taskCh`, `errCh` per request, `workerPc` and `status` of `workLoop`, who has closed what | `TakeToken`, `Refuse`, `SendTask`, `ReceiveTask`, `SetBusy`, `TaskEnds`, `SetReady`, `ReleaseToken`, `SeeDone`, `SeeCancel`, `CloseChannels`, `Close`, `Wait`, ... |
| `Monitor` | `async.go:140-280` | per request the phase of `Handle`, its `monErrCh` and what its stream has; `sessions`; `runLoop` with its message and the sessions it has still to go to; `msgCh` | `Write`; `InitSession` and `FreeSession` are sends on channels without buffer, one step with `runLoop`; `NextSession` picks the stream that `runLoop` sends to, and `Send`, `SendFails`, `SendErr` are what comes of it; clients: `End`, `Break`, `Stall` |
| `ObjectRootSync` | `indexer.go:56-119` | committed rows as a function from paths to stamps, the transaction's view, the scan's progress, the storage root | `BeginSync`, `Pass`, `Index`, `EndScan`, `RemoveObjectsBefore`, failures, `Crash`; `Appear` and `Vanish` by others |
| `IndexFile` | `sqlite.go:76-104`, `407-424`, `server.go`, `index.go` of `ocfl-index` | besides `ObjectRootSync`: how many statements of `schema.sql` are committed, and the version in the row; per process its version, how far it has started, and what its open transaction has executed | `ExistingTables`, `CheckSchema`, `CreateTables` (one statement), `TableExists`, `CommitTables`, `StartFails`, `ServerDies` |
| `InventoryIndexing` | `indexer.go:121-288` | besides `Pipeline`: the inventory per path in the storage root, in the index and in the transaction; who holds the transaction and whether it is open, done or nil | the setup function's pages, the work function's query and validation, the result function's write, commit and hand-back, the caller's last commit and deferred close |
| `Paging` | `sqlite.go:163-205`, `283-392`, `cmd/ox`: `root.go:119-176`, `ls.go`, `export.go:113-144` | the part of the index a list reads, the request, the page the client has and what it has not come to, the cursor, what it has listed | `FetchPage`, `ReturnItem`, `ReturnEOF` (the iterator), `GetNodeByPath`, `GetChildren`, `ChildrenFail` (the two queries of `GetObjectState`), `TakePage`, `ChangeObjects`, `ChangeVersions` |
| `IndexStore` | `internal/sqlite/tx.go`, `sqlite.go`, `schema.sql`, `sqlc_queries.sql` | the tables as sets of rows: `db` committed, `work` as the transaction sees it; the statement that `IndexObjectInventory` has come to | one per operation of `BackendTx`; `IndexObjectInventory` runs statement by statement (inventory row, nodes of one version, one child, version row, content rows), and `Rollback` may come between any two |
| `ObjectVersions` | the comparison of `insertVersion` in `tx.go` | none: what a version is to the index, when a version that is given again agrees with the one that is there (`Agrees`), and the versions an inventory adds (`WithNew`); extended by `IndexStore` and `Backend` | |
| `Backend` | the interfaces of `internal/index/backend.go` | what readers and what the transaction get: roots, objects at roots, versions and content of each object; whether a call is under way | `NewTx`, `Commit`, `Rollback`, `IndexObjectRoot`, `RemoveObjectsBefore`, `IndexObjectInventory` with `IndexReturns`, `IndexFails` |
| `PathMap` | the promises of `pathtree.go`'s comments | the tree, as a function from its paths, and another one that the caller has | `Set`, `MkdirAll`, `Get`, `Remove`, `Rename`, `Copy`, `RemoveEmptyDirs`, `SetInSub`, `Drop`, and `RenameBelowFile`, which no comment promises: the program panics and the node is gone |
| `PathTree` | `pathtree.go` | the heap (`node`, `kids`), the two nodes the caller has, the result of the last call | the same calls, as they walk and change pointers; errors and panics are results. `Copy` is stated by what the walk with `Set` gives: a node of its own for each node walked over. Which pointer a node has makes no difference, so the run identifies heaps that differ in that only (`View` of `MCPathTree`) |
| `VersionTree` | `internal/index/pathtree.go:55-76` | none of its own | the digest of each node of `PathTree`'s trees, as a recursive function, from the text that is hashed: the lines of its children in the order of their names, one after the other. A name is a sequence of characters, and a line ends where the next newline is |
| `Export` | `export.go`, `service.go:150-177` | the destination and what its files hold part by part, the phase of the command, the file in hand and the root it is read from; the storage root and the content paths of the index | `Cancel`, `Stat`, `List`, `Check`, `Create`, `GetContentPath`, `OpenFile`, `CopyRest`, `Fail`, `Done`, `Again`; others: `MakeDst`, `MakeFile`, `RemoveDst`, `ChangeContent`, `IndexAll` |

How the code is cut: a step is what one goroutine does between two operations that another goroutine
can observe (channel operation, database call, shared field). `select` with several ready cases is a
choice between actions. Errors of calls into libraries (storage root, SQLite) are nondeterministic and,
where they would make runs endless, counted against `MaxFaults`.

The mutants of `PROJECT.json` are written as definitions in the section "Slips that the code avoids" of
each module. They take no part in the specification; each is the form a definition has with a plausible
mistake (a missing `break`, `<=` for `<`, local time for UTC, a token that is not given back, ...).

## 3. Runs

| run | instance | what it shows |
|---|---|---|
| `pipeline` | 6 jobs, 2 workers, any error | `NothingLost` (a job is in one place), `NoSendOnClosed`, `RunReturns`, and that `Run` implements `FanOut`. Six jobs are two more than two workers and a queue of two can hold, so that workers block on `resultQ`, setup blocks on `workQ`, and both are released by `term` |
| `async` | 3 requests, 2 of them waiting, close and cancel at any time | one task at a time, `TryNow` never blocks, an accepted task is reported unless a shutdown has begun, the channels and the monitor are closed after the task and not before. Three requests are one that runs, one that is queued or refused, and one more |
| `monitor` | 3 requests, 2 sessions, buffer 1, 3 messages; one client may leave, lose its connection or stop to read, the two others stay (`Steady`); close | sessions are freed, messages arrive in order and at each session that is there, no panic before the close; until `runLoop` sends to a connection that has failed or that nobody reads, no task and no request blocks for good. Two sessions for three requests are open together and reach the limit; with one message in the hands of `runLoop` and one in the full channel, the third makes `Write` wait. The safety properties are proved for any number of requests, all of which may fail |
| `monitor_stuck` | 1 request, 2 messages, no close | finding 1 below |
| `sync` | a server and another process of the same or of another version on a new file; 3 roots, batches of 2, one failed call or death, clock up to 3 | `RunsOnOwnSchema` and `ServerStarts` of the start, `LiveRootKept`, `SyncedRows`, `StaleRemovedUnlessLocked` of the server's syncs. Three roots in batches of two give a full batch and an odd one; stamps are compared with the start only, so before, at and after are enough, and syncs are renumbered so that any number of them follow one another. Two processes meet at each statement of the start; the one failure may hit either of them, or the sync |
| `sync_leak` | `ObjectRootSync` alone, clock up to 2 | finding 2 |
| `inventories` | 2 paths, 2 inventories, pages of 1, a commit after each inventory or after both, one event: a failed call or a rewritten object | `IndexedMatches` from any earlier index, `NothingLeftBehind`, `CrashOnlyAfterError`, `NoIndexingAfterError`, and `RunEnds`, whichever call fails: the transaction is put back into `txCh` on each path on which somebody waits for it. Two workers may hold the queries of two paths while `index` writes a third state |
| `inventories_crash` | `IndexIDs`, no event, an inventory that does not validate | finding 3 |
| `store` | 2 paths, objects A (an inventory, one that extends it, and the first one again, rewritten: another time within the second, and no user) and B, the root of which is one node with a directory of A; connections with and without foreign keys; 2 row ids | `TreesComplete`, `VersionsMatch`, `ContentServed`, `ServedWhereIndexed` through every sequence of indexing, moves, removals and rollbacks, and `ImplementsBackend`: each statement is a step of `Backend` or a stutter, unless it is one after a removal that orphaned an inventory, or of a call for an object whose inventory was replaced by one that does not extend it. `Backend` has no row ids, no nodes and no order of statements: that an id is given again, that two objects share a directory, or that a call was given up half way, shows nowhere. Two row ids are as many as there are paths, so ids are given again after a removal; a path tree of depth two has a known node below a new one |
| `paging` | 4 objects, or 3 versions of one object with up to 5 names; two rows fit in a page (`MaxLimit` stands for 1000); `page_size` from -2 to 3; two changes of the index (any set of objects, any newer version or none) and one failed query | `ListedInOrder`, `ObjectsComplete`, `StateComplete`, `ListingEnds`. Four rows fill two pages exactly and five leave one over; three versions let the newest one change twice |
| `pathtree` | 2 names without a newline, paths of up to 2 names, 6 nodes at a time, 2 files of which one has the listing of a directory as its content | `TreeShape`, `DigestsIdentify`, and that the heap implements `PathMap`, for every sequence of calls. Six nodes are one less than the largest tree of that depth and leave room for a second tree; a file in the way, a file below a directory that is moved, a move into oneself and the replacement of a directory by its own part all happen at depth two |
| `export` | 2 files with different digests, 2 roots that have both, 3 changes by others (of the directory or the storage root), any call failing, any number of exports and of index runs | `ExportedWhole`, `NothingOverwritten`. Two roots let the index name one that has changed while the other has not; three changes are enough to take the directory away, make it again and fill it |

Bounds. `NumJobs`, `NumMsgs`, `MaxTime`, `MaxFaults`, `MaxEvents` (failed calls and rewritten objects
together), `MaxChanges`, `MaxId`, `Depth` and `MaxNode` are bounds of the models and
not of the code; each is a guard named in its module. `TxCap`, `PageSize`, `MaxSessions`, `MsgBuf`
are constants of the code (`txCapObjRoot` = 1000, `txCapInv` = 10, `monMaxSessions` = `monMsgBuffLen` = 64, the
page size of the list) at small values.

Symmetry is used only where no liveness property is checked: paths in `store`, roots in `export`. `pathtree` compares states
by the trees they have and not by the pointers in them (`VIEW`), which is what its properties are about. In
`inventories`, which checks one, the initial states are one of each orbit instead (`MCInit`).

Deadlock is checked in all runs but the monitor's: there, a server without messages and requests is at
rest (`runLoop` waits in its `select`), which TLC would report. Modules whose process ends have an explicit
step for it (`Returned`, `Ended`, `Idle`), which applies in that state only; a deadlock elsewhere is found.

Fairness. Each goroutine is scheduled (`WF` on its steps). `runLoop` waits at a `select` over several
channels: Go picks among the ready cases at random, so a case that is ready again and again is taken
(`SF` on the session cases, on `ReceiveMsg` and `Exit`). `Send` returns on a connection that is up, in any finite time;
one to a client that does not read (`Stall`) never does, and the three liveness properties say what holds until `runLoop`
meets one. Nothing is assumed of requests, connections, `Close` or cancelled contexts. In `Async`, a task is assumed to return. In `ObjectRootSync` and `IndexFile`, `IndexAll` is
called again and again, and its calls return; a server that is down is started again, as a supervisor
does, and any process that has begun to start goes on; the properties of what a single sync does are safety
properties and do not need it. In `InventoryIndexing`, some goroutine that can go on goes on, and callbacks
return: one `WF` over all of them is enough because a run has finitely many steps. In `Paging`, the client goes on and is answered.

## 4. Findings

1. `monitor_stuck`: when two messages fail on a session whose context ends, `runLoop` waits for room
   in `monErrCh` and `Handle` for `runLoop` to take `sessFreeCh`; with `msgCh` full, the indexing task
   waits as well (`async.go:221-223`, `253`).
2. `sync_leak`: `defer tx.Rollback()` has bound the first transaction; if a later batch fails, its
   transaction stays open with the write lock, and no later sync can write (`indexer.go:85`, `101`).
3. `inventories_crash`: `IndexIDs` with an object that does not validate returns while workers are left
   behind; one that takes from the closed `txCh` gets nil and ends the process (`indexer.go:140`, `173-175`).

Read in the code and visible in the models, with no run of their own:
- `Wait` is documented to block until the task runner is shut down (`async.go:86`); it returns as soon as
  `Close` has closed `done`, with a task still running (`Async!Wait` needs no more than `doneClosed`).
- `GetObjectState` drops an error of the children query, and of the iteration over its rows
  (`sqlite.go:333-335`, `377-391`): the answer looks like a last page, and `ox export` ends without an error and
  without the files that are missing. `StateComplete` excepts it (`cut`).
- without a version, each page is of the version that is the newest when it is asked for: `ox export` may
  write files of two versions. `StateComplete` says what holds (`read`).
- `page_size` -1 makes `GetObjectState` slice out of range (`sqlite.go:338-339`), other negative ones list
  everything in one page; `ListObjects` takes both for the default.
- closing `term` does not stop setup at once: the `select` of `addWork` may still choose `workQ`
  (`pipeline.go:62-69`); `FanOut!Accept` therefore allows it after a failure.
- a client of `FollowLogs` that stays connected and does not read keeps `runLoop` in `Send` (`async.go:252`; no write has a
  time limit, `server.go:90`): no other session gets a message, opens or closes, and when `msgCh` is full the task waits in
  `Write`. `Delivered`, `TaskGoesOn` and `ConnectedHandleReturns` hold until then (`AllReading`).
- a task accepted by `TryNow` is dropped if `workLoop` sees `done` first (`async.go:61-68`), and an
  `IndexIDs` that waits for it waits for ever: `AcceptedIsReported` makes an exception for a shutdown.
- a request may be refused although `status` is ready already: the token is given back after the status
  is set (`async.go:75-77`).
- `ServedWhereIndexed` and `ContentServed` have an exception for `orphaned`: pragmas are set over one
  connection of the pool (`sqlite.go:57-64`). A removal over another one leaves inventories without
  their root, and the root's id may be given to the next object root.
- `backend.go:61-62` promises that the inventory with the same id is replaced, and `Backend` says so: the object has the
  versions of the new one, each agreeing with it, and no others. In `tx.go` the row is replaced, but versions and content
  paths of the earlier one stay (`tx.go:121-140`), and an object with a shorter history than before is given with versions
  after its head. `VersionsMatch`, `ContentServed` and `ImplementsBackend` therefore except the rows that were overwritten
  by an inventory that does not extend the one before (`reduced`).
- a version that is indexed again agrees with the row that is there if its created time is in the same second and if it
  has no user, whatever the row has (`tx.go:179-189`): there is no error, and the old row stays and is served. This is
  `Agrees`; `VersionsMatch` and `Backend` promise no more of a version than that.
- a file of a manifest that is in none of the versions has a content path only if its node is there for another
  version or object (`insertContent` looks the node up by its digest): `ContentServed` is about the files of versions.
- `UpsertInventory` is called without `IndexedAt` (`tx.go:104-118`), and a second process (`ocfl-index index`) that began
  earlier may stamp rows with times before the start of the server's sync.
- `addAllObjectsPaths` does not look at what `add` says (`indexer.go:278`) and goes on reading pages after it was refused.
- a start that finds no tables because the list of them ended early fails with `table already exists`, and the
  next one succeeds (`ExistingTables`, `TableExists`).
- `MkdirAll` looks at the nodes on the way and not at the last one (`pathtree.go:152-170`): `Set` below a file
  panics with an assignment to a nil map. `Rename` has removed the node by then, and whoever recovers from the panic has
  a tree without it (`result` = "panic"; `PathMap!RenameBelowFile`). `Set(".")` makes the two nodes share one map.
- the text that a directory's digest is made from has names as they are (`internal/index/pathtree.go:68-72`): with a
  name that holds a newline, a directory of one file may have the text of a directory of two, and the
  index one node for both. `DigestsIdentify` excepts trees with such names (`PlainNames`), and
  `NewlineHides` proves that it has to.
- an error after the first byte of a download is appended to the file under status 200 (`service.go:174-177`), and
  `ox export` reports no error: `ExportedWhole` excepts it (`torn`). The client does not compare digests.
- after a failed export the directory is not empty, and the next one into it is refused (`Check`).
- the content path of a digest is any one of the rows (`LIMIT 1`): a download may fail at a root that is gone
  while another one has the content (`GetContentPath`).
- an object that takes the path of another one fails `UNIQUE(root_id)`, and one whose recorded versions have
  changed fails with `ErrIndexValue`; both stop every later `IndexAll` at that object (`pc = "failed"`).

Read in the code and outside of the models: `backend.go:54-56` says stamps are truncated to seconds, which
`tx.go:86-101` does not do; `GetObject` (`sqlite.go:208-221`) goes on after an error other than `ErrNoRows`; `GetObject` and `GetIndexSummary`
run several queries without a transaction, and the head version may be younger than the versions that come with
it; `ox` prints `V1Created` as the time of the head version (`root.go:160`); `getNodeChildrenAll` sets no `IsDir`;
`--skip-indexing` and `--inventories` have no effect (`server.go:47-51`); the program never calls `Async.Close`.

## 5. Proofs

All theorems hold for every value of the constants that satisfies the named `ASSUME`s of the modules.

| module | theorems | argument |
|---|---|---|
| `AsyncProofs` | `TokenInvariant`, `RunsOneTask`, `StopsInvariant`, `StaysOpenWhileRunning`, `FailsAtShutdownOnly` | `TokenHeld`: the one token is in `tokenCh`, with a request that is sending, with the task in `taskCh`, or with `workLoop`, and in one of them only. `Stops`: `done` was closed by `Close`, or by a `workLoop` that has seen its context end and is gone, and nothing else is closed before `workLoop` is gone |
| `MonitorProofs` | `MonitorInvariant`, `KeepsSessionsLive`, `SendsInOrder`, `PanicsOnlyAfterClose` | `Seats` (a session's `monErrCh` is open while its `Handle` goes on), `Handing` (no session comes or goes while a message is handed on, so `runLoop` sends to sessions only), `Streams` (`msgCh` has the newest messages, and a stream that works has got all before them): `InOrder` is not inductive without saying which message comes next for each session |
| `IndexFileProofs` | `StampInvariant`, `KeepsLiveRoots`, `SyncsRows` of `ObjectRootSync`; `StartsOnOwnSchema`, `FileStampInvariant`, `FileKeepsLiveRoots`, `FileSyncsRows` | `StampsOfSync`: during a scan each path is unvisited or, if it was there all the time, has a stamp not before `startSync` in the transaction's view. `OneCreator`: at most one process has executed statements, and the file has no tables as long as one has; so no process is up when tables are committed. For the syncs, each step of the file is a step of `ObjectRootSync` or spends a failed call only, and the invariant of `ObjectRootSync` does not depend on how many are left |
| `InventoryIndexingProofs`, first part: `Pipeline` | `RunInvariant`, `ResultsOnce`, `LosesNothing`, `ReturnsClean`, `NeverSendsOnClosed`, `StopsCalling`, `RunImplementsFanOut` | `IInv` = `TypeOK`, `NothingLost` (each job not yet handled is with one worker or in `resultQ`), `HeldOnce`, `QueuedOnce`, `Control` (who has closed what: `resultQ` only after all workers are done, workers only after `workQ` is closed). `CleanReturn` alone is not inductive: that nothing is left when the range over `resultQ` ends needs the position of every job and the order of the closes. Each step of `Run` is a step of `FanOut` or stutters |
| `InventoryIndexingProofs`, second part | `RunsPipeline`, `PhaseInvariant`, `CrashesOnlyAfterError`, `LeavesNothingBehind`, `StopsIndexing`, `MatchInvariant`, `IndexesWhatIsStored` | `RunsPipeline` (each step of `indexInventories` is a step of `Pipeline` or leaves its variables alone) carries the invariant of `Pipeline` over; `PhaseInv` adds what the caller's phase and the transaction's value say of errors. `IndexedMatches` speaks of the end of a run only: `MatchInv` follows each path from the page it is on to the job, the worker, `resultQ` and the index. What a job carries was read from the storage root in this run (`ParsedKnown`), a job that is handled has its inventory in the transaction, or had it there already when `prev` was read (`HandledWritten`) |
| `IndexStoreProofs` | `StoreInvariant`, `TreesStayComplete`, `ServeInvariant`, `ServesVersions`, `ServesContent`, `ServesAtItsPath`, `StoreImplementsBackend` | see below. `TreesComplete` is not inductive: inside a transaction a new directory has not yet its names. `TreeInv` says that what it lacks is among the pending calls, that no call adds a name that is not in the directory's digest, and that calls are gone before the transaction can commit. This is why it is sound to skip a node that exists |
| `ExportProofs` | `ExportInvariant`, `ExportsWhole`, `OverwritesNothing` | `Listed`, `Empty` (a directory that is not there has no files, and then others have taken them), `Parts` (files without an excuse that are copied are whole, those not listed are not there), `Current` (how much of the file in hand there is, and from which content), `Foreign` (once the directory was looked at, a file of others has them as its excuse) |
| `PagingProofs` | `PagingInvariant`, `ListsInOrder`, `ListsAllObjects`, `ListsWholeState` | what has come of a list is what is before the cursor: nothing after it, everything before it that stayed, and, of a version, exactly that. A page is the first rows after the cursor (`LIMIT` takes a prefix of the sorted rows), so the next cursor is before all that has not come. That the first `n` rows of a set exist and are a prefix of it is shown with a least counterexample, in place of an induction |
| `PathTreeProofs` | `TreeInvariant`, `NodesMakeTrees`, `DigestsIdentifyHolds`, `NewlineHides`, `NodesImplementPathMap`, `RemovedIsPutBack` | see below: `TreeInv` speaks of the links between nodes, where `TreeShape`, `DigestsIdentify` and `PathMap` speak of paths |

`IndexStore`: none of the three properties of its rows is inductive. `ServeInv` has the keys of `schema.sql`, by which
the object of a row is one, and adds three things. *Owners*: a version or
content row belongs to an inventory that is there (`RowsOwned`), and an inventory to a root (`AtRoots`). A new
id is above all ids in use and may be one that was used before; since removal takes the dependents along, the inventory that
gets it finds no rows of a stranger. *Takeovers*: an inventory that is indexed again finds the rows of the earlier one;
they are its own as far as it extends that one, and `reduced` records the rows for which it does not. *Progress*: all
inventories of the transaction but the one being indexed are served whole, and that one has the versions that are not in
`todo`; its id is in `row` until the call has returned, and a call that fails can only be rolled back.

`StoreImplementsBackend` excepts the transactions that have an inventory without its root (`orphaned`) and the calls for a
row that is `reduced`: over a connection that does not enforce foreign keys a removal leaves inventories behind, and the
rows of a longer history stay when a shorter one is indexed (both in section 4), so that the contract does not hold. The mapping (`Observed`) forgets ids, nodes and
names: versions and content are given per object. Of the statements of `IndexObjectInventory` two are visible, the
first (the object is at its root, and its versions are taken to be there) and the last (`IndexReturns`, the content); that the ones in between
are stutters is because a version row is written only where the number has none, and what it says was announced with the
call (`WithNewAbsorbs`). At the return `ServeInv` gives for each version of the inventory the one row that agrees with it. The
removal needs `AtRoots` (no object is gone but with its root), and `IndexReturns` needs `TreeInv`: the nodes of all files
of a version are there when its tree has been added, so that each gets its content path.

`PathTree` and `VersionTree`: `TreeShape` (each node of the caller's trees has one path, and so no way leads back to
it) is not inductive as it stands, since a call changes links and not paths. `TreeInv` is about the links: directories only
have children (`OnlyDirs`), children are nodes in use (`NoDangling`), no node is below itself (`NoCycle`), no node is the child
of two nodes or under two names of one (`OneParent`), the tree itself has no parent, and the second node the caller has is in
the tree or has no parent. Each call is a series of links, cuts and new nodes. A link is made only to a node that has no
parent and is not above the new one (`Rename` into oneself removes first, and what it then finds is another node), so no
cycle arises; `Copy` maps the nodes below its source one to one to free ones, and the links with them. From `TreeInv`, two
paths to one node are followed back along the only parents, and are one path (`NodesMakeTrees`).

What is below a node is the value of a recursive function (`Has`, by the number of links). With no induction theorem at hand,
what is true of it for every number is shown with a least counterexample: a set of numbers that has 0 and with each number the
next one has all of them (`UpTo`). By it `Has` is the least set that is closed under children, a path is followed step by step, and `MkdirAll`, a
recursive function as well, has its postcondition. `Sum` is well defined since there are fewer nodes below a child than below its
parent. `DigestsIdentifyHolds` then follows a path in two trees whose digests are equal: equal lines name equal children
with equal digests, so the path goes on in one tree where it does in the other, and ends at files of the same digest. The
lines are got back from the text: each line has one newline, its last character, when no name has one, so two texts that are
equal are equal line by line, from the end on (`SameLines`), and a line gives back digest, name and kind (`LineSame`), as no
name has a slash. `NewlineHides` is the other half: if the text of a name is that of a second one, then a newline,
a digest, a space and the text of a third, then the listing of the first alone is the listing of the other two.

`NodesImplementPathMap` (each call changes what its paths name and nothing else, or nothing at all, but for a `Rename` below a file, which panics
and loses what it has removed: `PanicIs`, `RemovedStays`) rests on `TreeInv` and on
`DepthInv`: no path below the caller's nodes is longer than `Depth`, so `Paths` leaves nothing of a tree out, and `Value` is
the whole tree (`TreeOf`). The argument goes in three layers. Sequences: a path is above another, or the two are
apart, or they part at one name (`Cat`, `Starts`). Links: what a path leads to after a link is made or cut. `SetAt` says of a call of
`Set`, and `RemovedAt` of `Remove`, where every path from the tree leads in the new heap; it follows from `NoCycle` and
`OneParent`, by which the node that is written is met on one path only. Trees: `SetAt`
is `PathMap!Graft`, `RemovedAt` is `PathMap!Prune`, and the caller's second node is either untouched or a part of the tree, and
then changes with it (`Stays`, `PathMap!Follows`). One lemma per call puts them together (`SetNewMap`, ..., `RenamePathMap`),
and that nodes out of reach are given free changes no tree (`ReturnsMap`). The assumption on `None` (the nil pointer is no
tree) tells a caller that has a second tree from one that has none.

`RemovedIsPutBack`: `Rename` panics on purpose if the new path is refused and the node it has removed cannot be set again
where it was (`pathtree.go:211-216`). It always can: what is above the old path is there and is a directory still, as `Remove` cuts one link and the failed `Set` leaves no
mark, and the removed node is not related to the tree any more (`PutBackIs`). TLC would report the panic as a deadlock of the run `pathtree`.

Only model-checked: everything temporal beyond `[][A]`, for fairness is out of the prover's reach.

## 6. Assumptions, and what is not modelled

- The wall clock does not step back and moves on between two syncs; there is no code that would defend
  against it.
- Inventories are valid, as the `ocfl` library has validated them before they are indexed (`indexer.go:184-191`): a manifest has
  every file of the versions (`StoreAssumption`).
- Digests have no collisions: a digest stands for the text or the content that was hashed. No name has a newline, so a
  directory's digest stands for its entries (`DigestsIdentify`); `IndexStore` rests on that, and what a name with a newline
  does to the index (section 4) is not in its model.
- SQLite gives serializable transactions, of which one writes at a time; commit is atomic.
- `GetStore` and the first `NewTx` of `indexInventories` fail before anything has happened: left out.
- `pipeline.Run` with nil functions or less than one goroutine (it takes the number of CPUs then) is left out:
  the indexer gives all three functions.
- File sizes are never given to the index by `IndexObjectInventory` (`tx.go:72`), so they are left out.
- Versions of an object are immutable, as OCFL has it, in `Paging`; that the index keeps them so is
  `VersionsMatch` and `TreesComplete` of `IndexStore`.
- Log messages, request validation and metrics are left out.

- A caller of `pathtree` follows a discipline that the index writer follows: it gives a node away when it sets
  it, and does not set a tree into itself (header of `PathTree`). What happens otherwise is a cycle of pointers.
- What the other process of `IndexFile` does after its start is left out, as is the environment it reads.
- In `Export`, a file is read in two parts, and a local write fails as a whole.

Not modelled: generated API code (conversion of messages, no state); the HTTP and gRPC layers, storage back ends
and flags; formatting and completion in the clients; `GetStatus` (it reads a string that `workLoop` writes, without
synchronisation), `GetObject` and `GetIndexSummary` (several reads whose answers nothing compares); `Node.Len` and
`Node.Map` (they change nothing, and `Map` is called by its test only); `dirSizes` (its result is never set, since no
caller gives sizes).

## 7. Plan

Done, in this order: `FanOut`/`Pipeline`, `Async`, `Monitor`, `ObjectRootSync`, `InventoryIndexing`, `IndexStore`, where
goroutines and transactions meet; `Paging`; `PathMap`/`PathTree`/`VersionTree`; `IndexFile`; `Export`; with the proofs above.

Then `Backend`, and the proofs of all safety properties of `IndexStore`, `InventoryIndexing`, `Paging`, `PathTree` and
`VersionTree`, and of the refinements of `FanOut`, `Backend` and `PathMap`.

Left: a composition of `InventoryIndexing` with `Backend` in place of its function from paths to inventories. Liveness
stays with TLC.
