------------------------------- MODULE Async -------------------------------
(***************************************************************************)
(* The task runner of the index service (internal/index/async.go:24-138):  *)
(* TryNow, called by the request handlers IndexAll and IndexIDs            *)
(* (internal/index/service.go:41-79), the goroutine workLoop that runs one *)
(* task at a time, the goroutine that closes the channels when workLoop    *)
(* ends, and an owner that calls Close and Wait.  tokenCh and taskCh have  *)
(* one slot each.                                                          *)
(***************************************************************************)
EXTENDS Naturals, Sequences, FiniteSets

CONSTANTS
  Calls,      \* requests; each one calls TryNow once
  Waiters,    \* those of them that wait for the task's error (IndexIDs)
  None,       \* no task
  MayClose,   \* the owner may call Close, then Wait
  MayCancel   \* the context given to NewAsync may be cancelled

ASSUME AsyncAssumption ==
  /\ Waiters \subseteq Calls
  /\ None \notin Calls
  /\ MayClose \in BOOLEAN
  /\ MayCancel \in BOOLEAN

VARIABLES
  callPc,         \* per request: "new", "sending", "waiting", "returned",
                  \* "refused" or "panicked"
  errCh,          \* per request, its task's ErrCh: "none", or closed after
                  \* "nil" or "err"
  token,          \* how many tokens tokenCh holds
  taskCh,         \* the tasks in taskCh, named by their requests
  workerPc,       \* workLoop: "select", "got", "run", "ended", "release",
                  \* "exited"
  cur,            \* workLoop's task
  status,         \* the field status: "ready" or the name of the task, "busy"
  doneClosed, ctxDone,
  closerPc,       \* the closing goroutine: "wait", "token", "task", "monitor",
                  \* "done": what it closes next
  ownerPc,        \* "open", "closed" (Close has returned), "waited"
  crashed         \* a panic outside of a request handler ended the process

callVars == <<callPc, errCh>>
chanVars == <<token, taskCh>>
workVars == <<workerPc, cur, status>>
stopVars == <<doneClosed, ctxDone, closerPc, ownerPc, crashed>>
vars == <<callVars, chanVars, workVars, stopVars>>

tokenClosed == closerPc \in {"task", "monitor", "done"}
taskClosed == closerPc \in {"monitor", "done"}
monitorClosed == closerPc = "done"

Init ==
  /\ callPc = [c \in Calls |-> "new"]
  /\ errCh = [c \in Calls |-> "none"]
  /\ token = 0
  /\ taskCh = <<>>
  /\ workerPc = "select"
  /\ cur = None
  /\ status = "ready"
  /\ doneClosed = FALSE
  /\ ctxDone = FALSE
  /\ closerPc = "wait"
  /\ ownerPc = "open"
  /\ crashed = FALSE

-----------------------------------------------------------------------------
(* Slips that the code avoids, each a variant of one definition below: they *)
(* take no part in the specification.                                       *)

\* workLoop gives the token back when it receives the task.
ReceiveTaskAndToken ==
  /\ workerPc = "select"
  /\ taskCh # <<>>
  /\ cur' = Head(taskCh)
  /\ taskCh' = <<>>
  /\ token' = 0
  /\ workerPc' = "got"
  /\ UNCHANGED <<callVars, status, stopVars>>

\* The task panics and nothing recovers: workLoop is gone.
TaskEndsUnrecovered(err) ==
  /\ workerPc = "run"
  /\ errCh' = IF err = "nil" THEN [errCh EXCEPT ![cur] = err] ELSE errCh
  /\ workerPc' = "ended"
  /\ UNCHANGED <<callPc, chanVars, cur, status, stopVars>>

\* workLoop ends after its first task.
ReleaseTokenAndExit ==
  /\ workerPc = "release"
  /\ token = 1
  /\ token' = 0
  /\ workerPc' = "exited"
  /\ UNCHANGED <<callVars, taskCh, cur, status, stopVars>>

\* The channels are closed as soon as done is, by a goroutine of its own.
CloseChannelsOnDone ==
  /\ doneClosed
  /\ ~crashed
  /\ \/ closerPc = "wait" /\ closerPc' = "token"
     \/ closerPc = "token" /\ closerPc' = "task"
     \/ closerPc = "task" /\ closerPc' = "monitor"
     \/ closerPc = "monitor" /\ closerPc' = "done"
  /\ UNCHANGED <<callVars, chanVars, workVars, doneClosed, ctxDone, ownerPc, crashed>>

\* The select of workLoop has no case for done.
SeeDoneForgotten == FALSE

-----------------------------------------------------------------------------
(* TryNow, in a request handler *)

\* The select sends the token: the request has the right to queue its task.
TakeToken(c) ==
  /\ callPc[c] = "new"
  /\ ~tokenClosed
  /\ token = 0
  /\ token' = 1
  /\ callPc' = [callPc EXCEPT ![c] = "sending"]
  /\ UNCHANGED <<errCh, taskCh, workVars, stopVars>>

\* The default case: "an indexing task is already running".
Refuse(c) ==
  /\ callPc[c] = "new"
  /\ ~tokenClosed
  /\ token = 1
  /\ callPc' = [callPc EXCEPT ![c] = "refused"]
  /\ UNCHANGED <<errCh, chanVars, workVars, stopVars>>

\* taskCh <- task; IndexAll returns, IndexIDs waits for the error.
SendTask(c) ==
  /\ callPc[c] = "sending"
  /\ ~taskClosed
  /\ taskCh = <<>>
  /\ taskCh' = <<c>>
  /\ callPc' = [callPc EXCEPT ![c] = IF c \in Waiters THEN "waiting" ELSE "returned"]
  /\ UNCHANGED <<errCh, token, workVars, stopVars>>

\* A send on a closed channel panics; the HTTP server recovers and the request
\* ends.
SendOnClosed(c) ==
  /\ \/ callPc[c] = "new" /\ tokenClosed
     \/ callPc[c] = "sending" /\ taskClosed
  /\ callPc' = [callPc EXCEPT ![c] = "panicked"]
  /\ UNCHANGED <<errCh, chanVars, workVars, stopVars>>

\* IndexIDs: err := <-taskErr
ReceiveErr(c) ==
  /\ callPc[c] = "waiting"
  /\ errCh[c] # "none"
  /\ callPc' = [callPc EXCEPT ![c] = "returned"]
  /\ UNCHANGED <<errCh, chanVars, workVars, stopVars>>

CallStep(c) ==
  TakeToken(c) \/ Refuse(c) \/ SendTask(c) \/ SendOnClosed(c) \/ ReceiveErr(c)

-----------------------------------------------------------------------------
(* workLoop *)

ReceiveTask ==
  /\ workerPc = "select"
  /\ taskCh # <<>>
  /\ cur' = Head(taskCh)
  /\ taskCh' = <<>>
  /\ workerPc' = "got"
  /\ UNCHANGED <<callVars, token, status, stopVars>>

SetBusy ==
  /\ workerPc = "got"
  /\ status' = "busy"
  /\ workerPc' = "run"
  /\ UNCHANGED <<callVars, chanVars, cur, stopVars>>

\* task.run: Fn returns or panics, which is recovered; its error is sent and
\* the channel closed.
TaskEnds(err) ==
  /\ workerPc = "run"
  /\ errCh' = [errCh EXCEPT ![cur] = err]
  /\ workerPc' = "ended"
  /\ UNCHANGED <<callPc, chanVars, cur, status, stopVars>>

SetReady ==
  /\ workerPc = "ended"
  /\ status' = "ready"
  /\ workerPc' = "release"
  /\ UNCHANGED <<callVars, chanVars, cur, stopVars>>

ReleaseToken ==
  /\ workerPc = "release"
  /\ token = 1
  /\ token' = 0
  /\ workerPc' = "select"
  /\ UNCHANGED <<callVars, taskCh, cur, status, stopVars>>

\* The select picks at random: a task that is queued may be left behind.
SeeDone ==
  /\ workerPc = "select"
  /\ doneClosed
  /\ workerPc' = "exited"
  /\ UNCHANGED <<callVars, chanVars, cur, status, stopVars>>

\* close(sch.done) panics when Close has been called: nothing recovers it.
SeeCancel ==
  /\ workerPc = "select"
  /\ ctxDone
  /\ workerPc' = "exited"
  /\ doneClosed' = TRUE
  /\ crashed' = doneClosed
  /\ UNCHANGED <<callVars, chanVars, cur, status, ctxDone, closerPc, ownerPc>>

WorkerStep ==
  \/ ReceiveTask
  \/ SetBusy
  \/ \E err \in {"nil", "err"} : TaskEnds(err)
  \/ SetReady
  \/ ReleaseToken
  \/ SeeDone
  \/ SeeCancel

-----------------------------------------------------------------------------
(* Shutdown *)

\* The goroutine that waits for workLoop, then closes tokenCh, taskCh and the
\* monitor.
CloseChannels ==
  /\ workerPc = "exited"
  /\ \/ closerPc = "wait" /\ closerPc' = "token"
     \/ closerPc = "token" /\ closerPc' = "task"
     \/ closerPc = "task" /\ closerPc' = "monitor"
     \/ closerPc = "monitor" /\ closerPc' = "done"
  /\ UNCHANGED <<callVars, chanVars, workVars, doneClosed, ctxDone, ownerPc, crashed>>

Cancel ==
  /\ MayCancel
  /\ ~ctxDone
  /\ ctxDone' = TRUE
  /\ UNCHANGED <<callVars, chanVars, workVars, doneClosed, closerPc, ownerPc, crashed>>

\* Close: close(sch.done), which panics when workLoop has closed it.
Close ==
  /\ MayClose
  /\ ownerPc = "open"
  /\ ownerPc' = "closed"
  /\ doneClosed' = TRUE
  /\ crashed' = doneClosed
  /\ UNCHANGED <<callVars, chanVars, workVars, ctxDone, closerPc>>

Wait ==
  /\ ownerPc = "closed"
  /\ doneClosed
  /\ ownerPc' = "waited"
  /\ UNCHANGED <<callVars, chanVars, workVars, doneClosed, ctxDone, closerPc, crashed>>

-----------------------------------------------------------------------------
\* Nothing is asked of the service any more, or the process is gone.
Idle ==
  /\ crashed \/ \A c \in Calls : callPc[c] # "new"
  /\ UNCHANGED vars

Step ==
  \/ \E c \in Calls : CallStep(c)
  \/ WorkerStep
  \/ CloseChannels
  \/ Cancel
  \/ Close
  \/ Wait

Next == (~crashed /\ Step) \/ Idle

Spec == Init /\ [][Next]_vars

\* Every goroutine that can run runs, and a task's function ends.  Nobody has to
\* make requests, to cancel or to call Close.
Fairness ==
  /\ \A c \in Calls :
       WF_vars(~crashed /\ (SendTask(c) \/ SendOnClosed(c) \/ ReceiveErr(c)))
  /\ WF_vars(~crashed /\ WorkerStep)
  /\ WF_vars(~crashed /\ CloseChannels)

FairSpec == Spec /\ Fairness

-----------------------------------------------------------------------------
Accepted == {c \in Calls : callPc[c] \in {"sending", "waiting", "returned"}}
Unfinished == {c \in Accepted : errCh[c] = "none"}
Working == workerPc \in {"got", "run", "ended", "release"}

TypeOK ==
  /\ callPc \in [Calls -> {"new", "sending", "waiting", "returned", "refused",
                           "panicked"}]
  /\ errCh \in [Calls -> {"none", "nil", "err"}]
  /\ token \in {0, 1}
  /\ taskCh = <<>> \/ \E c \in Calls : taskCh = <<c>>
  /\ workerPc \in {"select", "got", "run", "ended", "release", "exited"}
  /\ cur \in Calls \cup {None}
  /\ status \in {"ready", "busy"}
  /\ doneClosed \in BOOLEAN
  /\ ctxDone \in BOOLEAN
  /\ closerPc \in {"wait", "token", "task", "monitor", "done"}
  /\ ownerPc \in {"open", "closed", "waited"}
  /\ crashed \in BOOLEAN

\* One indexing task at a time: two requests never both have a task that was
\* accepted and has not ended (async.go:57-100).  So the one that has the token finds
\* room in taskCh, and TryNow does not block: "IndexAll returns immediately" (index.proto:17).
OneTask ==
  /\ \A c, d \in Unfinished : c = d
  /\ \A c \in Calls : callPc[c] = "sending" => taskCh = <<>>

\* What makes OneTask inductive, where the token is: the one holder is a request about to send its task, the
\* task in taskCh, or workLoop.
TokenHeld ==
  /\ \A c \in Calls : callPc[c] = "sending" =>
       token = 1 /\ taskCh = <<>> /\ ~Working /\ errCh[c] = "none"
  /\ \A c \in Calls : errCh[c] # "none" => callPc[c] \in {"waiting", "returned"}
  /\ \A c, d \in Calls : callPc[c] = "sending" /\ callPc[d] = "sending" => c = d
  /\ \A c \in Calls : taskCh = <<c>> =>
       token = 1 /\ ~Working /\ c \in Unfinished /\ callPc[c] # "sending"
  /\ Working => token = 1 /\ taskCh = <<>> /\ cur \in Calls
  /\ workerPc \in {"got", "run"} => cur \in Unfinished
  /\ \A c \in Unfinished :
       \/ callPc[c] = "sending"
       \/ taskCh = <<c>>
       \/ workerPc \in {"got", "run"} /\ cur = c

IInv == TypeOK /\ TokenHeld

\* Shutdown waits for the running task: as long as it runs, the channels are
\* open and the monitor it writes its log to is, too (async.go:47-52).
OpenWhileRunning == Working => closerPc = "wait"

\* Until Close or a cancelled context no request panics on a closed channel, and
\* the process dies of shutdown only when both come together (async.go:63-100).
FailsOnlyAtShutdown ==
  /\ (\E c \in Calls : callPc[c] = "panicked") => doneClosed
  /\ crashed => ctxDone /\ ownerPc # "open"

\* Every accepted task runs and its error is reported, also of a task that
\* panics: "channel is closed during task run()" (async.go:94).  A shutdown may
\* leave the task in the queue: then the error never comes.
AcceptedIsReported ==
  \A c \in Calls : callPc[c] = "sending" ~> errCh[c] # "none" \/ doneClosed

\* Shutdown comes to its end: the channels and the monitor are closed.
ShutdownEnds == doneClosed ~> crashed \/ monitorClosed
=============================================================================
