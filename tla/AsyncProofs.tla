---------------------------- MODULE AsyncProofs ----------------------------
(***************************************************************************)
(* Proofs about Async, for every set of requests and with or without Close *)
(* and cancellation: one task at a time, and TryNow never blocks.  The     *)
(* inductive invariant IInv says who has the token.                        *)
(***************************************************************************)
EXTENDS Async, TLAPS

LEMMA InitIInv == Init => IInv
<1> SUFFICES ASSUME Init PROVE IInv
  OBVIOUS
<1>1. TypeOK
  BY DEF Init, TypeOK
<1>2. TokenHeld
  BY DEF Init, TokenHeld, Working, Unfinished, Accepted
<1> QED
  BY <1>1, <1>2 DEF IInv

\* What TokenHeld says depends on the requests, the channels and workLoop only.
LEMMA UnchangedIInv ==
  ASSUME IInv, TypeOK', UNCHANGED <<callVars, chanVars, workerPc, cur>>
  PROVE  IInv'
<1>1. Unfinished' = Unfinished /\ Working' = Working
  BY DEF callVars, Unfinished, Accepted, Working
<1> QED
  BY <1>1 DEF IInv, TokenHeld, callVars, chanVars

LEMMA TakeTokenIInv == ASSUME IInv, NEW c \in Calls, TakeToken(c) PROVE IInv'
<1> USE DEF TakeToken, workVars, stopVars
<1>1. TypeOK'
  BY DEF IInv, TypeOK
<1>2. taskCh = <<>> /\ ~Working /\ \A d \in Calls : callPc[d] # "sending"
  BY DEF IInv, TypeOK, TokenHeld
<1>3. Unfinished = {}
  <2>1. \A d \in Unfinished : \/ callPc[d] = "sending"
                              \/ taskCh = <<d>>
                              \/ workerPc \in {"got", "run"}
    BY DEF IInv, TokenHeld
  <2>2. \A d \in Calls : taskCh # <<d>>
    BY <1>2
  <2> QED
    BY <1>2, <2>1, <2>2 DEF Working, Unfinished, Accepted
<1>4. errCh[c] = "none"
  BY DEF IInv, TokenHeld
<1>5. Unfinished' = {c}
  BY <1>3, <1>4 DEF IInv, TypeOK, Unfinished, Accepted
<1>6. Working' = Working
  BY DEF Working
<1> QED
  BY <1>1, <1>2, <1>4, <1>5, <1>6 DEF IInv, TypeOK, TokenHeld, Working

LEMMA LeaveIInv ==
  ASSUME IInv, NEW c \in Calls, Refuse(c) \/ SendOnClosed(c) PROVE IInv'
<1> USE DEF Refuse, SendOnClosed, chanVars, workVars, stopVars
<1>1. TypeOK'
  BY DEF IInv, TypeOK
<1>2. Unfinished' = Unfinished \ {c}
  BY DEF IInv, TypeOK, Unfinished, Accepted
<1>3. Working' = Working /\ taskCh' = taskCh /\ token' = token /\ cur' = cur
  BY DEF Working
<1>4. \A d \in Calls : d # c => callPc'[d] = callPc[d]
  BY DEF IInv, TypeOK
<1>5. callPc'[c] \in {"refused", "panicked"} /\ callPc[c] \in {"new", "sending"}
  BY DEF IInv, TypeOK
<1>6. taskCh # <<c>> /\ ~(workerPc \in {"got", "run"} /\ cur = c)
  BY <1>5 DEF IInv, TokenHeld, Unfinished, Accepted, Working
<1>7. errCh[c] = "none"
  BY <1>5 DEF IInv, TokenHeld
<1>8. \A d \in Calls : callPc'[d] = "sending" => d # c /\ callPc[d] = "sending"
  BY <1>4, <1>5
<1>9. errCh' = errCh
  OBVIOUS
<1> HIDE DEF Refuse, SendOnClosed
<1>10. \A d \in Calls : callPc'[d] = "sending" =>
         token' = 1 /\ taskCh' = <<>> /\ ~Working' /\ errCh'[d] = "none"
  BY <1>3, <1>8, <1>9 DEF IInv, TokenHeld
<1>11. \A d \in Calls : taskCh' = <<d>> =>
         token' = 1 /\ ~Working' /\ d \in Unfinished' /\ callPc'[d] # "sending"
  BY <1>2, <1>3, <1>6, <1>8 DEF IInv, TokenHeld
<1>12. Working' => token' = 1 /\ taskCh' = <<>> /\ cur' \in Calls
  BY <1>3 DEF IInv, TokenHeld
<1>13. workerPc' = workerPc
  BY DEF Refuse, SendOnClosed, workVars
<1>14. workerPc' \in {"got", "run"} => cur' \in Unfinished'
  BY <1>2, <1>3, <1>6, <1>13 DEF IInv, TokenHeld
<1>15. \A d \in Unfinished' : \/ callPc'[d] = "sending"
                              \/ taskCh' = <<d>>
                              \/ workerPc' \in {"got", "run"} /\ cur' = d
  <2>1. \A d \in Unfinished' : d \in Unfinished /\ d \in Calls /\ d # c
    BY <1>2 DEF Unfinished, Accepted
  <2>2. \A d \in Unfinished : \/ callPc[d] = "sending"
                              \/ taskCh = <<d>>
                              \/ workerPc \in {"got", "run"} /\ cur = d
    BY DEF IInv, TokenHeld
  <2> QED
    BY <1>3, <1>4, <1>13, <2>1, <2>2
<1>16. \A d \in Calls : errCh'[d] # "none" => callPc'[d] \in {"waiting", "returned"}
  BY <1>4, <1>7, <1>9 DEF IInv, TokenHeld
<1>17. \A d, e \in Calls : callPc'[d] = "sending" /\ callPc'[e] = "sending" => d = e
  BY <1>8 DEF IInv, TokenHeld
<1>18. TokenHeld'
  BY <1>10, <1>11, <1>12, <1>14, <1>15, <1>16, <1>17 DEF TokenHeld
<1> QED
  BY <1>1, <1>18 DEF IInv

LEMMA SendTaskIInv == ASSUME IInv, NEW c \in Calls, SendTask(c) PROVE IInv'
<1> USE DEF SendTask, workVars, stopVars
<1>1. TypeOK'
  BY DEF IInv, TypeOK
<1>2. Unfinished' = Unfinished
  BY DEF IInv, TypeOK, Unfinished, Accepted
<1>3. callPc'[c] \in {"waiting", "returned"}
      /\ \A d \in Calls : d # c => callPc'[d] = callPc[d] /\ callPc[d] # "sending"
  BY DEF IInv, TypeOK, TokenHeld
<1>4. token = 1 /\ ~Working /\ errCh[c] = "none" /\ c \in Unfinished
  BY DEF IInv, TokenHeld, Unfinished, Accepted
<1>5. Working' = Working /\ \A d \in Calls : taskCh' = <<d>> => d = c
  BY DEF Working
<1>6. \A d \in Unfinished : d = c
  BY <1>3, <1>4 DEF IInv, TokenHeld, Working, Unfinished, Accepted
<1> QED
  BY <1>1, <1>2, <1>3, <1>4, <1>5, <1>6 DEF IInv, TokenHeld, Working

LEMMA ReceiveErrIInv == ASSUME IInv, NEW c \in Calls, ReceiveErr(c) PROVE IInv'
<1> USE DEF ReceiveErr, chanVars, workVars, stopVars
<1>1. TypeOK'
  BY DEF IInv, TypeOK
<1>2. Unfinished' = Unfinished /\ Working' = Working
  BY DEF IInv, TypeOK, Unfinished, Accepted, Working
<1>3. \A d \in Calls : callPc'[d] = "sending" <=> callPc[d] = "sending"
  BY DEF IInv, TypeOK
<1>4. callPc'[c] = "returned" /\ \A d \in Calls : d # c => callPc'[d] = callPc[d]
  BY DEF IInv, TypeOK
<1> QED
  BY <1>1, <1>2, <1>3, <1>4 DEF IInv, TokenHeld

LEMMA ReceiveTaskIInv == ASSUME IInv, ReceiveTask PROVE IInv'
<1> USE DEF ReceiveTask, callVars, stopVars
<1> PICK c \in Calls : taskCh = <<c>>
  BY DEF IInv, TypeOK
<1>1. cur' = c /\ taskCh' = <<>> /\ workerPc' = "got"
  OBVIOUS
<1>2. TypeOK'
  BY <1>1 DEF IInv, TypeOK
<1>3. Unfinished' = Unfinished
  BY DEF Unfinished, Accepted
<1>4. token = 1 /\ c \in Unfinished /\ \A d \in Calls : callPc[d] # "sending"
  BY DEF IInv, TokenHeld
<1>5. \A d \in Unfinished : d = c
  BY <1>4 DEF IInv, TokenHeld, Unfinished, Accepted
<1> QED
  BY <1>1, <1>2, <1>3, <1>4, <1>5 DEF IInv, TokenHeld, Working

LEMMA TaskEndsIInv ==
  ASSUME IInv, NEW err \in {"nil", "err"}, TaskEnds(err) PROVE IInv'
<1> USE DEF TaskEnds, chanVars, stopVars
<1>1. cur \in Unfinished /\ token = 1 /\ taskCh = <<>> /\ cur \in Calls
  BY DEF IInv, TokenHeld, Working
<1>2. TypeOK'
  BY <1>1 DEF IInv, TypeOK
<1>3. \A c \in Calls : callPc[c] # "sending"
  BY DEF IInv, TokenHeld, Working
<1>4. \A c \in Unfinished : c = cur
  BY <1>1, <1>3 DEF IInv, TokenHeld, Unfinished, Accepted
<1>5. Unfinished' = {}
  BY <1>1, <1>4 DEF IInv, TypeOK, Unfinished, Accepted
<1>6. \A c \in Calls : errCh'[c] # "none" => callPc[c] \in {"waiting", "returned"}
  BY <1>1, <1>3 DEF IInv, TypeOK, TokenHeld, Unfinished, Accepted
<1> QED
  BY <1>1, <1>2, <1>3, <1>5, <1>6 DEF IInv, TokenHeld, Working

LEMMA SetStatusIInv == ASSUME IInv, SetBusy \/ SetReady PROVE IInv'
<1> USE DEF SetBusy, SetReady, callVars, chanVars, stopVars
<1>1. TypeOK'
  BY DEF IInv, TypeOK
<1>2. Unfinished' = Unfinished /\ Working' = Working
  BY DEF Unfinished, Accepted, Working
<1>3. workerPc' \in {"got", "run"} <=> workerPc \in {"got", "run"}
  OBVIOUS
<1> QED
  BY <1>1, <1>2, <1>3 DEF IInv, TokenHeld

LEMMA ReleaseTokenIInv == ASSUME IInv, ReleaseToken PROVE IInv'
<1> USE DEF ReleaseToken, callVars, stopVars
<1>1. TypeOK'
  BY DEF IInv, TypeOK
<1>2. taskCh = <<>> /\ \A c \in Calls : callPc[c] # "sending"
  BY DEF IInv, TokenHeld, Working
<1>3. Unfinished = {} /\ Unfinished' = {}
  BY <1>2 DEF IInv, TokenHeld, Unfinished, Accepted
<1> QED
  BY <1>1, <1>2, <1>3 DEF IInv, TokenHeld, Working

LEMMA StopIInv == ASSUME IInv, SeeDone \/ SeeCancel PROVE IInv'
<1> USE DEF SeeDone, SeeCancel, callVars, chanVars, stopVars
<1>1. TypeOK'
  BY DEF IInv, TypeOK
<1>2. Unfinished' = Unfinished /\ Working' = Working
  BY DEF Unfinished, Accepted, Working
<1> QED
  BY <1>1, <1>2 DEF IInv, TokenHeld

LEMMA ShutdownIInv ==
  ASSUME IInv, CloseChannels \/ Cancel \/ Close \/ Wait \/ UNCHANGED vars
  PROVE  IInv'
<1>1. UNCHANGED <<callVars, chanVars, workVars>>
  BY DEF CloseChannels, Cancel, Close, Wait, vars
<1>2. /\ doneClosed' \in BOOLEAN
      /\ ctxDone' \in BOOLEAN
      /\ closerPc' \in {"wait", "token", "task", "monitor", "done"}
      /\ ownerPc' \in {"open", "closed", "waited"}
      /\ crashed' \in BOOLEAN
  BY DEF CloseChannels, Cancel, Close, Wait, vars, stopVars, IInv, TypeOK
<1>3. TypeOK'
  BY <1>1, <1>2 DEF callVars, chanVars, workVars, IInv, TypeOK
<1> QED
  BY <1>1, <1>3, UnchangedIInv DEF workVars

LEMMA NextIInv == IInv /\ [Next]_vars => IInv'
<1> SUFFICES ASSUME IInv, [Next]_vars PROVE IInv'
  OBVIOUS
<1>1. ASSUME NEW c \in Calls, CallStep(c) PROVE IInv'
  BY <1>1, TakeTokenIInv, LeaveIInv, SendTaskIInv, ReceiveErrIInv DEF CallStep
<1>2. CASE WorkerStep
  BY <1>2, ReceiveTaskIInv, TaskEndsIInv, SetStatusIInv, ReleaseTokenIInv, StopIInv
  DEF WorkerStep
<1>3. CASE CloseChannels \/ Cancel \/ Close \/ Wait \/ Idle \/ UNCHANGED vars
  BY <1>3, ShutdownIInv DEF Idle
<1> QED
  BY <1>1, <1>2, <1>3 DEF Next, Step

\* Where the token is, at any time and through any shutdown (async.go:57-100).
THEOREM TokenInvariant == Spec => []IInv
  BY InitIInv, NextIInv, PTL DEF Spec

\* Two accepted tasks are never unfinished together, so that at most one indexing
\* task works on the database, and a request that has the token finds taskCh empty:
\* TryNow does not block (async.go:57-100).
THEOREM RunsOneTask == Spec => []OneTask
<1>1. IInv => OneTask
  <2>1. IInv => \A c, d \in Unfinished : c = d
    BY DEF IInv, TokenHeld, Working, Unfinished, Accepted
  <2>2. IInv => \A c \in Calls : callPc[c] = "sending" => taskCh = <<>>
    BY DEF IInv, TokenHeld
  <2> QED
    BY <2>1, <2>2 DEF OneTask
<1> QED
  BY <1>1, TokenInvariant, PTL

-----------------------------------------------------------------------------
(* Shutdown *)

\* Who has closed done, and what has followed.
Stops ==
  /\ closerPc # "wait" => workerPc = "exited"
  /\ workerPc = "exited" \/ ownerPc # "open" => doneClosed
  /\ doneClosed => ownerPc # "open" \/ (workerPc = "exited" /\ ctxDone)
  /\ FailsOnlyAtShutdown

LEMMA InitStops == Init => Stops
BY DEF Init, Stops, FailsOnlyAtShutdown

LEMMA CallStops == ASSUME IInv, Stops, NEW c \in Calls, CallStep(c) PROVE Stops'
<1>1. UNCHANGED <<workVars, stopVars>>
  BY DEF CallStep, TakeToken, Refuse, SendTask, SendOnClosed, ReceiveErr
<1>2. \A d \in Calls : callPc'[d] = "panicked" => callPc[d] = "panicked" \/ tokenClosed
  BY DEF CallStep, TakeToken, Refuse, SendTask, SendOnClosed, ReceiveErr, tokenClosed, taskClosed,
         IInv, TypeOK
<1>3. tokenClosed => doneClosed
  BY DEF tokenClosed, Stops
<1> QED
  BY <1>1, <1>2, <1>3 DEF workVars, stopVars, Stops, FailsOnlyAtShutdown

LEMMA WorkerStops == ASSUME IInv, Stops, WorkerStep, ~crashed PROVE Stops'
<1>1. UNCHANGED <<callPc, ctxDone, closerPc, ownerPc>>
  BY DEF WorkerStep, ReceiveTask, SetBusy, TaskEnds, SetReady, ReleaseToken, SeeDone, SeeCancel,
         callVars, stopVars
<1>2. CASE SeeCancel
  BY <1>1, <1>2 DEF SeeCancel, Stops, FailsOnlyAtShutdown
<1>3. CASE SeeDone
  BY <1>1, <1>3 DEF SeeDone, stopVars, Stops, FailsOnlyAtShutdown
<1>4. CASE ~SeeCancel /\ ~SeeDone
  BY <1>1, <1>4 DEF WorkerStep, ReceiveTask, SetBusy, TaskEnds, SetReady, ReleaseToken, stopVars,
                    Stops, FailsOnlyAtShutdown
<1> QED
  BY <1>2, <1>3, <1>4

LEMMA ShutdownStops ==
  ASSUME Stops, ~crashed, CloseChannels \/ Cancel \/ Close \/ Wait PROVE Stops'
BY DEF CloseChannels, Cancel, Close, Wait, callVars, workVars, Stops, FailsOnlyAtShutdown

LEMMA NextStops == IInv /\ Stops /\ [Next]_vars => Stops'
<1> SUFFICES ASSUME IInv, Stops, [Next]_vars PROVE Stops'
  OBVIOUS
<1>1. CASE ~crashed /\ Step
  BY <1>1, CallStops, WorkerStops, ShutdownStops DEF Step
<1>2. CASE UNCHANGED vars
  BY <1>2 DEF vars, callVars, workVars, stopVars, Stops, FailsOnlyAtShutdown
<1> QED
  BY <1>1, <1>2 DEF Next, Idle

\* How far a shutdown has come, and by whom.
THEOREM StopsInvariant == Spec => []Stops
  BY InitStops, NextStops, TokenInvariant, PTL DEF Spec

\* As long as a task runs, the channels and the monitor are open (async.go:47-52).
THEOREM StaysOpenWhileRunning == Spec => []OpenWhileRunning
<1>1. Stops => OpenWhileRunning
  BY DEF Stops, OpenWhileRunning, Working
<1> QED
  BY <1>1, StopsInvariant, PTL

\* Requests panic after done was closed only, and the process dies of shutdown only when
\* Close and a cancelled context come together (async.go:63-100).
THEOREM FailsAtShutdownOnly == Spec => []FailsOnlyAtShutdown
<1>1. Stops => FailsOnlyAtShutdown
  BY DEF Stops
<1> QED
  BY <1>1, StopsInvariant, PTL
=============================================================================
