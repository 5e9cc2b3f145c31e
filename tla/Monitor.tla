------------------------------ MODULE Monitor ------------------------------
(***************************************************************************)
(* The log monitor of the index service (internal/index/async.go:140-280): *)
(* the running task writes log messages, runLoop hands each one to all     *)
(* sessions, and one goroutine per FollowLogs request runs Handle, which   *)
(* registers a session, waits for a reason to end it, and frees it.        *)
(* sessInitCh and sessFreeCh have no buffer: a send and its receipt are    *)
(* one step.  monErrCh has one slot.                                       *)
(*                                                                         *)
(* Write is called by the running task only, and the task is over before   *)
(* the monitor is closed (Async!OpenWhileRunning): the second case of its  *)
(* select, for a closed monitor, is not reached.                           *)
(***************************************************************************)
EXTENDS Naturals, Sequences, FiniteSets, Functions

CONSTANTS
  Handles,      \* FollowLogs requests, each a call of Handle
  Steady,       \* those whose contexts, tasks and connections hold, and whose clients
                \* read: they end with the monitor only
  None,         \* no session
  MaxSessions,  \* monMaxSessions
  MsgBuf,       \* monMsgBuffLen, the capacity of msgCh
  NumMsgs,      \* bound: how many messages the task writes
  MayBreak,     \* connections may fail, so that Send returns an error
  MayStall,     \* clients may stop to read, so that Send does not return
  MayClose      \* the monitor may be closed

ASSUME MonitorAssumption ==
  /\ IsFiniteSet(Handles) /\ Steady \subseteq Handles
  /\ None \notin Handles
  /\ MaxSessions \in Nat
  /\ MsgBuf \in Nat
  /\ NumMsgs \in Nat
  /\ MayBreak \in BOOLEAN
  /\ MayStall \in BOOLEAN
  /\ MayClose \in BOOLEAN

VARIABLES
  handlePc,     \* per request: "new", "init" (sending to sessInitCh), "loop",
                \* "freeing" (sending to sessFreeCh), "returned", "panicked"
  monErr,       \* per request, its monErrCh: "empty", "max", "send", "closed"
  ended,        \* per request: its context is cancelled or its task has ended
  conn,         \* per request, its connection: "up", "stalled" (the client holds it and
                \* reads no more: Send waits), "broken" (Send fails)
  received,     \* per request: the messages sent on its stream
  sessions,     \* the requests registered
  loopPc,       \* runLoop: "select", "bcast", "sending", "errsend", "exited"
  msg, todo,    \* runLoop's message, and the sessions it still has to go to
  target,       \* the session whose stream or errCh runLoop sends to
  msgCh,
  sent,         \* how many messages the task has written
  monDone,      \* the channel done is closed
  chansClosed,  \* sessInitCh, sessFreeCh and msgCh are closed
  crashed       \* runLoop panicked: the process is gone

handleVars == <<handlePc, monErr>>
clientVars == <<ended, conn>>
loopVars == <<sessions, loopPc, msg, todo, target, received>>
writeVars == <<msgCh, sent>>
stopVars == <<monDone, chansClosed, crashed>>
vars == <<handleVars, clientVars, loopVars, writeVars, stopVars>>

Init ==
  /\ handlePc = [h \in Handles |-> "new"]
  /\ monErr = [h \in Handles |-> "empty"]
  /\ ended = [h \in Handles |-> FALSE]
  /\ conn = [h \in Handles |-> "up"]
  /\ received = [h \in Handles |-> <<>>]
  /\ sessions = {}
  /\ loopPc = "select"
  /\ msg = 0
  /\ todo = {}
  /\ target = None
  /\ msgCh = <<>>
  /\ sent = 0
  /\ monDone = FALSE
  /\ chansClosed = FALSE
  /\ crashed = FALSE

-----------------------------------------------------------------------------
(* Slips that the code avoids, each a variant of one definition below: they *)
(* take no part in the specification.                                       *)

\* The limit is checked as if the new session were counted already.
FullOffByOne == Cardinality(sessions) > MaxSessions

\* A cancelled request returns at once.
SeeEndedNotFreed(h) ==
  /\ handlePc[h] = "loop"
  /\ ended[h]
  /\ handlePc' = [handlePc EXCEPT ![h] = "returned"]
  /\ monErr' = [monErr EXCEPT ![h] = "closed"]
  /\ UNCHANGED <<clientVars, loopVars, writeVars, stopVars>>

\* Handle does not look at its context.
SeeEndedForgotten(h) == FALSE

\* A session is not struck off when it has got the message.
SendAgain(h) ==
  /\ loopPc = "sending"
  /\ h = target
  /\ conn[h] = "up"
  /\ received' = [received EXCEPT ![h] = Append(@, msg)]
  /\ target' = None
  /\ loopPc' = "bcast"
  /\ UNCHANGED <<handleVars, clientVars, sessions, msg, todo, writeVars, stopVars>>

\* runLoop leaves the message before every session has got it.
EndMsgEarly ==
  /\ loopPc = "bcast"
  /\ msg' = 0
  /\ loopPc' = "select"
  /\ UNCHANGED <<handleVars, clientVars, sessions, todo, target, received, writeVars,
                 stopVars>>

\* runLoop keeps a message until there is a session.
EndMsgWhenHeard ==
  /\ loopPc = "bcast"
  /\ todo = {}
  /\ sessions # {}
  /\ msg' = 0
  /\ loopPc' = "select"
  /\ UNCHANGED <<handleVars, clientVars, sessions, todo, target, received, writeVars,
                 stopVars>>

-----------------------------------------------------------------------------
(* Handle, in the goroutine of a request *)

\* A client asks for the log: Handle blocks on sessInitCh.
Begin(h) ==
  /\ handlePc[h] = "new"
  /\ handlePc' = [handlePc EXCEPT ![h] = "init"]
  /\ UNCHANGED <<monErr, clientVars, loopVars, writeVars, stopVars>>

\* runLoop receives the request: it registers the session or, with as many as
\* it accepts, puts an error into the empty monErrCh.
Full == Cardinality(sessions) >= MaxSessions

InitSession(h) ==
  /\ handlePc[h] = "init"
  /\ loopPc = "select"
  /\ handlePc' = [handlePc EXCEPT ![h] = "loop"]
  /\ IF Full
       THEN monErr' = [monErr EXCEPT ![h] = "max"] /\ UNCHANGED sessions
       ELSE sessions' = sessions \cup {h} /\ UNCHANGED monErr
  /\ UNCHANGED <<clientVars, loopPc, msg, todo, target, received, writeVars, stopVars>>

\* The select of Handle receives an error: the session is freed, except when
\* there is none.  Every return closes monErrCh.
ReceiveErr(h) ==
  /\ handlePc[h] = "loop"
  /\ \/ /\ monErr[h] = "max"
        /\ handlePc' = [handlePc EXCEPT ![h] = "returned"]
        /\ monErr' = [monErr EXCEPT ![h] = "closed"]
     \/ /\ monErr[h] = "send"
        /\ handlePc' = [handlePc EXCEPT ![h] = "freeing"]
        /\ monErr' = [monErr EXCEPT ![h] = "empty"]
  /\ UNCHANGED <<clientVars, loopVars, writeVars, stopVars>>

\* The select of Handle sees the cancelled context, or the end of the task.
SeeEnded(h) ==
  /\ handlePc[h] = "loop"
  /\ ended[h]
  /\ handlePc' = [handlePc EXCEPT ![h] = "freeing"]
  /\ UNCHANGED <<monErr, clientVars, loopVars, writeVars, stopVars>>

\* The select of Handle sees that the monitor is closed.
SeeMonDone(h) ==
  /\ handlePc[h] = "loop"
  /\ monDone
  /\ handlePc' = [handlePc EXCEPT ![h] = "returned"]
  /\ monErr' = [monErr EXCEPT ![h] = "closed"]
  /\ UNCHANGED <<clientVars, loopVars, writeVars, stopVars>>

\* sessFreeCh <- rq, received by runLoop; Handle returns.
FreeSession(h) ==
  /\ handlePc[h] = "freeing"
  /\ loopPc = "select"
  /\ sessions' = sessions \ {h}
  /\ handlePc' = [handlePc EXCEPT ![h] = "returned"]
  /\ monErr' = [monErr EXCEPT ![h] = "closed"]
  /\ UNCHANGED <<clientVars, loopPc, msg, todo, target, received, writeVars, stopVars>>

\* A send on a closed channel panics; the HTTP server recovers and the request
\* ends.
SendOnClosed(h) ==
  /\ handlePc[h] \in {"init", "freeing"}
  /\ chansClosed
  /\ handlePc' = [handlePc EXCEPT ![h] = "panicked"]
  /\ monErr' = [monErr EXCEPT ![h] = "closed"]
  /\ UNCHANGED <<clientVars, loopVars, writeVars, stopVars>>

HandleStep(h) ==
  ReceiveErr(h) \/ SeeEnded(h) \/ SeeMonDone(h) \/ SendOnClosed(h)

-----------------------------------------------------------------------------
(* runLoop *)

ReceiveMsg ==
  /\ loopPc = "select"
  /\ msgCh # <<>>
  /\ msg' = Head(msgCh)
  /\ msgCh' = Tail(msgCh)
  /\ todo' = sessions
  /\ loopPc' = "bcast"
  /\ UNCHANGED <<handleVars, clientVars, sessions, target, received, sent, stopVars>>

\* The range over the map picks the sessions in any order, and sticks to one until
\* Send has returned.
NextSession(h) ==
  /\ loopPc = "bcast"
  /\ h \in todo
  /\ target' = h
  /\ loopPc' = "sending"
  /\ UNCHANGED <<handleVars, clientVars, sessions, msg, todo, received, writeVars, stopVars>>

\* Flow control keeps Send waiting for a client that does not read: the server sets no
\* time limit for writes (server.go:90).
Send(h) ==
  /\ loopPc = "sending"
  /\ h = target
  /\ conn[h] = "up"
  /\ received' = [received EXCEPT ![h] = Append(@, msg)]
  /\ todo' = todo \ {h}
  /\ target' = None
  /\ loopPc' = "bcast"
  /\ UNCHANGED <<handleVars, clientVars, sessions, msg, writeVars, stopVars>>

SendFails(h) ==
  /\ loopPc = "sending"
  /\ h = target
  /\ conn[h] = "broken"
  /\ todo' = todo \ {h}
  /\ loopPc' = "errsend"
  /\ UNCHANGED <<handleVars, clientVars, sessions, msg, target, received, writeVars, stopVars>>

\* sess.errCh <- ErrAsyncMonitorSend: blocks while an error is in the channel,
\* panics when Handle has closed it.
SendErr ==
  /\ loopPc = "errsend"
  /\ monErr[target] \in {"empty", "closed"}
  /\ IF monErr[target] = "empty"
       THEN /\ monErr' = [monErr EXCEPT ![target] = "send"]
            /\ target' = None
            /\ loopPc' = "bcast"
            /\ UNCHANGED crashed
       ELSE /\ crashed' = TRUE
            /\ UNCHANGED <<monErr, target, loopPc>>
  /\ UNCHANGED <<handlePc, clientVars, sessions, msg, todo, received,
                 writeVars, monDone, chansClosed>>

EndMsg ==
  /\ loopPc = "bcast"
  /\ todo = {}
  /\ msg' = 0
  /\ loopPc' = "select"
  /\ UNCHANGED <<handleVars, clientVars, sessions, todo, target, received, writeVars,
                 stopVars>>

\* The select of runLoop sees that the monitor is closed.
Exit ==
  /\ loopPc = "select"
  /\ monDone
  /\ sessions' = {}
  /\ loopPc' = "exited"
  /\ UNCHANGED <<handleVars, clientVars, msg, todo, target, received, writeVars, stopVars>>

LoopStep ==
  \/ ReceiveMsg
  \/ \E h \in Handles : NextSession(h) \/ Send(h) \/ SendFails(h)
  \/ SendErr
  \/ EndMsg
  \/ Exit

\* The goroutine that waits for runLoop and closes its channels.
CloseChans ==
  /\ loopPc = "exited"
  /\ ~chansClosed
  /\ chansClosed' = TRUE
  /\ UNCHANGED <<handleVars, clientVars, loopVars, writeVars, monDone, crashed>>

-----------------------------------------------------------------------------
(* The task, the clients and the owner *)

Left(h) == handlePc[h] \in {"returned", "panicked"}

\* Write: msgCh <- msg blocks while the buffer is full.
Write ==
  /\ sent < NumMsgs
  /\ ~monDone
  /\ Len(msgCh) < MsgBuf
  /\ msgCh' = Append(msgCh, sent + 1)
  /\ sent' = sent + 1
  /\ UNCHANGED <<handleVars, clientVars, loopVars, stopVars>>

\* The context of a request is cancelled, or its taskErrCh delivers.
End(h) ==
  /\ h \notin Steady
  /\ handlePc[h] \in {"init", "loop"}
  /\ ~ended[h]
  /\ ended' = [ended EXCEPT ![h] = TRUE]
  /\ UNCHANGED <<handleVars, conn, loopVars, writeVars, stopVars>>

\* The connection fails, or the handler has returned: runLoop learns of it in Send.
Break(h) ==
  /\ loopPc = "sending"
  /\ h = target
  /\ (MayBreak /\ h \notin Steady) \/ Left(h)
  /\ conn[h] # "broken"
  /\ conn' = [conn EXCEPT ![h] = "broken"]
  /\ UNCHANGED <<handleVars, ended, loopVars, writeVars, stopVars>>

\* The client stops to read and stays connected.  (One that reads on after a while has
\* only made Send take longer.)
Stall(h) ==
  /\ MayStall
  /\ h \notin Steady
  /\ loopPc = "sending"
  /\ h = target
  /\ conn[h] = "up"
  /\ conn' = [conn EXCEPT ![h] = "stalled"]
  /\ UNCHANGED <<handleVars, ended, loopVars, writeVars, stopVars>>

Close ==
  /\ MayClose
  /\ ~monDone
  /\ monDone' = TRUE
  /\ UNCHANGED <<handleVars, clientVars, loopVars, writeVars, chansClosed, crashed>>

-----------------------------------------------------------------------------
Next ==
  /\ ~crashed
  /\ \/ \E h \in Handles :
          \/ Begin(h) \/ InitSession(h) \/ FreeSession(h) \/ HandleStep(h)
          \/ End(h) \/ Break(h) \/ Stall(h)
     \/ LoopStep
     \/ CloseChans
     \/ Write
     \/ Close

Spec == Init /\ [][Next]_vars

\* Every goroutine that can run runs, and the selects of runLoop and of Handle
\* pick at random among the cases that are ready: one that is ready again and
\* again is picked.  A request is registered and freed once at most, so that what is fair
\* to any of them is fair to all.  Send returns when the connection is up.  Clients need
\* not ask, leave or fail.
Fairness ==
  /\ SF_vars(~crashed /\ \E h \in Handles : InitSession(h))
  /\ SF_vars(~crashed /\ \E h \in Handles : FreeSession(h))
  /\ WF_vars(~crashed /\ \E h \in Handles : HandleStep(h))
  /\ SF_vars(~crashed /\ ReceiveMsg)
  /\ SF_vars(~crashed /\ Exit)
  /\ WF_vars(~crashed /\ LoopStep)
  /\ WF_vars(~crashed /\ CloseChans)
  /\ WF_vars(~crashed /\ Write)

FairSpec == Spec /\ Fairness

-----------------------------------------------------------------------------
TypeOK ==
  /\ handlePc \in [Handles -> {"new", "init", "loop", "freeing", "returned",
                               "panicked"}]
  /\ monErr \in [Handles -> {"empty", "max", "send", "closed"}]
  /\ ended \in [Handles -> BOOLEAN]
  /\ conn \in [Handles -> {"up", "stalled", "broken"}]
  /\ received \in [Handles -> Seq(1..NumMsgs)]
  /\ sessions \subseteq Handles
  /\ loopPc \in {"select", "bcast", "sending", "errsend", "exited"}
  /\ msg \in 0..NumMsgs
  /\ todo \subseteq Handles
  /\ target \in Handles \cup {None}
  /\ msgCh \in Seq(1..NumMsgs) /\ Len(msgCh) <= MsgBuf
  /\ sent \in 0..NumMsgs
  /\ monDone \in BOOLEAN
  /\ chansClosed \in BOOLEAN
  /\ crashed \in BOOLEAN

\* The map of sessions has no entry of a request that has returned, and none
\* of one that was turned away (async.go:200-249), until the monitor closes.
SessionsLive ==
  /\ Cardinality(sessions) <= MaxSessions
  /\ \A h \in sessions :
       /\ handlePc[h] \in {"loop", "freeing"} \/ monDone
       /\ monErr[h] # "max"

\* A session sees the messages in the order of writing and without a gap
\* (async.go:174-182, 249-255).
InOrder ==
  \A h \in Handles : \A i \in 1..(Len(received[h]) - 1) :
    received[h][i + 1] = received[h][i] + 1

\* Nothing panics while the monitor is open (async.go:203-223, 253).
PanicOnlyAfterClose ==
  crashed \/ (\E h \in Handles : handlePc[h] = "panicked") => monDone

\* A connection that fails can block runLoop (see HandleReturns), and so does a client
\* that stays and does not read: the three properties below say what holds until runLoop
\* sends to a session of such a client.
AllReading == \A h \in sessions : conn[h] = "up"

\* As long as the clients read, the last message that is written while a session is open
\* reaches its stream; by InOrder, so does every other since the session opened
\* (async.go:174-182, 249-255).
Delivered ==
  \A h \in Handles :
    h \in sessions /\ NumMsgs \in Range(msgCh)
      ~> NumMsgs \in Range(received[h]) \/ ended[h] \/ monDone \/ ~AllReading

\* The task is not kept from working by those who follow its log, as long as they read
\* it (async.go:174-182).
TaskGoesOn == <>(sent = NumMsgs \/ monDone \/ ~AllReading)

\* Handle ends with its context or its task, and when the monitor is closed, as long as
\* the clients read (async.go:200-228).
ConnectedHandleReturns ==
  \A h \in Handles :
    ended[h] \/ (monDone /\ handlePc[h] # "new") ~> Left(h) \/ ~AllReading

\* Handle "blocks until [...] the connection context (ctx) is canceled"
\* (async.go:184-198): then it returns.
HandleReturns == \A h \in Handles : ended[h] ~> Left(h)
=============================================================================
