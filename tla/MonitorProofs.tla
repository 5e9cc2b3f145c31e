---------------------------- MODULE MonitorProofs ----------------------------
(***************************************************************************)
(* Proofs of the safety properties of Monitor, for any number of requests, *)
(* sessions and messages.                                                  *)
(***************************************************************************)
EXTENDS Monitor, FiniteSetTheorems, SequenceTheorems, TLAPS

\* Who has a session, and what its monErrCh may hold.
Seats ==
  /\ Cardinality(sessions) <= MaxSessions
  /\ \A h \in Handles :
       /\ monErr[h] = "closed" <=> Left(h)
       /\ handlePc[h] \in {"new", "init"} =>
            monErr[h] = "empty" /\ h \notin sessions /\ received[h] = <<>>
       /\ h \in sessions =>
            monErr[h] # "max" /\ (handlePc[h] \in {"loop", "freeing"} \/ monDone)

\* Only a closed monitor closes its channels, and panics.
Closing ==
  /\ chansClosed => loopPc = "exited"
  /\ loopPc = "exited" => monDone
  /\ crashed => monDone
  /\ \A h \in Handles : handlePc[h] = "panicked" => monDone

\* While a message is handed on, no session comes or goes.
Handing ==
  /\ todo \subseteq sessions
  /\ loopPc \in {"select", "exited"} => todo = {}
  /\ loopPc = "sending" => target \in todo
  /\ loopPc = "errsend" => target \in sessions

\* Messages that have left msgCh.
Taken == sent - Len(msgCh)

\* The queue has the newest messages, and each session on a stream that works has got
\* all until the last one that was taken.
Streams ==
  /\ Taken \in Nat
  /\ \A i \in 1..Len(msgCh) : msgCh[i] = Taken + i
  /\ loopPc \in {"bcast", "sending", "errsend"} => msg = Taken /\ msg > 0
  /\ \A h \in sessions :
       conn[h] # "broken" /\ Len(received[h]) > 0 =>
         received[h][Len(received[h])] = IF h \in todo THEN Taken - 1 ELSE Taken

IInv == TypeOK /\ Seats /\ Closing /\ Handing /\ Streams /\ InOrder

-----------------------------------------------------------------------------
LEMMA FiniteSessions == ASSUME sessions \subseteq Handles PROVE IsFiniteSet(sessions)
BY FS_Subset, MonitorAssumption DEF MonitorAssumption

LEMMA InitIInv == Init => IInv
<1> SUFFICES ASSUME Init PROVE IInv
  OBVIOUS
<1>1. TypeOK
  <2>1. <<>> \in Seq(1..NumMsgs) /\ Len(<<>>) <= MsgBuf
    BY MonitorAssumption DEF MonitorAssumption
  <2>2. msgCh = <<>> /\ received = [h \in Handles |-> <<>>]
    BY DEF Init
  <2>3. msgCh \in Seq(1..NumMsgs) /\ Len(msgCh) <= MsgBuf /\ received \in [Handles -> Seq(1..NumMsgs)]
    BY <2>1, <2>2
  <2>4. ended \in [Handles -> BOOLEAN] /\ conn \in [Handles -> {"up", "stalled", "broken"}]
    BY DEF Init
  <2>5. sent \in 0..NumMsgs /\ msg \in 0..NumMsgs
    BY MonitorAssumption DEF MonitorAssumption, Init
  <2> QED
    BY <2>3, <2>4, <2>5 DEF Init, TypeOK
<1>2. Seats
  BY FS_EmptySet, MonitorAssumption DEF MonitorAssumption, Init, Seats, Left
<1> QED
  BY <1>1, <1>2 DEF Init, IInv, Closing, Handing, Streams, Taken, InOrder

\* Steps of a request that leave runLoop and the queue alone.
LEMMA RequestIInv ==
  ASSUME IInv, NEW h \in Handles,
         Begin(h) \/ ReceiveErr(h) \/ SeeEnded(h) \/ SeeMonDone(h) \/ SendOnClosed(h)
  PROVE  IInv'
<1>1. UNCHANGED <<clientVars, loopVars, writeVars, stopVars>>
  BY DEF Begin, ReceiveErr, SeeEnded, SeeMonDone, SendOnClosed
<1>2. /\ \A g \in Handles \ {h} : handlePc'[g] = handlePc[g] /\ monErr'[g] = monErr[g]
      /\ handlePc \in [Handles -> {"new", "init", "loop", "freeing", "returned", "panicked"}]
      /\ handlePc' \in [Handles -> {"new", "init", "loop", "freeing", "returned", "panicked"}]
      /\ monErr' \in [Handles -> {"empty", "max", "send", "closed"}]
  BY DEF Begin, ReceiveErr, SeeEnded, SeeMonDone, SendOnClosed, IInv, TypeOK
<1>3. TypeOK'
  BY <1>1, <1>2 DEF clientVars, loopVars, writeVars, stopVars, IInv, TypeOK
<1>4. /\ monErr'[h] = "closed" <=> handlePc'[h] \in {"returned", "panicked"}
      /\ handlePc'[h] \in {"new", "init"} =>
           handlePc[h] \in {"new", "init"} /\ monErr'[h] = monErr[h]
      /\ monErr'[h] = "max" => monErr[h] = "max"
      /\ handlePc'[h] \in {"loop", "freeing"} \/ monDone \/ monErr[h] = "max"
           \/ handlePc[h] \in {"new", "init"}
      /\ handlePc'[h] = "panicked" => monDone
  BY <1>2 DEF Begin, ReceiveErr, SeeEnded, SeeMonDone, SendOnClosed, IInv, TypeOK, Seats, Closing, Left
<1>5. Seats'
  BY <1>1, <1>2, <1>4 DEF loopVars, stopVars, IInv, Seats, Left
<1>6. Closing'
  BY <1>1, <1>2, <1>4 DEF loopVars, stopVars, IInv, Closing
<1>7. Handing' /\ Streams' /\ InOrder'
  BY <1>1 DEF clientVars, loopVars, writeVars, IInv, Handing, Streams, Taken, InOrder
<1> QED
  BY <1>3, <1>5, <1>6, <1>7 DEF IInv

LEMMA InitSessionIInv == ASSUME IInv, NEW h \in Handles, InitSession(h) PROVE IInv'
<1>1. TypeOK'
  BY DEF InitSession, Full, clientVars, writeVars, stopVars, IInv, TypeOK
<1>2. Cardinality(sessions)' <= MaxSessions
  <2>1. CASE Full
    BY <2>1 DEF InitSession, IInv, Seats
  <2>2. CASE ~Full
    <3>1. IsFiniteSet(sessions) /\ h \notin sessions /\ sessions' = sessions \cup {h}
      BY <2>2, FiniteSessions DEF InitSession, IInv, TypeOK, Seats
    <3>2. Cardinality(sessions') = Cardinality(sessions) + 1 /\ Cardinality(sessions) \in Nat
      BY <3>1, FS_AddElement, FS_CardinalityType
    <3> QED
      BY <3>2, <2>2, MonitorAssumption DEF MonitorAssumption, Full
  <2> QED
    BY <2>1, <2>2
<1>3. Seats'
  BY <1>2 DEF InitSession, stopVars, IInv, TypeOK, Seats, Left
<1>4. Closing'
  BY DEF InitSession, stopVars, IInv, TypeOK, Closing
<1>5. Handing'
  BY DEF InitSession, IInv, Handing
<1>6. Streams' /\ InOrder'
  BY DEF InitSession, clientVars, writeVars, IInv, TypeOK, Seats, Streams, Taken, InOrder
<1> QED
  BY <1>1, <1>3, <1>4, <1>5, <1>6 DEF IInv

LEMMA FreeSessionIInv == ASSUME IInv, NEW h \in Handles, FreeSession(h) PROVE IInv'
<1>1. TypeOK'
  BY DEF FreeSession, clientVars, writeVars, stopVars, IInv, TypeOK
<1>2. Cardinality(sessions)' <= MaxSessions
  <2>1. /\ IsFiniteSet(sessions) /\ sessions' \subseteq sessions
    BY FiniteSessions DEF FreeSession, IInv, TypeOK
  <2> QED
    BY <2>1, FS_Subset, FS_CardinalityType, MonitorAssumption DEF MonitorAssumption, IInv, Seats
<1>3. Seats'
  BY <1>2 DEF FreeSession, stopVars, IInv, TypeOK, Seats, Left
<1>4. Closing' /\ Handing'
  BY DEF FreeSession, stopVars, IInv, TypeOK, Closing, Handing
<1>5. Streams' /\ InOrder'
  BY DEF FreeSession, clientVars, writeVars, IInv, TypeOK, Streams, Taken, InOrder
<1> QED
  BY <1>1, <1>3, <1>4, <1>5 DEF IInv

\* Steps of runLoop: each holds one message at a time.
LEMMA ReceiveMsgIInv == ASSUME IInv, ReceiveMsg PROVE IInv'
<1>0. msgCh \in Seq(1..NumMsgs) /\ msgCh # <<>> /\ msg' = Head(msgCh) /\ msgCh' = Tail(msgCh)
  BY DEF ReceiveMsg, IInv, TypeOK
<1>1. /\ msgCh \in Seq(1..NumMsgs) /\ Len(msgCh) \in Nat \ {0}
      /\ msg' = msgCh[1] /\ msg' \in 1..NumMsgs
      /\ msgCh' \in Seq(1..NumMsgs) /\ Len(msgCh') = Len(msgCh) - 1
      /\ \A i \in 1..Len(msgCh') : msgCh'[i] = msgCh[i + 1]
  <2>1. Len(msgCh) \in Nat \ {0}
    BY <1>0
  <2>2. msg' = msgCh[1] /\ msg' \in 1..NumMsgs
    <3>1. 1 \in 1..Len(msgCh) /\ msg' = msgCh[1]
      BY <1>0, <2>1
    <3>2. \A i \in 1..Len(msgCh) : msgCh[i] \in 1..NumMsgs
      BY <1>0, ElementOfSeq
    <3> QED
      BY <3>1, <3>2
  <2>3. /\ msgCh' \in Seq(1..NumMsgs) /\ Len(msgCh') = Len(msgCh) - 1
        /\ \A i \in 1..Len(msgCh') : msgCh'[i] = msgCh[i + 1]
    BY <1>0, <2>1
  <2> QED
    BY <1>0, <2>1, <2>2, <2>3
<1>2. TypeOK'
  BY <1>1, MonitorAssumption
  DEF MonitorAssumption, ReceiveMsg, handleVars, clientVars, stopVars, IInv, TypeOK
<1>3. Seats' /\ Closing' /\ Handing'
  BY DEF ReceiveMsg, handleVars, stopVars, IInv, Seats, Left, Closing, Handing
<1>4. Taken' = Taken + 1 /\ Taken \in Nat
  BY <1>1 DEF ReceiveMsg, IInv, TypeOK, Streams, Taken
<1>5. Streams'
  <2>1. \A i \in 1..Len(msgCh') : msgCh'[i] = Taken' + i
    BY <1>1, <1>4 DEF IInv, Streams
  <2>2. msg' = Taken' /\ msg' > 0
    BY <1>1, <1>4 DEF IInv, Streams
  <2>3. \A h \in sessions' :
          conn'[h] # "broken" /\ Len(received'[h]) > 0 =>
            received'[h][Len(received'[h])] = Taken' - 1 /\ h \in todo'
    BY <1>4 DEF ReceiveMsg, clientVars, IInv, Handing, Streams
  <2> QED
    BY <1>4, <2>1, <2>2, <2>3 DEF Streams
<1>6. InOrder'
  BY DEF ReceiveMsg, IInv, InOrder
<1> QED
  BY <1>2, <1>3, <1>5, <1>6 DEF IInv

LEMMA NextSessionIInv == ASSUME IInv, NEW h \in Handles, NextSession(h) PROVE IInv'
BY DEF NextSession, handleVars, clientVars, writeVars, stopVars,
       IInv, TypeOK, Seats, Left, Closing, Handing, Streams, Taken, InOrder

LEMMA SendIInv == ASSUME IInv, NEW h \in Handles, Send(h) PROVE IInv'
<1>1. /\ msg = Taken /\ msg > 0 /\ Taken \in Nat /\ h \in sessions /\ conn[h] = "up" /\ h \in todo
      /\ received[h] \in Seq(1..NumMsgs)
      /\ Len(received[h]) > 0 => received[h][Len(received[h])] = Taken - 1
  BY DEF Send, IInv, TypeOK, Handing, Streams
<1>2. msg \in 1..NumMsgs
  BY <1>1 DEF Send, IInv, TypeOK, Streams
<1>3. TypeOK'
  BY <1>1, <1>2 DEF Send, handleVars, clientVars, writeVars, stopVars, IInv, TypeOK
<1>4. Seats'
  <2>1. handlePc[h] \notin {"new", "init"}
    BY <1>1 DEF IInv, Seats
  <2> QED
    BY <2>1 DEF Send, handleVars, stopVars, IInv, TypeOK, Seats, Left
<1>5. Closing' /\ Handing'
  BY DEF Send, handleVars, stopVars, IInv, Closing, Handing
<1>6. /\ Len(received'[h]) = Len(received[h]) + 1
      /\ received'[h][Len(received'[h])] = Taken
      /\ \A i \in 1..Len(received[h]) : received'[h][i] = received[h][i]
      /\ \A g \in Handles \ {h} : received'[g] = received[g]
  BY <1>1 DEF Send, IInv, TypeOK
<1>7. UNCHANGED <<sessions, conn, msgCh, sent, msg>> /\ loopPc' = "bcast" /\ Taken' = Taken /\ todo' = todo \ {h}
  BY DEF Send, clientVars, writeVars, Taken
<1>8. Streams'
  BY <1>1, <1>6, <1>7 DEF IInv, TypeOK, Streams
<1>9. InOrder'
  <2> SUFFICES ASSUME NEW g \in Handles, NEW i \in 1..(Len(received'[g]) - 1)
               PROVE  received'[g][i + 1] = received'[g][i] + 1
    BY DEF InOrder
  <2>1. CASE g = h /\ i = Len(received[h])
    BY <2>1, <1>1, <1>6
  <2>2. CASE g = h /\ i # Len(received[h])
    <3>1. i \in 1..(Len(received[h]) - 1) /\ i \in 1..Len(received[h]) /\ i + 1 \in 1..Len(received[h])
      BY <2>2, <1>1, <1>6
    <3>2. received[h][i + 1] = received[h][i] + 1
      BY <3>1 DEF IInv, InOrder
    <3> QED
      BY <2>2, <3>1, <3>2, <1>6
  <2>3. CASE g # h
    BY <2>3, <1>6 DEF IInv, InOrder
  <2> QED
    BY <2>1, <2>2, <2>3
<1> QED
  BY <1>3, <1>4, <1>5, <1>8, <1>9 DEF IInv

LEMMA SendFailsIInv == ASSUME IInv, NEW h \in Handles, SendFails(h) PROVE IInv'
<1>1. TypeOK' /\ Seats' /\ Closing' /\ Handing' /\ InOrder'
  BY DEF SendFails, handleVars, clientVars, writeVars, stopVars,
         IInv, TypeOK, Seats, Left, Closing, Handing, InOrder
<1>2. Streams'
  BY DEF SendFails, clientVars, writeVars, IInv, TypeOK, Handing, Streams, Taken
<1> QED
  BY <1>1, <1>2 DEF IInv

LEMMA SendErrIInv == ASSUME IInv, SendErr PROVE IInv'
<1>1. target \in sessions /\ target \in Handles
  BY DEF SendErr, IInv, TypeOK, Handing
<1>2. TypeOK'
  BY <1>1 DEF SendErr, clientVars, writeVars, IInv, TypeOK
<1>3. Seats'
  BY <1>1 DEF SendErr, IInv, TypeOK, Seats, Left
<1>4. Closing'
  BY <1>1 DEF SendErr, IInv, Seats, Left, Closing
<1>5. Handing' /\ Streams' /\ InOrder'
  BY DEF SendErr, clientVars, writeVars, IInv, Handing, Streams, Taken, InOrder
<1> QED
  BY <1>2, <1>3, <1>4, <1>5 DEF IInv

LEMMA EndMsgIInv == ASSUME IInv, EndMsg PROVE IInv'
BY MonitorAssumption
   DEF MonitorAssumption, EndMsg, handleVars, clientVars, writeVars, stopVars,
       IInv, TypeOK, Seats, Left, Closing, Handing, Streams, Taken, InOrder

LEMMA ExitIInv == ASSUME IInv, Exit PROVE IInv'
<1>1. Cardinality({}) <= MaxSessions
  BY FS_EmptySet, MonitorAssumption DEF MonitorAssumption
<1> QED
  BY <1>1 DEF Exit, handleVars, clientVars, writeVars, stopVars,
       IInv, TypeOK, Seats, Left, Closing, Handing, Streams, Taken, InOrder

\* The task.
LEMMA WriteIInv == ASSUME IInv, Write PROVE IInv'
<1>1. /\ Len(msgCh') = Len(msgCh) + 1 /\ Len(msgCh) \in Nat
      /\ msgCh' \in Seq(1..NumMsgs) /\ Len(msgCh') <= MsgBuf
      /\ msgCh'[Len(msgCh')] = sent + 1
      /\ \A i \in 1..Len(msgCh) : msgCh'[i] = msgCh[i]
  BY MonitorAssumption DEF MonitorAssumption, Write, IInv, TypeOK
<1>2. TypeOK'
  BY <1>1, MonitorAssumption
  DEF MonitorAssumption, Write, handleVars, clientVars, loopVars, stopVars, IInv, TypeOK
<1>3. Seats' /\ Closing' /\ Handing' /\ InOrder'
  BY DEF Write, handleVars, clientVars, loopVars, stopVars, IInv, Seats, Left, Closing, Handing, InOrder
<1>4. Taken' = Taken /\ sent + 1 = Taken + Len(msgCh')
  BY <1>1 DEF Write, IInv, TypeOK, Taken
<1>5. Streams'
  BY <1>1, <1>4 DEF Write, clientVars, loopVars, IInv, Streams
<1> QED
  BY <1>2, <1>3, <1>5 DEF IInv

\* The clients, the owner, and the channels that are closed in the end.
LEMMA OthersIInv ==
  ASSUME IInv,
         (\E h \in Handles : End(h) \/ Break(h) \/ Stall(h)) \/ Close \/ CloseChans \/ UNCHANGED vars
  PROVE  IInv'
<1>1. UNCHANGED <<handleVars, loopVars, writeVars, crashed>>
  BY DEF End, Break, Stall, Close, CloseChans, vars, stopVars
<1>2. /\ ended' \in [Handles -> BOOLEAN] /\ conn' \in [Handles -> {"up", "stalled", "broken"}]
      /\ \A h \in Handles : conn[h] = "broken" => conn'[h] = "broken"
  <2>1. CASE \E h \in Handles : End(h) \/ Break(h) \/ Stall(h)
    BY <2>1 DEF End, Break, Stall, IInv, TypeOK
  <2>2. CASE Close \/ CloseChans \/ UNCHANGED vars
    BY <2>2 DEF Close, CloseChans, vars, clientVars, IInv, TypeOK
  <2> QED
    BY <2>1, <2>2
<1>3. /\ monDone' \in BOOLEAN /\ (monDone => monDone')
      /\ chansClosed' \in BOOLEAN /\ (chansClosed' => loopPc = "exited")
  <2>1. CASE \E h \in Handles : End(h) \/ Break(h) \/ Stall(h)
    BY <2>1 DEF End, Break, Stall, stopVars, IInv, TypeOK, Closing
  <2>2. CASE Close
    BY <2>2 DEF Close, IInv, TypeOK, Closing
  <2>3. CASE CloseChans
    BY <2>3 DEF CloseChans, IInv, TypeOK
  <2>4. CASE UNCHANGED vars
    BY <2>4 DEF vars, stopVars, IInv, TypeOK, Closing
  <2> QED
    BY <2>1, <2>2, <2>3, <2>4
<1>4. TypeOK'
  BY <1>1, <1>2, <1>3 DEF handleVars, loopVars, writeVars, IInv, TypeOK
<1>5. Handing' /\ InOrder'
  BY <1>1 DEF loopVars, IInv, Handing, InOrder
<1>6. Seats'
  BY <1>1, <1>3 DEF handleVars, loopVars, IInv, Seats, Left
<1>7. Closing'
  BY <1>1, <1>3 DEF handleVars, loopVars, IInv, Closing
<1>8. Streams'
  BY <1>1, <1>2 DEF loopVars, writeVars, IInv, TypeOK, Streams, Taken
<1> QED
  BY <1>4, <1>5, <1>6, <1>7, <1>8 DEF IInv

-----------------------------------------------------------------------------
LEMMA NextIInv == IInv /\ [Next]_vars => IInv'
<1> SUFFICES ASSUME IInv, [Next]_vars PROVE IInv'
  OBVIOUS
<1>1. ASSUME NEW h \in Handles, Begin(h) \/ InitSession(h) \/ FreeSession(h) \/ HandleStep(h)
      PROVE  IInv'
  BY <1>1, RequestIInv, InitSessionIInv, FreeSessionIInv DEF HandleStep
<1>2. CASE LoopStep
  BY <1>2, ReceiveMsgIInv, NextSessionIInv, SendIInv, SendFailsIInv, SendErrIInv, EndMsgIInv, ExitIInv DEF LoopStep
<1>3. CASE Write
  BY <1>3, WriteIInv
<1>4. CASE (\E h \in Handles : End(h) \/ Break(h) \/ Stall(h)) \/ Close \/ CloseChans \/ UNCHANGED vars
  BY <1>4, OthersIInv
<1> QED
  BY <1>1, <1>2, <1>3, <1>4 DEF Next

\* The inductive invariant of the log monitor: who has a session, and which messages
\* have come how far.
THEOREM MonitorInvariant == Spec => []IInv
<1> QED
  BY InitIInv, NextIInv, PTL DEF Spec

\* No more sessions than the limit, and none of a request that has returned or was turned
\* away (async.go:200-249).
THEOREM KeepsSessionsLive == Spec => []SessionsLive
<1>1. IInv => SessionsLive
  BY DEF IInv, TypeOK, Seats, SessionsLive
<1> QED
  BY <1>1, MonitorInvariant, PTL

\* A session sees the messages in the order of writing and without a gap
\* (async.go:174-182, 249-255).
THEOREM SendsInOrder == Spec => []InOrder
<1>1. IInv => InOrder
  BY DEF IInv
<1> QED
  BY <1>1, MonitorInvariant, PTL

\* runLoop and Handle do not panic while the monitor is open: runLoop sends to sessions
\* whose Handle has not returned (async.go:203-223, 253).
THEOREM PanicsOnlyAfterClose == Spec => []PanicOnlyAfterClose
<1>1. IInv => PanicOnlyAfterClose
  BY DEF IInv, Closing, PanicOnlyAfterClose
<1> QED
  BY <1>1, MonitorInvariant, PTL
=============================================================================
