----------------------- MODULE InventoryIndexingProofs -----------------------
(***************************************************************************)
(* Proofs about Pipeline and InventoryIndexing, which extends it.          *)
(*                                                                         *)
(* Pipeline, for every number of jobs and every finite set of workers: the *)
(* inductive invariant IInv, the safety properties that follow from it,    *)
(* and that Run implements FanOut.                                         *)
(*                                                                         *)
(* InventoryIndexing, for every number of paths, workers, pages, batches,  *)
(* faults and changes: a run of it is a run of Pipeline, and with the      *)
(* invariants of Pipeline, that an error stops the writing, that a clean   *)
(* run leaves nothing behind, and that without an error no goroutine is    *)
(* handed a transaction that is not there.                                 *)
(***************************************************************************)
EXTENDS InventoryIndexing, FiniteSetTheorems, SequenceTheorems, TLAPS

-----------------------------------------------------------------------------
(* pipeline.Run *)

LEMMA CapacityIsPositive == Capacity \in Nat \ {0}
  BY FS_CardinalityType, FS_EmptySet, PipelineAssumption DEF Capacity

LEMMA InitIInv == Init => IInv
<1> SUFFICES ASSUME Init PROVE IInv
  OBVIOUS
<1> USE PipelineAssumption DEF Init
<1>1. TypeOK
  <2>1. next \in 1..(NumJobs + 1) /\ refused \subseteq 1..(next - 1)
    BY DEF PipelineAssumption
  <2>2. workerPc \in [Workers -> {"recv", "work", "push", "done"}]
        /\ job \in [Workers -> 0..NumJobs]
        /\ calls \in [Jobs -> Nat]
    BY DEF PipelineAssumption
  <2>3. resultQ \in Seq(Jobs) /\ Len(resultQ) <= Capacity
    BY CapacityIsPositive
  <2> QED
    BY <2>1, <2>2, <2>3 DEF TypeOK
<1>2. Accepted = {} /\ Held = {} /\ Queued = {} /\ Called = {}
  BY DEF Accepted, Held, Busy, Queued, Called, Jobs
<1>3. AtMostOnce /\ HeldOnce /\ QueuedOnce
  BY DEF AtMostOnce, HeldOnce, Busy, QueuedOnce, Jobs
<1>4. Control
  BY DEF Control, Done
<1>5. NothingLost
  BY <1>2 DEF NothingLost
<1> QED
  BY <1>1, <1>3, <1>4, <1>5 DEF IInv

LEMMA AddWorkIInv == ASSUME IInv, NEW w \in Workers, AddWork(w) PROVE IInv'
<1> USE PipelineAssumption DEF IInv, AddWork, setupVars, workerVars, mainVars
<1>1. TypeOK'
  BY CapacityIsPositive DEF TypeOK, Jobs, Capacity
<1>2. next \in Jobs /\ next \notin Accepted /\ Accepted' = Accepted \cup {next}
  BY DEF TypeOK, Jobs, Accepted
<1>3. Held' = Held \cup {next}
  BY DEF TypeOK, Held, Busy
<1>4. Queued' = Queued /\ Called' = Called
  BY DEF Queued, Called
<1>5. NothingLost'
  BY <1>2, <1>3, <1>4 DEF NothingLost
<1>6. HeldOnce'
  <2>1. \A v \in Workers : Busy(v) => job[v] # next
    BY <1>2 DEF NothingLost, Held
  <2> QED
    BY <2>1 DEF HeldOnce, Busy, TypeOK
<1>7. AtMostOnce' /\ QueuedOnce'
  BY DEF AtMostOnce, QueuedOnce
<1>8. Control'
  BY DEF Control, Done, TypeOK
<1> QED
  BY <1>1, <1>5, <1>6, <1>7, <1>8

LEMMA AddRefusedIInv == ASSUME IInv, AddRefused PROVE IInv'
<1> USE PipelineAssumption DEF IInv, AddRefused, setupVars, workerVars, mainVars
<1>1. TypeOK'
  BY CapacityIsPositive DEF TypeOK, Jobs, Capacity
<1>2. Accepted' = Accepted
  BY DEF TypeOK, Accepted
<1>3. Held' = Held /\ Queued' = Queued /\ Called' = Called
  BY DEF Held, Busy, Queued, Called
<1>4. NothingLost'
  BY <1>2, <1>3 DEF NothingLost
<1>5. AtMostOnce' /\ HeldOnce' /\ QueuedOnce'
  BY DEF AtMostOnce, HeldOnce, Busy, QueuedOnce
<1>6. Control'
  BY DEF Control, Done
<1> QED
  BY <1>1, <1>4, <1>5, <1>6

\* A step that moves no job and calls no function keeps what IInv says of jobs.
LEMMA JobsUnmovedIInv ==
  ASSUME IInv,
         UNCHANGED <<next, refused, job, resultQ, calls>>,
         \A v \in Workers : Busy(v)' <=> Busy(v)
  PROVE  AtMostOnce' /\ NothingLost' /\ HeldOnce' /\ QueuedOnce'
<1>1. Held' = Held
  BY DEF Held
<1>2. Accepted' = Accepted /\ Queued' = Queued /\ Called' = Called
  BY DEF Accepted, Queued, Called
<1> QED
  BY <1>1, <1>2 DEF IInv, AtMostOnce, NothingLost, HeldOnce, QueuedOnce

LEMMA SetupReturnsIInv ==
  ASSUME IInv, NEW err \in {"nil", "err"}, SetupReturns(err) PROVE IInv'
<1> USE DEF SetupReturns, setupVars, workerVars, mainVars
<1>1. TypeOK'
  BY DEF IInv, TypeOK, Jobs, Capacity
<1>2. \A v \in Workers : Busy(v)' <=> Busy(v)
  BY DEF Busy
<1>3. Control'
  BY DEF IInv, Control, Done
<1> QED
  BY <1>1, <1>2, <1>3, JobsUnmovedIInv DEF IInv

LEMMA CloseWorkQIInv == ASSUME IInv, CloseWorkQ PROVE IInv'
<1> USE DEF CloseWorkQ, setupVars, workerVars, mainVars
<1>1. TypeOK'
  BY DEF IInv, TypeOK, Jobs, Capacity
<1>2. \A v \in Workers : Busy(v)' <=> Busy(v)
  BY DEF Busy
<1>3. Control'
  BY DEF IInv, Control, Done
<1> QED
  BY <1>1, <1>2, <1>3, JobsUnmovedIInv DEF IInv

LEMMA WorkIInv == ASSUME IInv, NEW w \in Workers, Work(w) PROVE IInv'
<1> USE DEF Work, setupVars, workerVars, mainVars
<1>1. TypeOK'
  BY DEF IInv, TypeOK, Jobs, Capacity
<1>2. \A v \in Workers : Busy(v)' <=> Busy(v)
  BY DEF IInv, TypeOK, Busy
<1>3. Control'
  BY DEF IInv, TypeOK, Control, Done
<1> QED
  BY <1>1, <1>2, <1>3, JobsUnmovedIInv DEF IInv

LEMMA WorkerExitIInv == ASSUME IInv, NEW w \in Workers, WorkerExit(w) PROVE IInv'
<1> USE DEF WorkerExit, setupVars, workerVars, mainVars
<1>1. TypeOK'
  BY DEF IInv, TypeOK, Jobs, Capacity
<1>2. \A v \in Workers : Busy(v)' <=> Busy(v)
  BY DEF IInv, TypeOK, Busy
<1>3. Control'
  BY DEF IInv, TypeOK, Control, Done
<1> QED
  BY <1>1, <1>2, <1>3, JobsUnmovedIInv DEF IInv

LEMMA PushIInv == ASSUME IInv, NEW w \in Workers, Push(w) PROVE IInv'
<1> USE DEF IInv, Push, setupVars, workerVars, mainVars
<1>1. Busy(w) /\ job[w] \in Held
  BY DEF Held, Busy
<1>2. job[w] \in Jobs
  BY <1>1 DEF NothingLost, Accepted, TypeOK, Jobs
<1>3. TypeOK'
  <2>1. resultQ' \in Seq(Jobs) /\ Len(resultQ') = Len(resultQ) + 1
    BY <1>2 DEF TypeOK
  <2>2. Len(resultQ') <= Capacity
    BY <2>1, CapacityIsPositive DEF TypeOK
  <2> QED
    BY <2>1, <2>2 DEF TypeOK, Jobs, Capacity
<1>4. Held' = Held \ {job[w]}
  <2>1. \A v \in Workers : Busy(v)' <=> Busy(v) /\ v # w
    BY DEF TypeOK, Busy
  <2>2. \A v \in Workers : Busy(v) /\ v # w => job[v] # job[w]
    BY <1>1 DEF HeldOnce
  <2> QED
    BY <2>1, <2>2 DEF Held
<1>5. Len(resultQ') = Len(resultQ) + 1
      /\ \A i \in 1..Len(resultQ) : resultQ'[i] = resultQ[i]
      /\ resultQ'[Len(resultQ) + 1] = job[w]
      /\ Len(resultQ) \in Nat
  BY <1>2 DEF TypeOK
<1>6. Queued' = Queued \cup {job[w]}
  BY <1>5 DEF Queued
<1>7. Accepted' = Accepted /\ Called' = Called
  BY DEF Accepted, Called
<1>8. NothingLost'
  BY <1>1, <1>4, <1>6, <1>7 DEF NothingLost
<1>9. HeldOnce'
  BY DEF HeldOnce, Busy, TypeOK
<1>10. QueuedOnce'
  <2>1. \A i \in 1..Len(resultQ) : resultQ[i] # job[w]
    BY <1>1 DEF NothingLost, Queued
  <2> QED
    BY <2>1, <1>5 DEF QueuedOnce
<1>11. AtMostOnce'
  BY DEF AtMostOnce
<1>12. Control'
  <2>1. ~resultQClosed
    BY <1>1 DEF Control, Done, Busy
  <2> QED
    BY <2>1 DEF Control, Done, TypeOK
<1> QED
  BY <1>3, <1>8, <1>9, <1>10, <1>11, <1>12

LEMMA CloseResultQIInv == ASSUME IInv, CloseResultQ PROVE IInv'
<1> USE DEF CloseResultQ, setupVars, workerVars, mainVars
<1>1. TypeOK'
  BY DEF IInv, TypeOK, Jobs, Capacity
<1>2. \A v \in Workers : Busy(v)' <=> Busy(v)
  BY DEF Busy
<1>3. Control'
  BY DEF IInv, Control, Done
<1> QED
  BY <1>1, <1>2, <1>3, JobsUnmovedIInv DEF IInv

LEMMA ReceiveIInv == ASSUME IInv, Receive PROVE IInv'
<1> USE DEF IInv, Receive, setupVars, workerVars, mainVars
<1> DEFINE j == Head(resultQ)
<1>1. /\ Len(resultQ) \in Nat \ {0}
      /\ j = resultQ[1]
      /\ j \in Jobs
      /\ Len(resultQ') = Len(resultQ) - 1
      /\ \A i \in 1..Len(resultQ') : resultQ'[i] = resultQ[i + 1]
  BY DEF TypeOK
<1>2. TypeOK'
  <2>1. resultQ' \in Seq(Jobs) /\ Len(resultQ') <= Capacity
    BY <1>1, CapacityIsPositive DEF TypeOK
  <2>2. calls' \in [Jobs -> Nat]
    BY <1>1 DEF TypeOK
  <2> QED
    BY <2>1, <2>2 DEF TypeOK, Jobs, Capacity
<1>3. j \in Queued /\ calls[j] = 0
  <2>1. j \in Queued
    BY <1>1 DEF Queued
  <2>2. j \notin Called
    BY <2>1 DEF NothingLost
  <2> QED
    BY <2>1, <2>2, <1>1 DEF Called, TypeOK
<1>4. Queued' = Queued \ {j}
  <2>1. \A i \in 2..Len(resultQ) : resultQ[i] # j
    BY <1>1 DEF QueuedOnce
  <2>2. Queued = {resultQ[i] : i \in 2..Len(resultQ)} \cup {j}
    BY <1>1 DEF Queued
  <2>3. Queued' = {resultQ[i] : i \in 2..Len(resultQ)}
    <3>1. \A i \in 2..Len(resultQ) : i - 1 \in 1..Len(resultQ') /\ resultQ[i] = resultQ'[i - 1]
      BY <1>1
    <3>2. \A i \in 1..Len(resultQ') : i + 1 \in 2..Len(resultQ)
      BY <1>1
    <3>3. Queued' = {resultQ'[i] : i \in 1..Len(resultQ')}
      BY DEF Queued
    <3>4. \A x \in Queued' : \E i \in 2..Len(resultQ) : x = resultQ[i]
      BY <1>1, <3>2, <3>3
    <3>5. \A i \in 2..Len(resultQ) : resultQ[i] \in Queued'
      BY <3>1, <3>3
    <3> QED
      BY <3>4, <3>5
  <2> QED
    BY <2>1, <2>2, <2>3
<1>5. Called' = Called \cup {j}
  BY <1>1 DEF Called, TypeOK
<1>6. Accepted' = Accepted /\ Held' = Held
  BY DEF Accepted, Held, Busy
<1>7. NothingLost'
  BY <1>3, <1>4, <1>5, <1>6 DEF NothingLost
<1>8. AtMostOnce'
  BY <1>1, <1>3 DEF AtMostOnce, TypeOK
<1>9. HeldOnce'
  BY DEF HeldOnce, Busy
<1>10. QueuedOnce'
  BY <1>1 DEF QueuedOnce
<1>11. Control'
  BY DEF Control, Done
<1> QED
  BY <1>2, <1>7, <1>8, <1>9, <1>10, <1>11

LEMMA CallerIInv ==
  ASSUME IInv,
         (\E err \in BOOLEAN : ResultReturns(err)) \/ RangeEnds \/ CloseTerm \/ Return
  PROVE  IInv'
<1> USE DEF ResultReturns, RangeEnds, CloseTerm, Return, setupVars, workerVars, mainVars
<1>1. TypeOK'
  BY DEF IInv, TypeOK, Jobs, Capacity
<1>2. \A v \in Workers : Busy(v)' <=> Busy(v)
  BY DEF Busy
<1>3. Control'
  BY DEF IInv, TypeOK, Control, Done
<1> QED
  BY <1>1, <1>2, <1>3, JobsUnmovedIInv DEF IInv

LEMMA StutterIInv == ASSUME IInv, UNCHANGED vars PROVE IInv'
<1> USE DEF vars, setupVars, workerVars, mainVars
<1>1. TypeOK' /\ Control'
  BY DEF IInv, TypeOK, Jobs, Capacity, Control, Done
<1>2. \A v \in Workers : Busy(v)' <=> Busy(v)
  BY DEF Busy
<1> QED
  BY <1>1, <1>2, JobsUnmovedIInv DEF IInv

LEMMA NextIInv == IInv /\ [Next]_vars => IInv'
<1> SUFFICES ASSUME IInv, [Next]_vars PROVE IInv'
  OBVIOUS
<1>1. CASE SetupStep
  BY <1>1, AddWorkIInv, AddRefusedIInv, SetupReturnsIInv, CloseWorkQIInv DEF SetupStep
<1>2. CASE SetupReturns("err")
  BY <1>2, SetupReturnsIInv
<1>3. ASSUME NEW w \in Workers, WorkerStep(w) PROVE IInv'
  BY <1>3, WorkIInv, PushIInv, WorkerExitIInv DEF WorkerStep
<1>4. CASE CloseResultQ
  BY <1>4, CloseResultQIInv
<1>5. CASE MainStep
  BY <1>5, ReceiveIInv, CallerIInv DEF MainStep
<1>6. CASE Returned \/ UNCHANGED vars
  BY <1>6, StutterIInv DEF Returned
<1> QED
  BY <1>1, <1>2, <1>3, <1>4, <1>5, <1>6 DEF Next

\* IInv is an invariant of Run: jobs are neither lost nor duplicated between
\* addWork and resultFn, and channels close in order (pipeline.go:46-109).
THEOREM RunInvariant == Spec => []IInv
  BY InitIInv, NextIInv, PTL DEF Spec

-----------------------------------------------------------------------------
(* Safety of Run *)

LEMMA IInvClean == IInv => CleanReturn /\ NoSendOnClosed
<1> SUFFICES ASSUME IInv PROVE CleanReturn /\ NoSendOnClosed
  OBVIOUS
<1>1. NoSendOnClosed
  BY DEF IInv, Control, Done, Busy, NoSendOnClosed
<1>2. ASSUME mainPc = "returned", ~resultErr
      PROVE  Called = Accepted /\ \A w \in Workers : Done(w)
  <2>1. resultQ = <<>> /\ \A w \in Workers : Done(w)
    BY <1>2 DEF IInv, Control
  <2>2. Held = {} /\ Queued = {}
    BY <2>1 DEF Held, Busy, Done, Queued
  <2> QED
    BY <2>1, <2>2 DEF IInv, NothingLost
<1> QED
  BY <1>1, <1>2 DEF CleanReturn

\* resultFn is called at most once for a job (pipeline.go:78-103).
THEOREM ResultsOnce == Spec => []AtMostOnce
<1>1. IInv => AtMostOnce
  BY DEF IInv
<1> QED
  BY <1>1, RunInvariant, PTL

\* A job that was accepted is with a worker, in resultQ or was given to resultFn, and in
\* one of the three only (pipeline.go:62-84).
THEOREM LosesNothing == Spec => []NothingLost
<1>1. IInv => NothingLost
  BY DEF IInv
<1> QED
  BY <1>1, RunInvariant, PTL

\* A Run that returns without an error of resultFn gave it every job it
\* accepted, and all its workers have ended (pipeline.go:94-108).
THEOREM ReturnsClean == Spec => []CleanReturn
  BY IInvClean, RunInvariant, PTL

\* No worker panics on a closed resultQ (pipeline.go:83, 87-90).
THEOREM NeverSendsOnClosed == Spec => []NoSendOnClosed
  BY IInvClean, RunInvariant, PTL

\* resultFn is not called again after it failed (pipeline.go:98).
THEOREM StopsCalling == Spec => NoCallAfterError
<1>1. IInv /\ [Next]_vars => [resultErr => calls' = calls]_vars
  <2> SUFFICES ASSUME IInv, Next, resultErr PROVE calls' = calls
    OBVIOUS
  <2>1. mainPc \notin {"range", "call"}
    BY DEF IInv, Control
  <2> QED
    BY <2>1 DEF Next, SetupStep, AddWork, AddRefused, SetupReturns, CloseWorkQ,
       WorkerStep, Work, Push, WorkerExit, CloseResultQ, MainStep, Receive, ResultReturns,
       RangeEnds, CloseTerm, Return, Returned, mainVars, vars
<1> QED
  BY <1>1, RunInvariant, PTL DEF Spec, NoCallAfterError

-----------------------------------------------------------------------------
(* Run implements FanOut *)

LEMMA InitRefines == Init => Abstract!FanOutInit
<1> SUFFICES ASSUME Init PROVE Abstract!FanOutInit
  OBVIOUS
<1>1. Accepted = {} /\ Called = {}
  BY DEF Init, Accepted, Called, Jobs
<1> QED
  BY <1>1 DEF Init, runStatus, Abstract!FanOutInit

\* Every step of Run is a step of FanOut or leaves its state alone.
LEMMA NextRefines ==
  IInv /\ [Next]_vars => [Abstract!FanOutNext]_(Abstract!fanOutVars)
<1> SUFFICES ASSUME IInv, [Next]_vars
             PROVE  [Abstract!FanOutNext]_(Abstract!fanOutVars)
  OBVIOUS
<1> USE DEF setupVars, workerVars, mainVars, runStatus, Abstract!fanOutVars
<1> DEFINE Stutters == UNCHANGED <<Accepted, Called, runStatus>>
<1>1. ASSUME NEW w \in Workers, AddWork(w) PROVE Abstract!Accept(next)
  <2>1. next \in Jobs /\ next \notin Accepted /\ Accepted' = Accepted \cup {next}
    BY <1>1 DEF IInv, TypeOK, Jobs, Accepted, AddWork
  <2>2. mainPc # "returned"
    BY <1>1 DEF IInv, Control, AddWork
  <2> QED
    BY <1>1, <2>1, <2>2 DEF AddWork, Called, Abstract!Accept
<1>2. ASSUME AddRefused PROVE Stutters
  <2>1. Accepted' = Accepted
    BY <1>2 DEF IInv, TypeOK, Accepted, AddRefused
  <2> QED
    BY <1>2, <2>1 DEF AddRefused, Called
<1>3. ASSUME NEW err \in {"nil", "err"}, SetupReturns(err) PROVE Stutters
  <2>1. mainPc # "returned"
    BY <1>3 DEF IInv, Control, SetupReturns
  <2> QED
    BY <1>3, <2>1 DEF SetupReturns, Accepted, Called
<1>4. ASSUME NEW w \in Workers, WorkerStep(w) PROVE Stutters
  BY <1>4 DEF WorkerStep, Work, Push, WorkerExit, Accepted, Called
<1>5. ASSUME CloseWorkQ \/ CloseResultQ \/ RangeEnds \/ CloseTerm PROVE Stutters
  BY <1>5 DEF CloseWorkQ, CloseResultQ, RangeEnds, CloseTerm, Accepted, Called
<1>6. ASSUME Receive PROVE Abstract!Handle(Head(resultQ)) /\ Head(resultQ) \in Jobs
  <2>1. Head(resultQ) \in Queued /\ Head(resultQ) \in Jobs
    BY <1>6 DEF IInv, TypeOK, Queued, Receive
  <2>2. Head(resultQ) \in Accepted \ Called
    BY <2>1 DEF IInv, NothingLost
  <2>3. Called' = Called \cup {Head(resultQ)}
    BY <1>6, <2>1 DEF IInv, TypeOK, Called, Receive
  <2>4. runStatus = "running" /\ runStatus' = "calling"
    BY <1>6 DEF IInv, Control, Receive
  <2>5. Accepted' = Accepted
    BY <1>6 DEF Accepted, Receive
  <2> QED
    BY <2>1, <2>2, <2>3, <2>4, <2>5 DEF Abstract!Handle
<1>7. ASSUME NEW err \in BOOLEAN, ResultReturns(err) PROVE Abstract!CallReturns
  <2>1. UNCHANGED <<Accepted, Called>>
    BY <1>7 DEF ResultReturns, Accepted, Called
  <2>2. runStatus = "calling" /\ runStatus' \in {"running", "failing"}
    BY <1>7 DEF IInv, Control, ResultReturns
  <2> QED
    BY <2>1, <2>2 DEF Abstract!CallReturns
<1>8. ASSUME Return PROVE Abstract!ReturnAll \/ Abstract!ReturnFailed
  <2>1. UNCHANGED <<Accepted, Called>>
    BY <1>8 DEF Return, Accepted, Called
  <2>2. CASE resultErr
    BY <1>8, <2>1, <2>2 DEF Return, Abstract!ReturnFailed
  <2>3. CASE ~resultErr
    <3>1. resultQ = <<>> /\ \A w \in Workers : Done(w)
      BY <1>8, <2>3 DEF IInv, Control, Return
    <3>2. Held = {} /\ Queued = {}
      BY <3>1 DEF Held, Busy, Done, Queued
    <3>3. Called = Accepted
      BY <3>2 DEF IInv, NothingLost
    <3> QED
      BY <1>8, <2>1, <2>3, <3>3 DEF Return, Abstract!ReturnAll
  <2> QED
    BY <2>2, <2>3
<1>9. ASSUME Returned \/ UNCHANGED vars PROVE Stutters
  BY <1>9 DEF Returned, vars, Accepted, Called
<1>10. \A j \in Jobs : Abstract!Accept(j) \/ Abstract!Handle(j) => Abstract!FanOutNext
  BY DEF Abstract!FanOutNext
<1>11. CASE SetupStep
  <2>1. ASSUME NEW w \in Workers, AddWork(w) PROVE next \in Jobs
    BY <2>1 DEF IInv, TypeOK, Jobs, AddWork
  <2> QED
    BY <1>1, <1>2, <1>3, <1>5, <1>10, <1>11, <2>1 DEF SetupStep
<1>12. CASE MainStep
  BY <1>5, <1>6, <1>7, <1>8, <1>10, <1>12 DEF MainStep, Abstract!FanOutNext
<1> QED
  BY <1>3, <1>4, <1>5, <1>9, <1>11, <1>12 DEF Next

\* Run keeps the promises of FanOut (pipeline.go:26-44).
THEOREM RunImplementsFanOut == Spec => ImplementsFanOut
  BY InitRefines, NextRefines, RunInvariant, PTL
  DEF Spec, ImplementsFanOut, Abstract!FanOutSpec

-----------------------------------------------------------------------------
(* indexInventories *)

\* Every step of indexInventories is a step of pipeline.Run or leaves it alone.
LEMMA IdxNextRefines == ASSUME [IdxNext]_idxVars PROVE [Next]_vars
<1>1. CASE UNCHANGED idxVars
  BY <1>1 DEF idxVars
<1>2. ASSUME NEW p \in Jobs, NEW inv \in Digests \cup {Bad}, ChangeObject(p, inv)
      PROVE  [Next]_vars
  BY <1>2 DEF ChangeObject
<1>3. CASE AddPathsStep
  <2>1. CASE TakeToList \/ ListPage \/ NextPage
    BY <2>1 DEF TakeToList, ListPage, NextPage
  <2>2. ASSUME NEW w \in Workers, AddPath(w) PROVE Next
    BY <2>2 DEF AddPath, Next, SetupStep
  <2>3. CASE AddPathRefused
    BY <2>3 DEF AddPathRefused, Next, SetupStep
  <2>4. CASE AddPathsReturns
    BY <2>4 DEF AddPathsReturns, Next, SetupStep
  <2> QED
    BY <1>3, <2>1, <2>2, <2>3, <2>4 DEF AddPathsStep
<1>4. CASE CloseQueue
  BY <1>4 DEF CloseQueue, Next, SetupStep
<1>5. ASSUME NEW w \in Workers, ParseStep(w) PROVE [Next]_vars
  <2>1. CASE TakeToQuery(w) \/ Query(w)
    BY <2>1 DEF TakeToQuery, Query
  <2>2. CASE QueryFails(w) \/ Validate(w)
    BY <2>2 DEF QueryFails, Validate, Next, WorkerStep
  <2>3. CASE Queue(w)
    BY <2>3 DEF Queue, Next, WorkerStep
  <2> QED
    BY <1>5, <2>1, <2>2, <2>3 DEF ParseStep
<1>6. CASE CloseResults
  BY <1>6 DEF CloseResults, Next
<1>7. CASE CallerStep
  <2>1. CASE CallIndex
    BY <2>1 DEF CallIndex, Next, MainStep
  <2>2. CASE IndexReturns
    BY <2>2 DEF IndexReturns, Next, MainStep
  <2>3. CASE TakeToWrite
    BY <2>3 DEF TakeToWrite
  <2>4. CASE WriteInventory
    BY <2>4 DEF WriteInventory, NewTxError, Next, MainStep
  <2>5. CASE RunStep
    BY <2>5 DEF RunStep, Next, MainStep
  <2>6. CASE RunReturned \/ FinalCommit \/ CloseTxCh
    BY <2>6 DEF RunReturned, FinalCommit, CloseTxCh
  <2> QED
    BY <1>7, <2>1, <2>2, <2>3, <2>4, <2>5, <2>6 DEF CallerStep
<1> QED
  BY <1>1, <1>2, <1>3, <1>4, <1>5, <1>6, <1>7 DEF IdxNext, Ended

\* indexInventories uses pipeline.Run as it is: each of its behaviours is one of
\* Pipeline, whose theorems hold of it (indexer.go:244).
THEOREM RunsPipeline == IdxSpec => Spec
<1>1. IdxInit => Init
  BY DEF IdxInit
<1> QED
  BY <1>1, IdxNextRefines, PTL DEF IdxSpec, Spec

-----------------------------------------------------------------------------
\* PhaseInv needs nothing of Pipeline but what IInv says of the caller and of its
\* errors, and, for a closed txCh, that a clean Run left no worker behind.

LEMMA InitPhaseInv == IdxInit => PhaseInv
  BY DEF IdxInit, PhaseInv

\* Whoever takes a transaction that is not there, in a worker or in the setup
\* function, does so after an error of index.
LEMMA TakesNilAfterError ==
  ASSUME IInv, PhaseInv, TakesNil, setupPc = "run" \/ \E w \in Workers : ~Done(w)
  PROVE  resultErr
<1>1. CASE txVal = "nil"
  BY <1>1 DEF PhaseInv
<1>2. CASE txChClosed
  <2>1. mainPc = "returned"
    BY <1>2 DEF PhaseInv
  <2>2. setupPc # "run"
    BY <2>1 DEF IInv, Control
  <2>3. ~resultErr => \A w \in Workers : Done(w)
    BY <2>1 DEF IInv, Control
  <2> QED
    BY <2>2, <2>3
<1> QED
  BY <1>1, <1>2 DEF TakesNil

LEMMA AddPathsPhaseInv == ASSUME IInv, PhaseInv, ~crashed, AddPathsStep PROVE PhaseInv'
<1> USE DEF vars, mainVars, callerVars, txVars
<1>1. CASE TakeToList
  BY <1>1, TakesNilAfterError DEF TakeToList, PhaseInv
<1>2. CASE ListPage \/ NextPage
  BY <1>2 DEF ListPage, NextPage, PhaseInv
<1>3. CASE (\E w \in Workers : AddPath(w)) \/ AddPathRefused
  BY <1>3 DEF AddPath, AddWork, AddPathRefused, AddRefused, PhaseInv
<1>4. CASE AddPathsReturns
  BY <1>4 DEF AddPathsReturns, SetupReturns, PhaseInv
<1> QED
  BY <1>1, <1>2, <1>3, <1>4 DEF AddPathsStep

LEMMA ParsePhaseInv ==
  ASSUME IInv, PhaseInv, ~crashed, NEW w \in Workers, ParseStep(w) PROVE PhaseInv'
<1> USE DEF vars, mainVars, callerVars, txVars
<1>1. CASE TakeToQuery(w)
  <2>1. ~Done(w)
    BY <1>1 DEF TakeToQuery, Done
  <2> QED
    BY <1>1, <2>1, TakesNilAfterError DEF TakeToQuery, PhaseInv
<1>2. CASE Query(w)
  BY <1>2 DEF Query, PhaseInv
<1>3. CASE QueryFails(w) \/ Validate(w)
  BY <1>3 DEF QueryFails, Validate, Work, PhaseInv
<1>4. CASE Queue(w)
  BY <1>4 DEF Queue, Push, WorkerExit, PhaseInv
<1> QED
  BY <1>1, <1>2, <1>3, <1>4 DEF ParseStep

LEMMA CallerPhaseInv == ASSUME IInv, PhaseInv, ~crashed, CallerStep PROVE PhaseInv'
<1> USE DEF vars, mainVars, callerVars, txVars
<1>1. CASE CallIndex
  BY <1>1 DEF CallIndex, Receive, PhaseInv
<1>2. CASE IndexReturns
  BY <1>2 DEF IndexReturns, ResultReturns, PhaseInv, IInv, Control
<1>3. CASE TakeToWrite
  BY <1>3 DEF TakeToWrite, PhaseInv
<1>4. CASE WriteInventory
  BY <1>4 DEF WriteInventory, NewTxError, ResultReturns, PhaseInv, IInv, Control
<1>5. CASE RunStep
  BY <1>5 DEF RunStep, RangeEnds, CloseTerm, Return, PhaseInv
<1>6. CASE RunReturned
  BY <1>6 DEF RunReturned, CommitOnlyIfOk, RunFailed, PhaseInv
<1>7. CASE FinalCommit
  BY <1>7 DEF FinalCommit, PhaseInv
<1>8. CASE CloseTxCh
  BY <1>8 DEF CloseTxCh, PhaseInv
<1> QED
  BY <1>1, <1>2, <1>3, <1>4, <1>5, <1>6, <1>7, <1>8 DEF CallerStep

LEMMA NextPhaseInv == ASSUME IInv, PhaseInv, [IdxNext]_idxVars PROVE PhaseInv'
<1>1. CASE UNCHANGED idxVars
  BY <1>1 DEF idxVars, vars, mainVars, callerVars, txVars, PhaseInv
<1>2. ASSUME ~crashed, NEW p \in Jobs, NEW inv \in Digests \cup {Bad}, ChangeObject(p, inv)
      PROVE  PhaseInv'
  BY <1>2 DEF ChangeObject, vars, mainVars, callerVars, txVars, PhaseInv
<1>3. CASE CloseQueue \/ CloseResults
  BY <1>3 DEF CloseQueue, CloseWorkQ, CloseResults, CloseResultQ, mainVars, callerVars,
              txVars, PhaseInv
<1> QED
  BY <1>1, <1>2, <1>3, AddPathsPhaseInv, ParsePhaseInv, CallerPhaseInv
     DEF IdxNext, Ended

THEOREM PhaseInvariant == IdxSpec => []PhaseInv
<1>1. IdxSpec => []IInv
  BY RunsPipeline, RunInvariant, PTL
<1> QED
  BY <1>1, InitPhaseInv, NextPhaseInv, PTL DEF IdxSpec

-----------------------------------------------------------------------------
\* Without an error of index no goroutine meets a nil transaction
\* (indexer.go:133-141, 231-241).
THEOREM CrashesOnlyAfterError == IdxSpec => []CrashOnlyAfterError
<1>1. PhaseInv => CrashOnlyAfterError
  BY DEF PhaseInv, CrashOnlyAfterError
<1> QED
  BY <1>1, PhaseInvariant, PTL

\* A run that ends well leaves no worker behind (indexer.go:137-141, 244-257).
THEOREM LeavesNothingBehind == IdxSpec => []NothingLeftBehind
<1>1. IInv /\ PhaseInv => NothingLeftBehind
  BY DEF IInv, Control, PhaseInv, NothingLeftBehind
<1>2. IdxSpec => []IInv
  BY RunsPipeline, RunInvariant, PTL
<1> QED
  BY <1>1, <1>2, PhaseInvariant, PTL

\* After an error of index nothing is committed (indexer.go:203-206, 244-246).
THEOREM StopsIndexing == IdxSpec => NoIndexingAfterError
<1>1. ASSUME IInv, PhaseInv, [IdxNext]_idxVars, resultErr
      PROVE  db' = db
  <2>1. mainPc # "call" /\ phase # "commit"
    BY <1>1 DEF IInv, Control, PhaseInv
  <2>2. CASE UNCHANGED idxVars
    BY <2>2 DEF idxVars, dataVars
  <2>3. ASSUME NEW p \in Jobs, NEW inv \in Digests \cup {Bad}, ChangeObject(p, inv)
        PROVE  db' = db
    BY <2>3 DEF ChangeObject
  <2>4. CASE AddPathsStep
    BY <2>4 DEF AddPathsStep, TakeToList, ListPage, NextPage, AddPath, AddPathRefused,
                AddPathsReturns, dataVars
  <2>5. CASE CloseQueue \/ CloseResults
    BY <2>5 DEF CloseQueue, CloseResults, dataVars
  <2>6. ASSUME NEW w \in Workers, ParseStep(w) PROVE db' = db
    BY <2>6 DEF ParseStep, TakeToQuery, Query, QueryFails, Validate, Queue, dataVars
  <2>7. CASE CallerStep
    BY <2>1, <2>7 DEF CallerStep, CallIndex, IndexReturns, TakeToWrite, WriteInventory,
                      RunStep, RunReturned, FinalCommit, CloseTxCh, dataVars
  <2> QED
    BY <1>1, <2>2, <2>3, <2>4, <2>5, <2>6, <2>7 DEF IdxNext, Ended
<1>2. IdxSpec => []IInv
  BY RunsPipeline, RunInvariant, PTL
<1>3. ASSUME IInv, PhaseInv, [IdxNext]_idxVars
      PROVE  [resultErr => db' = db]_idxVars
  BY <1>1, <1>3
<1> QED
  BY <1>2, <1>3, PhaseInvariant, PTL DEF IdxSpec, NoIndexingAfterError

-----------------------------------------------------------------------------
\* IdxTypeOK and MatchInv are inductive together: an inventory that is written is not
\* Bad, and what a result says of a path is looked up in functions on Jobs.

IdxIInv == IInv /\ PhaseInv /\ IdxTypeOK /\ MatchInv

LEMMA InitMatchInv == IdxInit => IdxTypeOK /\ MatchInv
<1> SUFFICES ASSUME IdxInit PROVE IdxTypeOK /\ MatchInv
  OBVIOUS
<1> USE PipelineAssumption, IndexingAssumption DEF PipelineAssumption, IndexingAssumption
<1>1. Init
  BY DEF IdxInit
<1>2. TypeOK
  BY <1>1, InitIInv DEF IInv
<1>3. Called = {} /\ Queued = {}
  BY <1>1 DEF Init, Called, Queued, Jobs
<1>4. IdxTypeOK
  <2>1. out \in [Jobs -> [err : BOOLEAN, prev : Digests \cup {NoRow}, inv : Digests \cup {Bad}]]
    BY DEF IdxInit, NoOut
  <2>2. /\ pageEnd \in 0..NumJobs /\ cur \in 0..NumJobs
        /\ faults \in Nat /\ changes \in Nat /\ faults + changes <= MaxEvents /\ numObjs \in Nat
    BY DEF IdxInit
  <2>3. /\ workPhase \in [Workers -> {"take", "query", "validate"}]
        /\ prev \in [Workers -> Digests \cup {NoRow}]
        /\ stable \subseteq Jobs /\ work \in [Jobs -> Digests \cup {NoRow}]
    BY DEF IdxInit
  <2> QED
    BY <1>2, <2>1, <2>2, <2>3 DEF IdxInit, IdxTypeOK
<1>5. Passed /\ Calling
  BY <1>1 DEF IdxInit, Init, Passed, Calling
<1>6. ParsedKnown /\ HandledWritten
  BY <1>1, <1>3 DEF IdxInit, Init, ParsedKnown, Parsed, HandledWritten, Handled
<1> QED
  BY <1>4, <1>5, <1>6 DEF IdxInit, MatchInv

\* A step that moves no path and touches no inventory.
LEMMA StillMatches ==
  ASSUME MatchInv,
         UNCHANGED <<workerPc, job, resultQ, mainPc, resultErr, calls, setupErr, next, refused>>,
         UNCHANGED <<disk, stable, work, db, phase, runErr, out, cur, workPhase, prev>>
  PROVE  MatchInv'
  BY DEF MatchInv, Passed, Calling, ParsedKnown, HandledWritten, Parsed, Handled, Queued, Called

LEMMA ChangeMatchInv ==
  ASSUME IdxIInv, NEW p \in Jobs, NEW inv \in Digests \cup {Bad}, ChangeObject(p, inv)
  PROVE  MatchInv'
<1> USE DEF ChangeObject, vars, setupVars, workerVars, mainVars, fnVars, callerVars
<1>1. Parsed' = Parsed /\ Handled' = Handled
  BY DEF Parsed, Handled, Queued, Called
<1>2. \A q \in stable' : q \in stable /\ disk'[q] = disk[q]
  BY DEF IdxIInv, IdxTypeOK
<1>3. Passed' /\ Calling'
  BY DEF IdxIInv, MatchInv, Passed, Calling, Called
<1>4. ParsedKnown => ParsedKnown'
  BY <1>1, <1>2 DEF ParsedKnown
<1>5. HandledWritten => HandledWritten'
  BY <1>1, <1>2 DEF HandledWritten
<1> QED
  BY <1>2, <1>3, <1>4, <1>5 DEF IdxIInv, MatchInv

\* A step that adds no result and handles no path: what is known stays known.
LEMMA StillKnown ==
  ASSUME Parsed' \subseteq Parsed, Handled' \subseteq Handled,
         UNCHANGED <<disk, stable, work, out>>,
         \A w \in Workers : workerPc'[w] = "work" /\ workPhase'[w] = "validate" =>
           /\ workerPc[w] = "work" /\ workPhase[w] = "validate"
           /\ prev'[w] = prev[w] /\ job'[w] = job[w]
  PROVE  (ParsedKnown => ParsedKnown') /\ (HandledWritten => HandledWritten')
  BY DEF ParsedKnown, HandledWritten

\* The setup function adds paths, in the order of the index, and no path is refused
\* before index has failed: until then term is open while it runs.
LEMMA AddPathsMatchInv == ASSUME IdxIInv, AddPathsStep PROVE MatchInv'
<1>1. CASE TakeToList \/ ListPage \/ NextPage
  BY <1>1, StillMatches DEF TakeToList, ListPage, NextPage, vars, setupVars, workerVars,
     mainVars, dataVars, callerVars, IdxIInv
<1>2. ASSUME NEW w \in Workers, AddPath(w) PROVE MatchInv'
  <2> USE <1>2 DEF AddPath, AddWork, dataVars, callerVars, mainVars
  <2>1. IInv /\ IdxTypeOK /\ TypeOK
    BY DEF IdxIInv, IInv
  <2>2. /\ workerPc' = [workerPc EXCEPT ![w] = "work"] /\ workPhase' = [workPhase EXCEPT ![w] = "take"]
        /\ job' = [job EXCEPT ![w] = next] /\ workerPc[w] = "recv" /\ prev' = prev
    OBVIOUS
  <2>3. Queued' = Queued /\ Called' = Called
    BY DEF Queued, Called
  <2>4. Parsed' = Parsed /\ Handled' = Handled
    BY <2>1, <2>2, <2>3 DEF TypeOK, Parsed, Handled
  <2>5. (ParsedKnown => ParsedKnown') /\ (HandledWritten => HandledWritten')
    BY <2>1, <2>2, <2>4, StillKnown DEF TypeOK, IdxTypeOK
  <2>6. setupErr = "none"
    BY <2>1 DEF IInv, Control
  <2>7. Passed' /\ Calling'
    BY <2>3, <2>6 DEF IdxIInv, MatchInv, Passed, Calling
  <2> QED
    BY <2>5, <2>7 DEF IdxIInv, MatchInv
<1>3. CASE AddPathRefused
  <2> USE <1>3 DEF AddPathRefused, AddRefused, dataVars, callerVars, mainVars, fnVars, workerVars
  <2>1. resultErr /\ setupErr = "none"
    <3>1. \E w \in Workers : TRUE
      BY PipelineAssumption DEF PipelineAssumption
    <3> QED
      BY <3>1 DEF IdxIInv, IInv, Control, TypeOK
  <2>2. Passed' /\ Calling'
    BY <2>1 DEF IdxIInv, MatchInv, Passed, Calling, Called
  <2> QED
    BY <2>1, <2>2 DEF IdxIInv, MatchInv
<1>4. CASE AddPathsReturns
  <2> USE <1>4 DEF AddPathsReturns, SetupReturns, dataVars, callerVars, mainVars, fnVars, workerVars
  <2>1. Parsed' = Parsed /\ Handled' = Handled
    BY DEF Parsed, Handled, Queued, Called
  <2>2. (ParsedKnown => ParsedKnown') /\ (HandledWritten => HandledWritten')
    BY <2>1, StillKnown
  <2>3. Passed' /\ Calling'
    <3>1. phase # "commit"
      BY DEF IdxIInv, PhaseInv, IInv, Control
    <3> QED
      BY <3>1 DEF IdxIInv, MatchInv, Passed, Calling, Called
  <2> QED
    BY <2>2, <2>3 DEF IdxIInv, MatchInv
<1> QED
  BY <1>1, <1>2, <1>3, <1>4 DEF AddPathsStep

LEMMA HeldAreJobs == ASSUME IInv PROVE Held \subseteq Jobs /\ Queued \subseteq Jobs
<1>1. Held \subseteq Accepted /\ Queued \subseteq Accepted
  BY DEF IInv, NothingLost
<1> QED
  BY <1>1, PipelineAssumption DEF PipelineAssumption, Accepted, Jobs, IInv, TypeOK

LEMMA ParsedAreJobs == ASSUME IdxIInv PROVE Parsed \subseteq Jobs
<1>1. Held \subseteq Jobs /\ Queued \subseteq Jobs
  BY HeldAreJobs DEF IdxIInv
<1>2. mainPc = "call" => cur \in Jobs
  BY DEF IdxIInv, MatchInv, Calling, Called
<1> QED
  BY <1>1, <1>2 DEF Parsed, Held, Busy

\* A worker parses: what it holds is neither with another worker nor queued nor handled.
LEMMA ParseMatchInv == ASSUME IdxIInv, NEW w \in Workers, ParseStep(w) PROVE MatchInv'
<1> USE DEF dataVars, callerVars, mainVars, setupVars, workerVars, vars, fnVars
<1>1. IInv /\ IdxTypeOK /\ TypeOK
  BY DEF IdxIInv, IInv
<1>2. CASE TakeToQuery(w) \/ (Queue(w) /\ WorkerExit(w))
  <2> USE <1>2 DEF TakeToQuery, Queue, WorkerExit
  <2>1. Parsed' = Parsed /\ Handled' = Handled /\ Called' = Called
    BY <1>1 DEF TypeOK, Parsed, Handled, Queued, Called
  <2>2. (ParsedKnown => ParsedKnown') /\ (HandledWritten => HandledWritten')
    BY <1>1, <2>1, StillKnown DEF TypeOK, IdxTypeOK
  <2>3. Passed' /\ Calling'
    BY <2>1 DEF IdxIInv, MatchInv, Passed, Calling
  <2> QED
    BY <2>2, <2>3 DEF IdxIInv, MatchInv
<1>3. CASE Query(w)
  <2> USE <1>3 DEF Query
  <2>1. Parsed' = Parsed /\ Handled' = Handled /\ Called' = Called
    BY <1>1 DEF TypeOK, Parsed, Handled, Queued, Called
  <2>2. ParsedKnown => ParsedKnown'
    BY <1>1, <2>1 DEF ParsedKnown, IdxTypeOK
  <2>3. HandledWritten => HandledWritten'
    BY <2>1 DEF HandledWritten
  <2>4. Passed' /\ Calling'
    BY <2>1 DEF IdxIInv, MatchInv, Passed, Calling
  <2> QED
    BY <2>2, <2>3, <2>4 DEF IdxIInv, MatchInv
<1>4. CASE QueryFails(w) \/ Validate(w)
  <2> DEFINE p == job[w]
  <2> USE <1>4 DEF QueryFails, Validate, Work
  <2>1. p \in Held /\ p \in Jobs
    <3>1. p \in Held
      BY DEF Held, Busy
    <3> QED
      BY <1>1, <3>1, HeldAreJobs
  <2>2. p \notin Queued /\ p \notin Called
    BY <1>1, <2>1 DEF IInv, NothingLost
  <2>3. \A v \in Workers \ {w} : workerPc[v] \in {"work", "push"} => job[v] # p
    BY <1>1 DEF IInv, HeldOnce, Busy
  <2>4. mainPc = "call" => cur # p
    BY <2>2 DEF IdxIInv, MatchInv, Calling
  <2>5. /\ workerPc' = [workerPc EXCEPT ![w] = "push"]
        /\ Parsed' = Parsed \cup {p} /\ p \notin Parsed
        /\ Handled' = Handled /\ Called' = Called
    BY <1>1, <2>2, <2>3, <2>4 DEF TypeOK, Parsed, Handled, Queued, Called
  <2>6. \A q \in Jobs : q # p => out'[q] = out[q]
    BY <1>1 DEF IdxTypeOK
  <2>11. Parsed \subseteq Jobs
    BY ParsedAreJobs
  <2>7. ParsedKnown /\ ~out'[p].err =>
          out'[p].prev = work[p] /\ (p \in stable => out'[p].inv = disk[p])
    BY <1>1, <2>1 DEF IdxTypeOK, ParsedKnown, NoOut
  <2>8. ParsedKnown => ParsedKnown'
    BY <1>1, <2>5, <2>6, <2>7, <2>11 DEF ParsedKnown, TypeOK
  <2>9. HandledWritten => HandledWritten'
    BY <2>5 DEF HandledWritten
  <2>10. Passed' /\ Calling'
    <3>1. phase = "write" => out'[cur] = out[cur]
      BY <2>4, <2>6 DEF IdxIInv, MatchInv, Calling, Called
    <3> QED
      BY <2>5, <3>1 DEF IdxIInv, MatchInv, Passed, Calling
  <2> QED
    BY <2>8, <2>9, <2>10 DEF IdxIInv, MatchInv
<1>5. CASE Queue(w) /\ Push(w)
  <2> USE <1>5 DEF Queue, Push
  <2>1. Queued' = Queued \cup {job[w]} /\ Called' = Called
    <3>1. /\ Len(resultQ') = Len(resultQ) + 1 /\ Len(resultQ) \in Nat
          /\ \A i \in 1..Len(resultQ) : resultQ'[i] = resultQ[i]
          /\ resultQ'[Len(resultQ) + 1] = job[w]
      BY <1>1 DEF TypeOK
    <3> QED
      BY <3>1 DEF Queued, Called
  <2>2. Parsed' \subseteq Parsed /\ Handled' = Handled
    BY <1>1, <2>1 DEF TypeOK, Parsed, Handled
  <2>3. (ParsedKnown => ParsedKnown') /\ (HandledWritten => HandledWritten')
    BY <1>1, <2>2, StillKnown DEF TypeOK
  <2>4. Passed' /\ Calling'
    BY <2>1 DEF IdxIInv, MatchInv, Passed, Calling
  <2> QED
    BY <2>3, <2>4 DEF IdxIInv, MatchInv
<1> QED
  BY <1>2, <1>3, <1>4, <1>5 DEF ParseStep, Queue

\* The caller.  A path that index is called with leaves what was parsed and is handled
\* when index returns: nothing was to be done for it, or it has been written.
LEMMA IndexMatchInv ==
  ASSUME IdxIInv, CallIndex \/ IndexReturns \/ TakeToWrite \/ WriteInventory PROVE MatchInv'
<1> USE DEF dataVars, callerVars, mainVars, setupVars, workerVars, vars, fnVars
<1>1. IInv /\ IdxTypeOK /\ TypeOK
  BY DEF IdxIInv, IInv
<1>2. CASE CallIndex
  <2> USE <1>2 DEF CallIndex, Receive
  <2>1. /\ Len(resultQ) \in Nat /\ Len(resultQ) > 0
        /\ Head(resultQ) = resultQ[1]
        /\ Len(Tail(resultQ)) = Len(resultQ) - 1
        /\ \A i \in 1..(Len(resultQ) - 1) : Tail(resultQ)[i] = resultQ[i + 1]
    BY <1>1, HeadTailProperties, EmptySeq DEF TypeOK
  <2>2. cur' \in Queued /\ Queued' \subseteq Queued
    BY <2>1 DEF Queued
  <2>3. cur' \in Jobs /\ cur' \notin Called
    BY <1>1, <2>2, HeldAreJobs DEF IInv, NothingLost
  <2>4. Called' = Called \cup {cur'}
    BY <1>1, <2>3 DEF TypeOK, Called
  <2>5. Parsed' \subseteq Parsed /\ Handled' = Handled
    BY <2>2, <2>3, <2>4 DEF Parsed, Handled
  <2>6. (ParsedKnown => ParsedKnown') /\ (HandledWritten => HandledWritten')
    BY <2>5, StillKnown
  <2>7. phase = "run"
    BY DEF IdxIInv, PhaseInv, MatchInv, Calling
  <2>8. Passed' /\ Calling'
    BY <2>4, <2>7 DEF IdxIInv, MatchInv, Passed, Calling
  <2> QED
    BY <2>6, <2>7, <2>8 DEF IdxIInv, MatchInv
<1>3. CASE TakeToWrite
  <2> USE <1>3 DEF TakeToWrite
  <2>1. Parsed' = Parsed /\ Handled' = Handled /\ Called' = Called
    BY DEF Parsed, Handled, Queued, Called
  <2>2. (ParsedKnown => ParsedKnown') /\ (HandledWritten => HandledWritten')
    BY <2>1, StillKnown
  <2>3. Passed' /\ Calling'
    BY <2>1 DEF IdxIInv, MatchInv, Passed, Calling, Stops, Skips
  <2> QED
    BY <2>2, <2>3 DEF IdxIInv, MatchInv
<1> DEFINE p == cur
<1>4. CASE IndexReturns
  <2> USE <1>4 DEF IndexReturns
  <2>1. p \in Called /\ p \in Parsed
    BY DEF IdxIInv, MatchInv, Calling, Parsed
  <2>2. UNCHANGED <<workerPc, job, resultQ, calls, setupErr, next, refused>>
    BY DEF ResultReturns
  <2>3. Queued' = Queued /\ Called' = Called
    BY <2>2 DEF Queued, Called
  <2>4. Passed' /\ Calling'
    <3>1. mainPc = "call" /\ mainPc' # "call" /\ phase' = "run"
      BY DEF ResultReturns
    <3>2. refused = {}
      BY <3>1 DEF IdxIInv, MatchInv, Passed, IInv, Control
    <3> QED
      BY <2>2, <3>1, <3>2 DEF IdxIInv, MatchInv, Passed, Calling
  <2>5. CASE resultErr'
    BY <2>4, <2>5 DEF IdxIInv, MatchInv
  <2>6. CASE ~resultErr'
    <3>1. Skips(out[p]) /\ mainPc' = "range" /\ ~resultErr
      BY <1>1, <2>6 DEF ResultReturns, IInv, Control
    <3>2. ParsedKnown /\ HandledWritten
      BY <3>1 DEF IdxIInv, MatchInv
    <3>3. Parsed' \subseteq Parsed /\ Handled' = Handled \cup {p}
      BY <2>1, <2>2, <2>3, <3>1 DEF Parsed, Handled
    <3>4. ParsedKnown'
      BY <2>2, <3>2, <3>3 DEF ParsedKnown
    <3>5. p \in stable /\ disk[p] # Bad => work[p] = disk[p]
      BY <2>1, <3>1, <3>2 DEF ParsedKnown, Skips, Stops, Unchanged
    <3>6. HandledWritten'
      BY <3>2, <3>3, <3>5 DEF HandledWritten
    <3> QED
      BY <2>4, <3>4, <3>6 DEF IdxIInv, MatchInv
  <2> QED
    BY <2>5, <2>6
<1>5. CASE WriteInventory
  <2>1. p \in Called /\ p \in Parsed /\ p \in Jobs /\ ~out[p].err /\ mainPc = "call"
    BY <1>5 DEF WriteInventory, IdxIInv, MatchInv, Calling, Parsed, Called
  <2>2. UNCHANGED <<workerPc, job, resultQ, calls, setupErr, next, refused>>
    BY <1>5 DEF WriteInventory, NewTxError, ResultReturns
  <2>3. UNCHANGED <<disk, stable, out, cur, workPhase, prev, runErr>> /\ phase' = "run"
    BY <1>5 DEF WriteInventory
  <2>4. Queued' = Queued /\ Called' = Called
    BY <2>2 DEF Queued, Called
  <2>5. Passed' /\ Calling'
    <3>1. mainPc' = "call" => FALSE
      BY <1>5 DEF WriteInventory, NewTxError, ResultReturns
    <3>2. refused = {}
      BY <1>1, <2>1 DEF IdxIInv, MatchInv, Passed, IInv, Control
    <3> QED
      BY <2>2, <2>3, <3>1, <3>2 DEF IdxIInv, MatchInv, Passed, Calling
  <2>6. CASE resultErr'
    BY <2>3, <2>5, <2>6 DEF MatchInv
  <2>7. CASE ~resultErr'
    <3>1. work' = [work EXCEPT ![p] = out[p].inv] /\ mainPc' = "range"
      BY <1>5, <2>7 DEF WriteInventory, NewTxError, ResultReturns
    <3>2. ParsedKnown /\ HandledWritten
      BY <1>1, <1>5, <2>1 DEF WriteInventory, IdxIInv, MatchInv, IInv, Control
    <3>3. work'[p] = out[p].inv /\ \A q \in Jobs : q # p => work'[q] = work[q]
      BY <1>1, <2>1, <3>1 DEF IdxTypeOK
    <3>4. p \notin Held /\ p \notin Queued
      BY <1>1, <2>1 DEF IInv, NothingLost
    <3>5. Parsed' \subseteq Parsed /\ p \notin Parsed' /\ Handled' = Handled \cup {p}
      BY <2>1, <2>2, <2>3, <2>4, <3>1, <3>4 DEF Parsed, Handled, Held, Busy
    <3>6. \A w \in Workers : workerPc[w] = "work" => job[w] \in Jobs /\ job[w] # p
      BY <1>1, <3>4, HeldAreJobs DEF Held, Busy
    <3>7. ParsedKnown'
      BY <2>2, <2>3, <3>2, <3>3, <3>5, <3>6, ParsedAreJobs DEF ParsedKnown
    <3>8. p \in stable => work'[p] = disk[p]
      BY <2>1, <3>2, <3>3 DEF ParsedKnown
    <3>9. Handled \subseteq Jobs
      BY DEF Handled, Called
    <3>10. HandledWritten'
      BY <2>3, <3>2, <3>3, <3>5, <3>8, <3>9 DEF HandledWritten
    <3> QED
      BY <2>3, <2>5, <3>7, <3>10 DEF MatchInv
  <2> QED
    BY <2>6, <2>7
<1> QED
  BY <1>2, <1>3, <1>4, <1>5

\* What follows the loop.  A run that ended well has handled every path, so that what is
\* committed is what the storage root holds.
LEMMA EndMatchInv ==
  ASSUME IdxIInv, RunStep \/ RunReturned \/ FinalCommit \/ CloseTxCh PROVE MatchInv'
<1> USE DEF dataVars, callerVars, mainVars, setupVars, workerVars, vars, fnVars
<1>1. IInv /\ IdxTypeOK /\ PhaseInv
  BY DEF IdxIInv
<1>2. CASE RunStep \/ RunReturned
  <2> USE <1>2 DEF RunStep, RangeEnds, CloseTerm, Return, RunReturned, RunFailed, CommitOnlyIfOk
  <2>1. mainPc # "call" /\ mainPc' # "call"
    OBVIOUS
  <2>2. UNCHANGED <<workerPc, job, resultQ, calls, setupErr, next, refused, resultErr,
                    disk, stable, work, db, out, cur, workPhase, prev>>
    OBVIOUS
  <2>3. Parsed' = Parsed /\ Handled' = Handled
    BY <2>1, <2>2 DEF Parsed, Handled, Queued, Called
  <2>4. (ParsedKnown => ParsedKnown') /\ (HandledWritten => HandledWritten')
    BY <2>2, <2>3, StillKnown
  <2>5. phase' = "commit" => setupErr = "nil" \/ phase = "commit"
    BY <1>1 DEF IInv, Control, TypeOK
  <2>6. Passed' /\ Calling'
    BY <2>1, <2>2, <2>5 DEF IdxIInv, MatchInv, Passed, Calling
  <2>7. phase' \in {"close", "ended"} /\ ~runErr' => phase = phase' /\ runErr = runErr'
    BY <1>1 DEF PhaseInv
  <2>8. resultErr' = resultErr /\ (phase' = phase \/ phase = "run")
    BY <2>2
  <2> QED
    BY <2>2, <2>4, <2>6, <2>7, <2>8 DEF IdxIInv, MatchInv
<1>3. CASE FinalCommit
  <2> USE <1>3 DEF FinalCommit
  <2>1. mainPc = "returned" /\ ~resultErr /\ setupErr = "nil"
    BY <1>1 DEF IdxIInv, PhaseInv, MatchInv, Passed
  <2>2. Called = Jobs
    <3>1. Called = Accepted
      BY <1>1, <2>1, IInvClean DEF CleanReturn
    <3>2. refused = {} /\ next > NumJobs
      BY <2>1 DEF IdxIInv, MatchInv, Passed
    <3> QED
      BY <1>1, <3>1, <3>2, PipelineAssumption
         DEF Accepted, Jobs, IInv, TypeOK, PipelineAssumption
  <2>3. \A p \in stable : p \in Jobs /\ (disk[p] # Bad => work[p] = disk[p])
    BY <1>1, <2>1, <2>2 DEF IdxIInv, MatchInv, HandledWritten, Handled, IdxTypeOK
  <2>4. Passed' /\ Calling'
    BY <2>1 DEF IdxIInv, MatchInv, Passed, Calling
  <2> QED
    BY <2>3, <2>4 DEF MatchInv
<1>4. CASE CloseTxCh
  BY <1>1, <1>4 DEF CloseTxCh, IdxIInv, PhaseInv, MatchInv, Passed, Calling
<1> QED
  BY <1>2, <1>3, <1>4

LEMMA NextMatchInv == ASSUME IdxIInv, [IdxNext]_idxVars PROVE MatchInv'
<1>1. CASE UNCHANGED idxVars
  BY <1>1, StillMatches DEF IdxIInv, idxVars, vars, setupVars, workerVars, mainVars, dataVars,
     fnVars, callerVars
<1>2. CASE CloseQueue \/ CloseResults
  BY <1>2, StillMatches DEF IdxIInv, CloseQueue, CloseWorkQ, CloseResults, CloseResultQ,
     setupVars, workerVars, mainVars, dataVars, fnVars, callerVars
<1> QED
  BY <1>1, <1>2, ChangeMatchInv, AddPathsMatchInv, ParseMatchInv, IndexMatchInv, EndMatchInv
     DEF IdxNext, CallerStep, Ended

-----------------------------------------------------------------------------
LEMMA FaultType ==
  ASSUME IdxTypeOK, Fault \/ UNCHANGED faults, UNCHANGED changes
  PROVE  faults' \in Nat /\ changes' \in Nat /\ faults' + changes' <= MaxEvents
  BY IndexingAssumption DEF IndexingAssumption, IdxTypeOK, Fault

LEMMA NextIdxTypeOK == ASSUME IdxIInv, [IdxNext]_idxVars PROVE IdxTypeOK'
<1> USE DEF dataVars, callerVars, fnVars, txVars, boundVars
<1>1. TypeOK' /\ TypeOK /\ IdxTypeOK
  BY IdxNextRefines, NextIInv DEF IdxIInv, IInv
<1>2. CASE UNCHANGED idxVars
  BY <1>1, <1>2 DEF idxVars, IdxTypeOK
<1>3. ASSUME NEW p \in Jobs, NEW inv \in Digests \cup {Bad}, ChangeObject(p, inv)
      PROVE  IdxTypeOK'
  <2>1. disk' \in [Jobs -> Digests \cup {Bad}] /\ stable' \subseteq Jobs
    BY <1>1, <1>3 DEF ChangeObject, IdxTypeOK
  <2>2. faults' \in Nat /\ changes' \in Nat /\ faults' + changes' <= MaxEvents
    BY <1>1, <1>3, IndexingAssumption DEF IndexingAssumption, ChangeObject, IdxTypeOK
  <2> QED
    BY <1>1, <1>3, <2>1, <2>2 DEF ChangeObject, IdxTypeOK
<1>4. CASE AddPathsStep
  <2>1. CASE TakeToList \/ NextPage
    BY <1>1, <2>1, FaultType DEF TakeToList, NextPage, TakesNil, IdxTypeOK
  <2>2. CASE ListPage
    <3>1. LastOfPage \in 0..NumJobs
      BY <1>1, PipelineAssumption, IndexingAssumption
         DEF LastOfPage, TypeOK, PipelineAssumption, IndexingAssumption
    <3>2. faults' \in Nat /\ changes' \in Nat /\ faults' + changes' <= MaxEvents
      BY <1>1, <2>2, FaultType DEF ListPage
    <3> QED
      BY <1>1, <2>2, <3>1, <3>2 DEF ListPage, IdxTypeOK
  <2>3. ASSUME NEW w \in Workers, AddPath(w) PROVE IdxTypeOK'
    BY <1>1, <2>3 DEF AddPath, IdxTypeOK
  <2>4. CASE AddPathRefused
    BY <1>1, <2>4 DEF AddPathRefused, IdxTypeOK
  <2>5. CASE AddPathsReturns
    <3>1. faults' \in Nat /\ changes' \in Nat /\ faults' + changes' <= MaxEvents
      BY <1>1, <2>5, FaultType DEF AddPathsReturns
    <3> QED
      BY <1>1, <2>5, <3>1 DEF AddPathsReturns, IdxTypeOK
  <2> QED
    BY <1>4, <2>1, <2>2, <2>3, <2>4, <2>5 DEF AddPathsStep
<1>5. CASE CloseQueue \/ CloseResults
  BY <1>1, <1>5 DEF CloseQueue, CloseResults, IdxTypeOK
<1>6. ASSUME NEW w \in Workers, ParseStep(w) PROVE IdxTypeOK'
  <2>1. workerPc[w] = "work" => job[w] \in Jobs
    BY HeldAreJobs DEF Held, Busy, IdxIInv
  <2>2. CASE TakeToQuery(w) \/ Queue(w)
    BY <1>1, <2>2 DEF TakeToQuery, TakesNil, Queue, IdxTypeOK
  <2>3. CASE Query(w)
    BY <1>1, <2>1, <2>3 DEF Query, IdxTypeOK
  <2>4. CASE QueryFails(w)
    <3>1. faults' \in Nat /\ changes' \in Nat /\ faults' + changes' <= MaxEvents
      BY <1>1, <2>4, FaultType DEF QueryFails
    <3>2. out' \in [Jobs -> [err : BOOLEAN, prev : Digests \cup {NoRow}, inv : Digests \cup {Bad}]]
      BY <1>1, <2>4 DEF QueryFails, IdxTypeOK, NoOut
    <3> QED
      BY <1>1, <2>4, <3>1, <3>2 DEF QueryFails, IdxTypeOK
  <2>5. CASE Validate(w)
    <3>1. job[w] \in Jobs
      BY <2>1, <2>5 DEF Validate, Work
    <3>2. out' \in [Jobs -> [err : BOOLEAN, prev : Digests \cup {NoRow}, inv : Digests \cup {Bad}]]
      BY <1>1, <2>5, <3>1 DEF Validate, IdxTypeOK
    <3> QED
      BY <1>1, <2>5, <3>2 DEF Validate, IdxTypeOK
  <2> QED
    BY <1>6, <2>2, <2>3, <2>4, <2>5 DEF ParseStep
<1>7. CASE CallerStep
  <2>1. CASE CallIndex
    <3>1. cur' \in 0..NumJobs
      BY <1>1, <2>1 DEF CallIndex, Receive, TypeOK, Jobs
    <3> QED
      BY <1>1, <2>1, <3>1 DEF CallIndex, IdxTypeOK
  <2>2. CASE IndexReturns
    BY <1>1, <2>2 DEF IndexReturns, IdxTypeOK
  <2>6. CASE RunStep
    BY <1>1, <2>6 DEF RunStep, IdxTypeOK
  <2>7. CASE TakeToWrite
    <3>1. numObjs' \in Nat
      BY <1>1, <2>7 DEF TakeToWrite, IdxTypeOK
    <3> QED
      BY <1>1, <2>7, <3>1 DEF TakeToWrite, IdxTypeOK
  <2>3. CASE WriteInventory
    <3>1. cur \in Jobs /\ out[cur].inv \in Digests
      BY <1>1, <2>3 DEF WriteInventory, IdxIInv, MatchInv, Calling, Called, IdxTypeOK
    <3>2. work' \in [Jobs -> Digests \cup {NoRow}] /\ db' \in [Jobs -> Digests \cup {NoRow}]
      BY <1>1, <2>3, <3>1 DEF WriteInventory, IdxTypeOK
    <3>3. faults' \in Nat /\ changes' \in Nat /\ faults' + changes' <= MaxEvents
      BY <1>1, <2>3, FaultType DEF WriteInventory
    <3>4. txVal' \in {"open", "done", "nil"}
      BY <1>1, <2>3 DEF WriteInventory, IdxTypeOK
    <3> QED
      BY <1>1, <2>3, <3>2, <3>3, <3>4 DEF WriteInventory, PutBack, IdxTypeOK
  <2>4. CASE RunReturned \/ CloseTxCh
    BY <1>1, <2>4 DEF RunReturned, RunFailed, CloseTxCh, IdxTypeOK, TypeOK
  <2>5. CASE FinalCommit
    <3>1. faults' \in Nat /\ changes' \in Nat /\ faults' + changes' <= MaxEvents
      BY <1>1, <2>5, FaultType DEF FinalCommit
    <3> QED
      BY <1>1, <2>5, <3>1 DEF FinalCommit, IdxTypeOK
  <2> QED
    BY <1>7, <2>1, <2>2, <2>3, <2>4, <2>5, <2>6, <2>7 DEF CallerStep
<1> QED
  BY <1>2, <1>3, <1>4, <1>5, <1>6, <1>7 DEF IdxNext, Ended

\* The variables keep their types, and what the run knows of a path since it was parsed
\* stays true until the inventory is written (indexer.go:121-258).
THEOREM MatchInvariant == IdxSpec => [](IdxTypeOK /\ MatchInv)
<1>1. IdxSpec => []IInv
  BY RunsPipeline, RunInvariant, PTL
<1>2. IInv /\ PhaseInv /\ IdxTypeOK /\ MatchInv /\ [IdxNext]_idxVars => IdxTypeOK' /\ MatchInv'
  BY NextIdxTypeOK, NextMatchInv DEF IdxIInv
<1> QED
  BY <1>1, <1>2, InitMatchInv, PhaseInvariant, PTL DEF IdxSpec

\* A run that reports no error has left the index as the storage root is, for every path
\* whose valid inventory did not change meanwhile (indexer.go:121-258).
THEOREM IndexesWhatIsStored == IdxSpec => []IndexedMatches
<1>1. MatchInv => IndexedMatches
  BY DEF MatchInv, IndexedMatches
<1> QED
  BY <1>1, MatchInvariant, PTL
=============================================================================
