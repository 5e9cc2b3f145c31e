------------------------------ MODULE Pipeline ------------------------------
(***************************************************************************)
(* One call of pipeline.Run (internal/pipeline/pipeline.go): the goroutine *)
(* of the setup function, numgos worker goroutines, the goroutine that     *)
(* closes resultQ, and the caller, which runs the result function.  workQ  *)
(* has no buffer, so sending a job and receiving it is one step; resultQ   *)
(* has one slot per worker.                                                *)
(***************************************************************************)
EXTENDS Naturals, Sequences, FiniteSets

CONSTANTS
  NumJobs,      \* how many values the setup function has to add
  Workers       \* the worker goroutines (numgos of them)

ASSUME PipelineAssumption ==
  /\ NumJobs \in Nat
  /\ IsFiniteSet(Workers)
  /\ Workers # {}

VARIABLES
  setupPc,        \* goroutine of setupFn: "run", "closing", "done"
  next,           \* the next value setupFn passes to addWork
  refused,        \* values for which addWork returned false
  setupErr,       \* the channel setupErr: "none" (empty), "nil" or "err"
  workQClosed,
  workerPc,       \* per worker: "recv", "work", "push", "done"
  job,            \* per worker: the value of `in', 0 before the first
  resultQ,
  resultQClosed,
  mainPc,         \* the caller: "range", "call" (in resultFn), "term", "join",
                  \* "returned"
  resultErr,      \* the caller's variable resultErr is not nil
  termClosed,
  calls           \* per job: how often resultFn was called with it (history)

setupVars == <<setupPc, next, refused, setupErr, workQClosed>>
workerVars == <<workerPc, job>>
mainVars == <<mainPc, resultErr, termClosed, calls>>
vars == <<setupVars, workerVars, resultQ, resultQClosed, mainVars>>

Jobs == 1..NumJobs
Capacity == Cardinality(Workers)
Accepted == (1..(next - 1)) \ refused
Done(w) == workerPc[w] = "done"
Busy(w) == workerPc[w] \in {"work", "push"}
Held == {job[w] : w \in {v \in Workers : Busy(v)}}
Queued == {resultQ[i] : i \in 1..Len(resultQ)}
Called == {j \in Jobs : calls[j] > 0}

Init ==
  /\ setupPc = "run"
  /\ next = 1
  /\ refused = {}
  /\ setupErr = "none"
  /\ workQClosed = FALSE
  /\ workerPc = [w \in Workers |-> "recv"]
  /\ job = [w \in Workers |-> 0]
  /\ resultQ = <<>>
  /\ resultQClosed = FALSE
  /\ mainPc = "range"
  /\ resultErr = FALSE
  /\ termClosed = FALSE
  /\ calls = [j \in Jobs |-> 0]

-----------------------------------------------------------------------------
(* Slips that the code avoids, each a variant of one definition below: they *)
(* take no part in the specification.                                       *)

\* addWork has no case for term.
AddNeverRefused == FALSE

\* A worker drops the result when the buffer is full.
PushOrDrop(w) ==
  /\ workerPc[w] = "push"
  /\ resultQ' = IF Len(resultQ) < Capacity THEN Append(resultQ, job[w]) ELSE resultQ
  /\ workerPc' = [workerPc EXCEPT ![w] = "recv"]
  /\ UNCHANGED <<job, setupVars, resultQClosed, mainVars>>

\* resultQ is closed by the first worker that ends.
CloseResultQAfterOne ==
  /\ ~resultQClosed
  /\ \E w \in Workers : Done(w)
  /\ resultQClosed' = TRUE
  /\ UNCHANGED <<setupVars, workerVars, resultQ, mainVars>>

\* The loop goes on after an error of resultFn.
ResultWithoutBreak(err) ==
  /\ mainPc = "call"
  /\ resultErr' = (resultErr \/ err)
  /\ mainPc' = "range"
  /\ UNCHANGED <<setupVars, workerVars, resultQ, resultQClosed, termClosed, calls>>

\* The caller stops at an empty queue once the setup function is through.
RangeEndsWhenEmpty ==
  /\ mainPc = "range"
  /\ resultQ = <<>>
  /\ workQClosed
  /\ mainPc' = "term"
  /\ UNCHANGED <<setupVars, workerVars, resultQ, resultQClosed, resultErr,
                 termClosed, calls>>

-----------------------------------------------------------------------------
(* The goroutine of the setup function *)

\* addWork, first case of the select: an idle worker receives the value.  The
\* select picks at random, so this is possible after term is closed as well.
AddWork(w) ==
  /\ setupPc = "run"
  /\ next <= NumJobs
  /\ workerPc[w] = "recv"
  /\ next' = next + 1
  /\ workerPc' = [workerPc EXCEPT ![w] = "work"]
  /\ job' = [job EXCEPT ![w] = next]
  /\ UNCHANGED <<setupPc, refused, setupErr, workQClosed, resultQ,
                 resultQClosed, mainVars>>

\* addWork, second case: term is closed and addWork returns false.  The setup
\* functions of this repository ignore that and go on to the next value.
AddRefused ==
  /\ setupPc = "run"
  /\ next <= NumJobs
  /\ termClosed
  /\ next' = next + 1
  /\ refused' = refused \cup {next}
  /\ UNCHANGED <<setupPc, setupErr, workQClosed, workerVars, resultQ,
                 resultQClosed, mainVars>>

\* setupFn returns: nil when it has no more values or was refused one, an
\* error at any point.
SetupReturns(err) ==
  /\ setupPc = "run"
  /\ err = "nil" => next > NumJobs \/ refused # {}
  /\ setupErr' = err
  /\ setupPc' = "closing"
  /\ UNCHANGED <<next, refused, workQClosed, workerVars, resultQ,
                 resultQClosed, mainVars>>

\* The deferred close(workQ).  close(setupErr) is not observable: the one
\* receiver finds the buffered value.
CloseWorkQ ==
  /\ setupPc = "closing"
  /\ setupPc' = "done"
  /\ workQClosed' = TRUE
  /\ UNCHANGED <<next, refused, setupErr, workerVars, resultQ, resultQClosed,
                 mainVars>>

-----------------------------------------------------------------------------
(* The workers *)

\* workFn returns; its error travels with the result.
Work(w) ==
  /\ workerPc[w] = "work"
  /\ workerPc' = [workerPc EXCEPT ![w] = "push"]
  /\ UNCHANGED <<job, setupVars, resultQ, resultQClosed, mainVars>>

\* resultQ <- r blocks while the buffer is full.
Push(w) ==
  /\ workerPc[w] = "push"
  /\ Len(resultQ) < Capacity
  /\ resultQ' = Append(resultQ, job[w])
  /\ workerPc' = [workerPc EXCEPT ![w] = "recv"]
  /\ UNCHANGED <<job, setupVars, resultQClosed, mainVars>>

\* The range over workQ ends; wg.Done().
WorkerExit(w) ==
  /\ workerPc[w] = "recv"
  /\ workQClosed
  /\ workerPc' = [workerPc EXCEPT ![w] = "done"]
  /\ UNCHANGED <<job, setupVars, resultQ, resultQClosed, mainVars>>

\* wg.Wait(); close(resultQ)
CloseResultQ ==
  /\ ~resultQClosed
  /\ \A w \in Workers : Done(w)
  /\ resultQClosed' = TRUE
  /\ UNCHANGED <<setupVars, workerVars, resultQ, mainVars>>

-----------------------------------------------------------------------------
(* The caller *)

\* The body of the range loop: resultFn is called with the next result.
Receive ==
  /\ mainPc = "range"
  /\ resultQ # <<>>
  /\ resultQ' = Tail(resultQ)
  /\ calls' = [calls EXCEPT ![Head(resultQ)] = @ + 1]
  /\ mainPc' = "call"
  /\ UNCHANGED <<setupVars, workerVars, resultQClosed, resultErr, termClosed>>

\* resultFn returns; the loop is left when it failed.
ResultReturns(err) ==
  /\ mainPc = "call"
  /\ resultErr' = err
  /\ mainPc' = IF err THEN "term" ELSE "range"
  /\ UNCHANGED <<setupVars, workerVars, resultQ, resultQClosed, termClosed, calls>>

RangeEnds ==
  /\ mainPc = "range"
  /\ resultQ = <<>>
  /\ resultQClosed
  /\ mainPc' = "term"
  /\ UNCHANGED <<setupVars, workerVars, resultQ, resultQClosed, resultErr,
                 termClosed, calls>>

CloseTerm ==
  /\ mainPc = "term"
  /\ termClosed' = TRUE
  /\ mainPc' = "join"
  /\ UNCHANGED <<setupVars, workerVars, resultQ, resultQClosed, resultErr, calls>>

\* return errors.Join(resultErr, <-setupErr)
Return ==
  /\ mainPc = "join"
  /\ setupErr # "none"
  /\ mainPc' = "returned"
  /\ UNCHANGED <<setupVars, workerVars, resultQ, resultQClosed, resultErr,
                 termClosed, calls>>

\* The program goes on without this call; goroutines of it may be left behind.
Returned == mainPc = "returned" /\ UNCHANGED vars

-----------------------------------------------------------------------------
WorkerStep(w) == Work(w) \/ Push(w) \/ WorkerExit(w)
MainStep ==
  \/ Receive
  \/ \E err \in BOOLEAN : ResultReturns(err)
  \/ RangeEnds
  \/ CloseTerm
  \/ Return
SetupStep ==
  \/ \E w \in Workers : AddWork(w)
  \/ AddRefused
  \/ SetupReturns("nil")
  \/ CloseWorkQ

Next ==
  \/ SetupStep
  \/ SetupReturns("err")
  \/ \E w \in Workers : WorkerStep(w)
  \/ CloseResultQ
  \/ MainStep
  \/ Returned

Spec == Init /\ [][Next]_vars

\* Every goroutine that can run runs: setupFn and workFn return.  The result
\* function returns too, and is not assumed to succeed.
Fairness ==
  /\ WF_vars(SetupStep)
  /\ \A w \in Workers : WF_vars(WorkerStep(w))
  /\ WF_vars(CloseResultQ)
  /\ WF_vars(MainStep)

FairSpec == Spec /\ Fairness

-----------------------------------------------------------------------------
TypeOK ==
  /\ setupPc \in {"run", "closing", "done"}
  /\ next \in 1..(NumJobs + 1)
  /\ refused \subseteq 1..(next - 1)
  /\ setupErr \in {"none", "nil", "err"}
  /\ workQClosed \in BOOLEAN
  /\ workerPc \in [Workers -> {"recv", "work", "push", "done"}]
  /\ job \in [Workers -> 0..NumJobs]
  /\ resultQ \in Seq(Jobs)
  /\ Len(resultQ) <= Capacity
  /\ resultQClosed \in BOOLEAN
  /\ mainPc \in {"range", "call", "term", "join", "returned"}
  /\ resultErr \in BOOLEAN
  /\ termClosed \in BOOLEAN
  /\ calls \in [Jobs -> Nat]

\* No result is delivered twice, whatever workers hold and queues contain
\* (pipeline.go:78-84, 94-103).
AtMostOnce == \A j \in Jobs : calls[j] <= 1

\* Nothing accepted is lost: a job is with a worker, in the queue of results or
\* was given to resultFn, and in one of the three only (pipeline.go:62-84).
NothingLost ==
  /\ Accepted = Held \cup Queued \cup Called
  /\ Held \cap Queued = {}
  /\ Held \cap Called = {}
  /\ Queued \cap Called = {}

\* What makes the two invariants above inductive: no two workers and no two
\* slots of the queue have the same job, and who has closed what.
HeldOnce ==
  \A v, w \in Workers : Busy(v) /\ Busy(w) /\ job[v] = job[w] => v = w

QueuedOnce ==
  \A i, k \in 1..Len(resultQ) : resultQ[i] = resultQ[k] => i = k

Control ==
  /\ setupPc = "run" <=> setupErr = "none"
  /\ workQClosed <=> setupPc = "done"
  /\ \A w \in Workers : Done(w) => workQClosed
  /\ resultQClosed => \A w \in Workers : Done(w)
  /\ termClosed <=> mainPc \in {"join", "returned"}
  /\ resultErr => mainPc \notin {"range", "call"}
  /\ mainPc \notin {"range", "call"} /\ ~resultErr => resultQClosed /\ resultQ = <<>>
  /\ mainPc = "returned" => setupErr # "none"

IInv ==
  /\ TypeOK
  /\ AtMostOnce
  /\ NothingLost
  /\ HeldOnce
  /\ QueuedOnce
  /\ Control

\* A Run without an error of resultFn has called it for every job it accepted
\* and leaves no goroutine behind (pipeline.go:94-108).
CleanReturn ==
  mainPc = "returned" /\ ~resultErr =>
    Called = Accepted /\ \A w \in Workers : Done(w)

\* No worker ever sends on the closed resultQ, which would panic
\* (pipeline.go:83, 87-90).
NoSendOnClosed ==
  resultQClosed => \A w \in Workers : ~Busy(w)

\* "if resultFn returns an error, it's not called again" (pipeline.go:98).
NoCallAfterError == [][resultErr => calls' = calls]_vars

\* Run returns: nobody waits for ever on a queue or for the setup function
\* (pipeline.go:94-108), also when resultFn fails with workers and setupFn busy.
RunReturns == <>(mainPc = "returned")

-----------------------------------------------------------------------------
(* Run implements FanOut *)

runStatus ==
  IF mainPc = "returned"
    THEN IF ~resultErr /\ setupErr = "nil" THEN "ok" ELSE "error"
    ELSE IF resultErr THEN "failing"
                      ELSE IF mainPc = "call" THEN "calling" ELSE "running"

Abstract == INSTANCE FanOut WITH
              accepted <- Accepted, handled <- Called, status <- runStatus

\* The goroutines and channels of Run keep the promises of FanOut.
ImplementsFanOut == Abstract!FanOutSpec
=============================================================================
