------------------------------- MODULE FanOut -------------------------------
(***************************************************************************)
(* What a call of pipeline.Run promises its caller, with no goroutines and *)
(* no channels (internal/pipeline/pipeline.go:26-44): jobs are accepted    *)
(* from the setup function, the result function is called for accepted     *)
(* jobs, at most once each and never again once it has failed, and a call  *)
(* that returns no error has handled every job it accepted.                *)
(***************************************************************************)
CONSTANT Jobs   \* the values the setup function may add

VARIABLES
  accepted,     \* jobs for which addWork returned true
  handled,      \* jobs the result function was called for
  status        \* "running", "calling" (resultFn), "failing" (it failed), "ok",
                \* "error"

fanOutVars == <<accepted, handled, status>>

FanOutInit ==
  /\ accepted = {}
  /\ handled = {}
  /\ status = "running"

\* The setup function may get a job in at any time, while Run is failing too.
Accept(j) ==
  /\ status \in {"running", "calling", "failing"}
  /\ j \notin accepted
  /\ accepted' = accepted \cup {j}
  /\ UNCHANGED <<handled, status>>

Handle(j) ==
  /\ status = "running"
  /\ j \in accepted \ handled
  /\ handled' = handled \cup {j}
  /\ status' = "calling"
  /\ UNCHANGED accepted

CallReturns ==
  /\ status = "calling"
  /\ status' \in {"running", "failing"}
  /\ UNCHANGED <<accepted, handled>>

\* Run returns: with nothing left over, or because the result function failed.
\* The error of the setup function is reported in the first case.
ReturnAll ==
  /\ status = "running"
  /\ handled = accepted
  /\ status' \in {"ok", "error"}
  /\ UNCHANGED <<accepted, handled>>

ReturnFailed ==
  /\ status = "failing"
  /\ status' = "error"
  /\ UNCHANGED <<accepted, handled>>

FanOutNext ==
  \/ \E j \in Jobs : Accept(j) \/ Handle(j)
  \/ CallReturns
  \/ ReturnAll
  \/ ReturnFailed

FanOutSpec == FanOutInit /\ [][FanOutNext]_fanOutVars
=============================================================================
