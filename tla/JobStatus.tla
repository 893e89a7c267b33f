------------------------------- MODULE JobStatus -------------------------------
(***************************************************************************)
(* The life cycle of a job: one TestRunLocation row of the web app, the    *)
(* share of a test run that one location executes.  The states are the    *)
(* choices of TestRunLocation.Status and the transitions are the methods   *)
(* decorated with django-fsm's @transition (webapp/loadtest/models.py).    *)
(* This module is pure: JobsAPI and WebApp are the machines that use it.   *)
(***************************************************************************)

Status == {"pending", "queued", "ready", "running",
           "canceled", "completed", "failed"}

(***************************************************************************)
(* accept, ready, start, finish and retry have one source each; fail and   *)
(* cancel are declared without one, so they leave every state, the final   *)
(* ones included.                                                          *)
(***************************************************************************)
Transitions ==
    {<<"pending", "queued">>, <<"queued", "ready">>, <<"ready", "running">>,
     <<"running", "completed">>, <<"failed", "pending">>}
        \cup (Status \X {"failed", "canceled"})

\* Mutant of Accepts: the status of a PUT is not validated.
AcceptsAll(from, to) == {from, to} \subseteq Status

(***************************************************************************)
(* The status of a PUT is valid when it repeats the current one or is the  *)
(* target of an available transition.                                      *)
(***************************************************************************)
Accepts(from, to) == from = to \/ <<from, to>> \in Transitions

(***************************************************************************)
(* TestRun.cancel() leaves these jobs alone; the automatic cancellation    *)
(* after a failure leaves only the first two alone.                        *)
(***************************************************************************)
Final == {"completed", "failed", "canceled"}
SparedByFailure == {"completed", "failed"}

(***************************************************************************)
(* What operators report.  They never PUT "pending", the target of         *)
(* retry(), nor "canceled", which is for the web app to decide.            *)
(***************************************************************************)
OperatorStatuses == {"queued", "ready", "running", "completed", "failed"}

(***************************************************************************)
(* The jobs that are still expected to make progress.                      *)
(***************************************************************************)
Active == Status \ Final

================================================================================
