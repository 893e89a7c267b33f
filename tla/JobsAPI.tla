-------------------------------- MODULE JobsAPI --------------------------------
(***************************************************************************)
(* What the web app promises about ONE test run: every request takes       *)
(* effect at once.  A test run has a draft flag, one job per chosen        *)
(* location, and two time stamps of which only "is it set" matters here.   *)
(*                                                                         *)
(* This is the abstract specification.  WebApp executes the same requests  *)
(* as the sequences of database statements the Django code issues, and     *)
(* implements this module when one gunicorn worker serves them all;        *)
(* OrderlyApe composes this module with the operators of the locations.    *)
(***************************************************************************)
EXTENDS JobStatus, TestLocations

CONSTANTS
    ClientStatuses,  \* the statuses operators PUT
    Requests         \* the kinds of requests users make

RequestKinds == {"start", "cancel", "delete", "add"}

ASSUME JobsAssumption ==
    /\ ClientStatuses \subseteq Status
    /\ Requests \subseteq RequestKinds

VARIABLES
    exists,     \* the TestRun row exists
    draft,      \* TestRun.draft
    rows,       \* the locations that have a TestRunLocation row
    status,     \* TestRunLocation.status
    started,    \* TestRun.started_at is set
    completed   \* TestRun.completed_at is set

vars == <<exists, draft, rows, status, started, completed>>

TypeOK ==
    /\ exists \in BOOLEAN
    /\ draft \in BOOLEAN
    /\ rows \subseteq Locations
    /\ status \in [Locations -> Status]
    /\ started \in BOOLEAN
    /\ completed \in BOOLEAN

(***************************************************************************)
(* A test run starts as a draft with the locations chosen in the form.     *)
(***************************************************************************)
Init ==
    /\ exists = TRUE
    /\ draft = TRUE
    /\ rows \in SUBSET Locations
    /\ status = [l \in Locations |-> "pending"]
    /\ started = FALSE
    /\ completed = FALSE

\* The workers API only serves the jobs of runs that are not drafts.
Visible(l) == l \in rows /\ ~draft

\* Mutants of All: one job is enough; every known location has to follow.
AnyJob(st, s) == \E l \in rows : st[l] = s
AllLocations(st, s) == \A l \in Locations : st[l] = s

\* locations.exclude(status=s).count() == 0
All(st, s) == \A l \in rows : st[l] = s

\* Mutants of StopOthers: nobody is stopped; the status is misspelt.
StopNobody(st) == st
StopMisspelt(st) ==
    [l \in Locations |->
        IF l \in rows /\ st[l] \notin SparedByFailure THEN "cancelled" ELSE st[l]]

\* cancel_on_failure: the jobs of the other locations are canceled.
StopOthers(st) ==
    [l \in Locations |->
        IF l \in rows /\ st[l] \notin SparedByFailure THEN "canceled" ELSE st[l]]

\* The rows after a job was saved with status s.
Saved(l, s) ==
    LET st == [status EXCEPT ![l] = s]
    IN  IF s = "failed" THEN StopOthers(st) ELSE st

--------------------------------------------------------------------------------
(***************************************************************************)
(* PUT of a job by the operator of its location: the status moves, the     *)
(* last location to become ready fixes the start time, the last one to     *)
(* complete fixes the end time, a failure cancels the others.              *)
(***************************************************************************)
Put(l, s) ==
    /\ Visible(l)
    /\ Accepts(status[l], s)
    /\ status' = Saved(l, s)
    /\ started' = (started \/ (s = "ready" /\ All(status', "ready")))
    /\ completed' = (completed \/ (s = "completed" /\ All(status', "completed")))
    /\ UNCHANGED <<exists, draft, rows>>

\* "Start selected test runs" and "Save and Run test".
Start ==
    /\ exists
    /\ draft
    /\ draft' = FALSE
    /\ UNCHANGED <<exists, rows, status, started, completed>>

\* "Cancel selected test runs": offered while nothing failed and not all is done.
Cancellable ==
    /\ exists
    /\ ~draft
    /\ \A l \in rows : status[l] # "failed"
    /\ \E l \in rows : status[l] # "completed"

CancelActive ==
    [l \in Locations |->
        IF l \in rows /\ status[l] \notin Final THEN "canceled" ELSE status[l]]

Cancel ==
    /\ Cancellable
    /\ status' = CancelActive
    /\ UNCHANGED <<exists, draft, rows, started, completed>>

\* Deleting a test run deletes its jobs with it.
Delete ==
    /\ exists
    /\ exists' = FALSE
    /\ rows' = {}
    /\ UNCHANGED <<draft, status, started, completed>>

\* The admin form adds locations to a run that is no longer a draft.
Add(l) ==
    /\ exists
    /\ ~draft
    /\ l \notin rows
    /\ rows' = rows \cup {l}
    /\ status' = [status EXCEPT ![l] = "pending"]
    /\ UNCHANGED <<exists, draft, started, completed>>

Next ==
    \/ \E l \in Locations, s \in ClientStatuses : Put(l, s)
    \/ "start" \in Requests /\ Start
    \/ "cancel" \in Requests /\ Cancel
    \/ "delete" \in Requests /\ Delete
    \/ "add" \in Requests /\ \E l \in Locations : Add(l)

Spec == Init /\ [][Next]_vars

--------------------------------------------------------------------------------
(***************************************************************************)
(* A run with a failed job has no active job left: none makes progress, or *)
(* is counted on, while the run as a whole can no longer succeed.          *)
(***************************************************************************)
FailureStopsRun ==
    (\E l \in rows : status[l] = "failed") => \A l \in rows : status[l] \in Final

(***************************************************************************)
(* The barrier: the start time is fixed only after the last job got ready, *)
(* and from then on no job is behind it.                                   *)
(***************************************************************************)
BarrierHeld ==
    started => \A l \in rows : status[l] \notin {"pending", "queued"}

(***************************************************************************)
(* A run that has an end time does nothing any more: its jobs have         *)
(* completed, or were reported as failed afterwards.                       *)
(***************************************************************************)
EndIsFinal == completed => \A l \in rows : status[l] \in {"completed", "failed"}

================================================================================
