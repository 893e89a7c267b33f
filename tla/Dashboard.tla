------------------------------- MODULE Dashboard -------------------------------
(***************************************************************************)
(* What the list of test runs shows of a run: two columns derived from the *)
(* draft flag and from the statuses of the jobs, which one query counts    *)
(* (TestRun.statuses).  Only which statuses occur matters to the columns,  *)
(* so the jobs are given as the set of their statuses.  This module is     *)
(* pure; OrderlyApe looks at the whole system through it.                  *)
(***************************************************************************)
EXTENDS JobStatus, TestLocations, Naturals

\* Mutant of DisplayRank: the furthest status is shown instead of the one
\* furthest behind.
FurthestFirst ==
    [failed |-> 1, canceled |-> 2, running |-> 3, ready |-> 4,
     queued |-> 5, pending |-> 6, completed |-> 7]

\* The order in which the column looks for a status that some job has.
DisplayRank ==
    [failed |-> 1, canceled |-> 2, pending |-> 3, queued |-> 4,
     ready |-> 5, running |-> 6, completed |-> 7]

(***************************************************************************)
(* TestRunAdmin.status: "completed" is shown when all jobs are, a run      *)
(* without jobs included.                                                  *)
(***************************************************************************)
StatusColumn(draft, statuses) ==
    IF draft THEN "draft"
    ELSE IF statuses = {} THEN "completed"
    ELSE CHOOSE s \in statuses :
            \A t \in statuses : DisplayRank[s] <= DisplayRank[t]

\* Mutant of CompletedColumn: one completed job is enough.
CompletedOnce(draft, statuses) ==
    CASE draft -> "blank"
      [] ~draft /\ statuses \cap {"failed", "canceled"} # {} -> "no"
      [] ~draft /\ statuses \cap {"failed", "canceled"} = {} ->
            IF "completed" \in statuses THEN "yes" ELSE "blank"

\* TestRunAdmin.completed: a tick, a cross, or nothing yet.
CompletedColumn(draft, statuses) ==
    CASE draft -> "blank"
      [] ~draft /\ statuses \cap {"failed", "canceled"} # {} -> "no"
      [] ~draft /\ statuses \cap {"failed", "canceled"} = {} ->
            IF statuses \subseteq {"completed"} THEN "yes" ELSE "blank"

(***************************************************************************)
(* How far the run has come when the column shows this.                    *)
(***************************************************************************)
Stage ==
    [draft |-> 0, pending |-> 1, queued |-> 2, ready |-> 3, running |-> 4,
     completed |-> 5, canceled |-> 6, failed |-> 7]

================================================================================
