-------------------------------- MODULE Results --------------------------------
(***************************************************************************)
(* The time window of the Grafana dashboard that the Summary link of a run *)
(* opens, computed from the time stamps of the run each time the list of   *)
(* runs is shown (TestRun.grafana_url).  This module is pure; WebApp       *)
(* computes the stamps.                                                    *)
(***************************************************************************)
EXTENDS Integers

CONSTANTS
    Never,     \* the value of a time stamp that is not set
    Minute,    \* the granularity of the window
    Margin,    \* what is shown before the start and after the end
    Hour,      \* the length of the window when the start is not known
    Deadline   \* TestRun.job_deadline

ASSUME ResultsAssumption ==
    /\ Never \notin Int
    /\ Minute \in Nat \ {0}
    /\ Margin \in Nat
    /\ Minute <= Margin
    /\ Hour \in Nat
    /\ Margin <= Hour
    /\ Deadline \in Nat

\* .replace(second=0, microsecond=0)
WholeMinute(t) == t - (t % Minute)

\* Mutant of To: the window ends with the test.
ToEnd(started, completed) ==
    IF completed # Never THEN WholeMinute(completed)
    ELSE WholeMinute(started - Margin) + Deadline + Margin

(***************************************************************************)
(* The window of a run one of whose time stamps is set.  (Before that the  *)
(* link shows the last hour.)                                              *)
(***************************************************************************)
From(started, completed) ==
    IF started # Never THEN WholeMinute(started - Margin)
    ELSE WholeMinute(completed + Margin) - Hour

To(started, completed) ==
    IF completed # Never THEN WholeMinute(completed + Margin)
    ELSE WholeMinute(started - Margin) + Deadline + Margin

================================================================================
