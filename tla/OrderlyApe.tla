------------------------------- MODULE OrderlyApe ------------------------------
(***************************************************************************)
(* The whole system around one test run: users and the web app (JobsAPI),  *)
(* and at every location an operator (TestRunReconciler) with its cluster  *)
(* (Cluster).                                                              *)
(***************************************************************************)
EXTENDS TestRunReconciler, Dashboard

SystemInit == Init /\ ClusterInit /\ OperatorInit

\* What users do; the operators find out by polling.
UserStep ==
    /\ \/ "start" \in Requests /\ Start
       \/ "cancel" \in Requests /\ Cancel
       \/ "delete" \in Requests /\ Delete
    /\ UNCHANGED <<cluster, operator, due, faults>>

(***************************************************************************)
(* The start time passes, half a minute after it was fixed; Timely assumes *)
(* that every ready location was reconciled in the meantime.               *)
(***************************************************************************)
StartTimePasses ==
    /\ started
    /\ ~due
    /\ Timely => \A l \in rows : status[l] = "ready" => igniter[l] # "none"
    /\ due' = TRUE
    /\ UNCHANGED <<api, cluster, operator, faults>>

OnlyCluster == UNCHANGED <<api, operator, due, faults>>
PodsStart(l) == PodsReady(l) /\ OnlyCluster
PodsEnd(l) == PodsSucceed(l) /\ OnlyCluster
JobWithoutPods(l) == NothingToRun(l) /\ OnlyCluster

\* The deadline ends the Job; without one, pods still fail, which is a fault.
DeadlinePasses(l) == HasDeadline /\ JobFails(l) /\ OnlyCluster

PodsFail(l) ==
    /\ ~HasDeadline
    /\ Fault
    /\ JobFails(l)
    /\ UNCHANGED <<api, operator, due>>

\* Operators that keep up have reported the end of the Job long before.
JobGoes(l) ==
    /\ Timely /\ Visible(l) => status[l] \in Final
    /\ JobExpires(l)
    /\ OnlyCluster

ClusterStep(l) ==
    \/ PodsStart(l)
    \/ PodsEnd(l)
    \/ JobWithoutPods(l)
    \/ DeadlinePasses(l)
    \/ PodsFail(l)
    \/ JobGoes(l)

SystemNext ==
    \/ UserStep
    \/ StartTimePasses
    \/ \E l \in Locations :
          \/ Reconcile(l)
          \/ IgniterStep(l)
          \/ ClusterStep(l)
          \/ Poll(l)
          \/ JobEvent(l)
          \/ Resync(l)
          \/ Restart(l)

System == SystemInit /\ [][SystemNext]_system

(***************************************************************************)
(* Operators work through their queue, poll or resync, watch events and    *)
(* the igniter's PATCHes arrive, time passes and pods that can start do.   *)
(* A Job comes to its end when k6 does or by its deadline, if it has one;  *)
(* TestEnds is FALSE for tests that go on for ever.  Nobody has to make a  *)
(* request, and nothing has to go wrong.                                   *)
(***************************************************************************)
JobMoves(l) ==
    \/ PodsStart(l)
    \/ JobWithoutPods(l)
    \/ TestEnds /\ PodsEnd(l)
    \/ DeadlinePasses(l)
    \/ JobGoes(l)

FairSystem ==
    /\ System
    /\ WF_system(StartTimePasses)
    /\ \A l \in Locations :
          /\ WF_system(JobMoves(l))
          /\ WF_system(Reconcile(l))
          /\ WF_system(IgniterStep(l))
          /\ WF_system(JobEvent(l))
          /\ WF_system(Poll(l) \/ Resync(l))

--------------------------------------------------------------------------------
\* What has to be true of the types of the parts.
SystemTypeOK == TypeOK /\ ClusterTypeOK /\ OperatorTypeOK

(***************************************************************************)
(* The barrier: no location generates load while another location of the   *)
(* run has yet to report that its pods are ready.                          *)
(***************************************************************************)
NoLoadBeforeBarrier ==
    (\E l \in Locations : kjob[l] \in Loading)
        => \A k \in rows : status[k] \notin {"pending", "queued"}

(***************************************************************************)
(* A location is reported completed only when its pods have succeeded, if  *)
(* it has any; the Job that shows it may be gone by then.                  *)
(***************************************************************************)
CompletedMeansSucceeded ==
    [][\A l \in rows : status[l] # "completed" /\ status'[l] = "completed"
          => l \in Empty \/ kjob[l] \in {"succeeded", "absent"}]_system

\* What the list of test runs shows of the run.
Statuses == {status[l] : l \in rows}
Shown == StatusColumn(draft, Statuses)

(***************************************************************************)
(* A run that the dashboard ticks as completed puts no load on the target  *)
(* any more: no pod of it is left in any cluster.  (admin.py:completed)    *)
(***************************************************************************)
ShownCompletedMeansIdle ==
    CompletedColumn(draft, Statuses) = "yes"
        => \A l \in rows : kjob[l] \notin HasPods

(***************************************************************************)
(* The status shown of a run never goes back, whatever order its locations *)
(* report in, and whatever fails or is canceled on the way: who has seen   *)
(* it run, complete or fail does not see it wait again.  (admin.py:status) *)
(***************************************************************************)
ShownNeverGoesBack == [][exists' => Stage[Shown] <= Stage[Shown']]_system

(***************************************************************************)
(* A location is reported failed only when it has: its Job failed, is gone *)
(* or was suspended, or its igniter could not resume the pods.             *)
(***************************************************************************)
FailureIsReal ==
    [][\A l \in rows : status[l] # "failed" /\ status'[l] = "failed"
          => \/ kjob[l] \in {"failed", "absent", "suspended"}
             \/ igniter[l] = "failed"]_system

(***************************************************************************)
(* A canceled job stops loading the target, whatever its operator was      *)
(* doing when the job was canceled, also if the test would never end.  (A  *)
(* job that its operator then reports as failed is left alone, see the     *)
(* README.)                                                                *)
(***************************************************************************)
CancelStopsLoad ==
    \A l \in Locations :
        (l \in rows /\ status[l] = "canceled")
            ~> (kjob[l] \notin HasPods \/ status[l] = "failed" \/ ~exists)

\* With a deadline a started run ends, whatever goes wrong on the way, also if
\* the test itself would go on for ever.
EveryRunEnds ==
    ~draft ~> (\A l \in rows : status[l] \in Final)

(***************************************************************************)
(* Once a run is deleted nothing of it stays in the clusters, also if its  *)
(* operators were about to create their Jobs.                              *)
(***************************************************************************)
DeletedRunLeavesNoJob ==
    ~exists ~> [](\A l \in Locations : kjob[l] = "absent")

(***************************************************************************)
(* A run that nobody stops is completed at every location, and has an end  *)
(* time, if nothing fails and the operators keep up; no location makes the *)
(* others wait for ever, and none is canceled on account of another.       *)
(***************************************************************************)
RunCompletes ==
    ~draft ~> \/ completed /\ \A l \in rows : status[l] = "completed"
              \/ rows = {}

================================================================================
