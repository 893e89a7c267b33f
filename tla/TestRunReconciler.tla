--------------------------- MODULE TestRunReconciler ---------------------------
(***************************************************************************)
(* The k6-operator: one controller per location, with one reconcile of the *)
(* test run at a time (MaxConcurrentReconciles is 1), and the goroutine    *)
(* that ignites the pods (igniter.go).  It talks to the web app (JobsAPI)  *)
(* and to the cluster of its location (Cluster).                           *)
(*                                                                         *)
(* A reconcile is cut at every write it makes outside of the process.  The *)
(* GET of the job and the read of the informer's cache are one step: the   *)
(* operator of the location makes no write between them, and what the      *)
(* informer does in between it could have done before.                     *)
(***************************************************************************)
EXTENDS JobsAPI, Cluster, Naturals

CONSTANTS
    FreshCache,  \* the informer is never behind the operator's own writes
    Timely,      \* igniters exist before the start time passes
    MaxFaults    \* bound on crashes, lost requests and answers, and failing calls

ASSUME ReconcilerAssumption ==
    /\ FreshCache \in BOOLEAN
    /\ Timely \in BOOLEAN
    /\ HasDeadline \in BOOLEAN
    /\ TestEnds \in BOOLEAN
    /\ MaxFaults \in Nat

VARIABLES
    ctl,      \* the reconcile in progress at each location
    igniter,  \* the Igniter of the test run at each location
    queued,   \* the test run is in the controller's work queue
    due,      \* started_at has passed
    faults    \* the faults so far

api == vars
operator == <<ctl, igniter, queued>>
system == <<api, cluster, operator, due, faults>>

(***************************************************************************)
(* The local variables of a reconcile: the job as the web app returned it  *)
(* (its status, its run's ready flag and whether it has a start time), the *)
(* Job as the cache returned it, and the status to PUT next.               *)
(***************************************************************************)
Labels == {"rest", "delete", "suspend", "create", "sync",
           "put", "ignite", "check igniter"}

Locals == [pc : Labels, status : Status, ready : BOOLEAN, start : BOOLEAN,
           obj : Phases, want : Status]

Rest == [pc |-> "rest", status |-> "pending", ready |-> FALSE, start |-> FALSE,
         obj |-> "absent", want |-> "pending"]

(***************************************************************************)
(* lit: Started is set and the PATCHes are under way; ok and failed are    *)
(* what Wait returned.                                                     *)
(***************************************************************************)
IgniterStates == {"none", "waiting", "lit", "ok", "failed"}

OperatorTypeOK ==
    /\ ctl \in [Locations -> Locals]
    /\ igniter \in [Locations -> IgniterStates]
    /\ queued \in [Locations -> BOOLEAN]
    /\ due \in BOOLEAN
    /\ faults \in 0..MaxFaults

OperatorInit ==
    /\ ctl = [l \in Locations |-> Rest]
    /\ igniter = [l \in Locations |-> "none"]
    /\ queued = [l \in Locations |-> FALSE]
    /\ due = FALSE
    /\ faults = 0

Fault == faults < MaxFaults /\ faults' = faults + 1

At(l, label) == ctl[l].pc = label

\* return ctrl.Result{}, nil
End(l) ==
    /\ ctl' = [ctl EXCEPT ![l] = Rest]
    /\ UNCHANGED queued

\* return ctrl.Result{}, err: the work queue tries again.
Retry(l) ==
    /\ ctl' = [ctl EXCEPT ![l] = Rest]
    /\ queued' = [queued EXCEPT ![l] = TRUE]

(***************************************************************************)
(* What a reconcile does next for a job that is not final and whose Job    *)
(* exists: the fall-through of the ifs from JobFailed on.                  *)
(***************************************************************************)
PutNext(c, s) == [c EXCEPT !.pc = "put", !.want = s]

\* Mutant of Decide: no active pods means success.
DecideOnActive(c) ==
    CASE c.status = "pending" -> PutNext(c, "queued")
      [] c.status = "queued" /\ c.obj \in AllPodsReady -> PutNext(c, "ready")
      [] c.status = "ready" -> [c EXCEPT !.pc = "ignite"]
      [] c.status = "running" /\ c.obj \notin HasPods -> PutNext(c, "completed")
      [] OTHER -> Rest

Decide(c) ==
    CASE c.obj = "failed" -> PutNext(c, "failed")
      [] c.obj # "failed" /\ c.status = "pending" -> PutNext(c, "queued")
      [] c.status = "queued" /\ c.obj \in AllPodsReady \cup {"complete"}
            -> PutNext(c, "ready")
      [] c.obj # "failed" /\ c.status = "ready" -> [c EXCEPT !.pc = "ignite"]
      [] c.status = "running" /\ c.obj \in {"succeeded"} \cup WithoutPods
            -> PutNext(c, "completed")
      [] c.status = "running" /\ c.obj \in {"absent", "suspended"}
            -> PutNext(c, "failed")
      [] OTHER -> Rest

\* Mutants of Branch: a canceled job is left alone like the other final ones; a
\* Job that is gone is waited for.
BranchWaits(c) ==
    CASE c.status = "canceled" ->
            IF c.obj \in {"absent", "suspended"} THEN Rest
            ELSE [c EXCEPT !.pc = "suspend"]
      [] c.obj = "absent" /\ c.status = "pending" -> [c EXCEPT !.pc = "create"]
      [] c.obj = "absent" /\ c.status \in Active \ {"pending"} -> Rest
      [] OTHER -> Decide(c)

BranchFinal(c) ==
    CASE c.status = "canceled" -> Rest
      [] c.obj = "absent" /\ c.status = "pending" -> [c EXCEPT !.pc = "create"]
      [] c.obj = "absent" /\ c.status \in Active \ {"pending"} -> PutNext(c, "failed")
      [] OTHER -> Decide(c)

(***************************************************************************)
(* The branch a reconcile takes on the job and the Job it has read.        *)
(***************************************************************************)
Branch(c) ==
    CASE c.status = "canceled" ->
            IF c.obj \in {"absent", "suspended"} THEN Rest
            ELSE [c EXCEPT !.pc = "suspend"]
      [] c.obj = "absent" /\ c.status = "pending" -> [c EXCEPT !.pc = "create"]
      [] c.obj = "absent" /\ c.status \in Active \ {"pending"} -> PutNext(c, "failed")
      [] OTHER -> Decide(c)

--------------------------------------------------------------------------------
(***************************************************************************)
(* removeIgniter cancels the goroutine.  PATCHes that are under way may    *)
(* still arrive, at all pods, at some or at none.                          *)
(***************************************************************************)
RemoveIgniter(l) ==
    /\ igniter' = [igniter EXCEPT ![l] = "none"]
    /\ IF igniter[l] = "lit" /\ kjob[l] = "ready"
       THEN \E phase \in AllPodsReady : SetJob(l, phase)
       ELSE UNCHANGED kjob

\* The job as the web app answers a GET, and the Job as the cache shows it.
ReadJob(l) ==
    [Rest EXCEPT !.status = status[l], !.ready = All(status, "ready"),
                 !.start = started, !.obj = cache[l]]

\* The cached Job has a DeletionTimestamp: the TTL controller removes the pods
\* first, and the Job when they are gone.
BeingDeleted(l) == cache[l] # "absent" /\ kjob[l] = "absent"

(***************************************************************************)
(* The start of a reconcile, up to its first write.  It ends at once when  *)
(* it sees that the Job is being deleted.                                  *)
(***************************************************************************)
Get(l) ==
    LET c == ReadJob(l) IN
    /\ At(l, "rest")
    /\ queued[l]
    /\ FreshCache => cache[l] = kjob[l]
    /\ queued' = [queued EXCEPT ![l] = FALSE]
    /\ \/ /\ ~Visible(l)
          /\ ctl' = [ctl EXCEPT ![l].pc = "delete"]
          /\ UNCHANGED <<kjob, igniter>>
       \/ /\ Visible(l)
          /\ status[l] \in {"completed", "failed"}
          /\ RemoveIgniter(l)
          /\ UNCHANGED ctl
       \/ /\ Visible(l)
          /\ status[l] \notin {"completed", "failed"}
          /\ BeingDeleted(l)
          /\ UNCHANGED <<ctl, kjob, igniter>>
       \/ /\ Visible(l)
          /\ status[l] \notin {"completed", "failed"}
          /\ ctl' = [ctl EXCEPT ![l] = Branch(c)]
          /\ IF status[l] = "canceled" /\ Branch(c) = Rest
             THEN RemoveIgniter(l)
             ELSE UNCHANGED <<kjob, igniter>>
    /\ UNCHANGED <<api, cache, secret, due, faults>>

\* Mutant of DeleteJob: a run that is not found is ignored.
IgnoreMissing(l) ==
    /\ At(l, "delete")
    /\ End(l)
    /\ UNCHANGED <<api, cluster, igniter, due, faults>>

\* The run is gone: so is the Job, and with it the objects it owns.
DeleteJob(l) ==
    /\ At(l, "delete")
    /\ \/ /\ SetJob(l, "absent")
          /\ secret' = [secret EXCEPT ![l] = FALSE]
          /\ End(l)
          /\ UNCHANGED faults
       \/ /\ Fault
          /\ Retry(l)
          /\ UNCHANGED <<kjob, secret>>
    /\ UNCHANGED <<api, cache, igniter, due>>

\* An Update of a Job that has changed since it was cached is a conflict.
Suspend(l) ==
    /\ At(l, "suspend")
    /\ IF ctl[l].obj = kjob[l]
       THEN /\ SetJob(l, "suspended")
            /\ igniter' = [igniter EXCEPT ![l] = "none"]
            /\ End(l)
       ELSE /\ RemoveIgniter(l)
            /\ IF kjob[l] = "absent" THEN End(l) ELSE Retry(l)
    /\ UNCHANGED <<api, cache, secret, due, faults>>

\* As many completions as the location has segments.
NewJob(l) == IF l \in Empty THEN "bare" ELSE "created"

\* syncJob: what goes wrong fails the job, also that the Job exists already.
CreateJob(l) ==
    /\ At(l, "create")
    /\ \/ /\ kjob[l] = "absent"
          /\ SetJob(l, NewJob(l))
          /\ ctl' = [ctl EXCEPT ![l].pc = "sync", ![l].obj = NewJob(l)]
          /\ UNCHANGED faults
       \/ /\ IF kjob[l] = "absent" THEN Fault ELSE UNCHANGED faults
          /\ ctl' = [ctl EXCEPT ![l] = PutNext(ctl[l], "failed")]
          /\ UNCHANGED kjob
    /\ UNCHANGED <<api, cache, secret, igniter, queued, due>>

\* The Secret and the PodDisruptionBudget; when one fails the reconcile ends.
SyncJobObjects(l) ==
    /\ At(l, "sync")
    /\ \/ /\ secret' = [secret EXCEPT ![l] = TRUE]
          /\ ctl' = [ctl EXCEPT ![l] = Decide(ctl[l])]
          /\ UNCHANGED <<queued, faults>>
       \/ /\ Fault
          /\ secret' \in {secret, [secret EXCEPT ![l] = TRUE]}
          /\ Retry(l)
    /\ UNCHANGED <<api, kjob, cache, igniter, due>>

(***************************************************************************)
(* The PUT of the job.  The answer replaces the operator's copy, and the   *)
(* reconcile falls through to the next if.  A PUT that fails, whether it   *)
(* was refused, was lost or was carried out and its answer lost, ends it.  *)
(* That of "running" is an exception: the error is only logged, and the    *)
(* reconcile goes on with a local "running" the web app may know nothing   *)
(* of.  That of "failed" is only logged too, unless syncJob has failed or  *)
(* the Job of a running test has neither active pods nor a condition.      *)
(***************************************************************************)
OnlyLogged(c) ==
    /\ c.want = "failed"
    /\ <<c.obj, c.status>> \notin {<<"absent", "pending">>, <<"suspended", "running">>}

Answered(l) ==
    LET c == [ctl[l] EXCEPT !.status = ctl[l].want, !.start = started',
                            !.ready = \A k \in rows : status'[k] = "ready"]
    IN  ctl' = [ctl EXCEPT ![l] =
                  IF c.want \in {"failed", "completed"} THEN Rest
                  ELSE IF c.want = "running" THEN [c EXCEPT !.pc = "check igniter"]
                  ELSE Decide(c)]

Unanswered(l) ==
    IF ctl[l].want = "running"
    THEN /\ ctl' = [ctl EXCEPT ![l].pc = "check igniter", ![l].status = "running"]
         /\ UNCHANGED queued
    ELSE IF OnlyLogged(ctl[l]) THEN End(l) ELSE Retry(l)

PutJob(l) ==
    /\ At(l, "put")
    /\ \/ Put(l, ctl[l].want) /\ Answered(l) /\ UNCHANGED <<queued, faults>>
       \/ /\ Fault
          /\ Put(l, ctl[l].want) \/ UNCHANGED api
          /\ Unanswered(l)
       \/ /\ Visible(l) => ~Accepts(status[l], ctl[l].want)
          /\ Unanswered(l)
          /\ UNCHANGED <<api, faults>>
    /\ UNCHANGED <<cluster, igniter, due>>

(***************************************************************************)
(* createIgniter, and what the reconcile makes of the igniter it finds.    *)
(***************************************************************************)
Ignite(l) ==
    /\ At(l, "ignite")
    /\ CASE igniter[l] = "none" ->
              IF ctl[l].ready /\ ctl[l].start /\ (ctl[l].obj = "suspended" => l \in Empty)
              THEN igniter' = [igniter EXCEPT ![l] = "waiting"] /\ End(l)
              ELSE Retry(l) /\ UNCHANGED igniter
         [] igniter[l] = "waiting" -> End(l) /\ UNCHANGED igniter
         [] igniter[l] \in {"lit", "ok", "failed"} ->
              /\ ctl' = [ctl EXCEPT ![l] =
                   PutNext(ctl[l], IF igniter[l] = "failed" THEN "failed" ELSE "running")]
              /\ UNCHANGED <<queued, igniter>>
    /\ UNCHANGED <<api, cluster, due, faults>>

\* After the PUT of "running" the igniter's error is looked at once more.
CheckIgniter(l) ==
    /\ At(l, "check igniter")
    /\ ctl' = [ctl EXCEPT ![l] = IF igniter[l] = "failed"
                                 THEN PutNext(ctl[l], "failed") ELSE Decide(ctl[l])]
    /\ UNCHANGED <<api, cluster, igniter, queued, due, faults>>

Reconcile(l) ==
    \/ Get(l)
    \/ DeleteJob(l)
    \/ Suspend(l)
    \/ CreateJob(l)
    \/ SyncJobObjects(l)
    \/ PutJob(l)
    \/ Ignite(l)
    \/ CheckIgniter(l)

--------------------------------------------------------------------------------
(***************************************************************************)
(* The igniter's goroutine: it sleeps until the start time, then resumes   *)
(* the pods.                                                               *)
(***************************************************************************)
LightUp(l) ==
    /\ igniter[l] = "waiting"
    /\ due
    /\ igniter' = [igniter EXCEPT ![l] = "lit"]
    /\ UNCHANGED <<api, cluster, ctl, queued, due, faults>>

PodsResumed(l) ==
    /\ igniter[l] = "lit"
    /\ IF l \in Empty THEN UNCHANGED kjob
       ELSE kjob[l] \in AllPodsReady /\ SetJob(l, "running")
    /\ igniter' = [igniter EXCEPT ![l] = "ok"]
    /\ UNCHANGED <<api, cache, secret, ctl, queued, due, faults>>

\* A PATCH fails and cancels the others, which may have arrived.
PatchFails(l) ==
    /\ igniter[l] = "lit"
    /\ l \notin Empty
    /\ IF kjob[l] \in AllPodsReady THEN Fault ELSE UNCHANGED faults
    /\ kjob' \in {kjob, [kjob EXCEPT ![l] = IF @ = "ready" THEN "partial" ELSE @]}
    /\ igniter' = [igniter EXCEPT ![l] = "failed"]
    /\ UNCHANGED <<api, cache, secret, ctl, queued, due>>

IgniterStep(l) == LightUp(l) \/ PodsResumed(l) \/ PatchFails(l)

--------------------------------------------------------------------------------
(***************************************************************************)
(* What puts the test run in the work queue: the worker that lists the     *)
(* jobs of the location every five seconds and passes on those that are    *)
(* neither completed nor failed, the events of the Job, and the resync of  *)
(* the informer.                                                           *)
(***************************************************************************)
Enqueue(l) == queued' = [queued EXCEPT ![l] = TRUE]

\* Listed by Watch, and past the filters of the worker.
Watched(l) ==
    /\ Visible(l)
    /\ status[l] \notin {"completed", "failed"}

Poll(l) ==
    /\ Watched(l)
    /\ ~queued[l]
    /\ Enqueue(l)
    /\ UNCHANGED <<api, cluster, ctl, igniter, due, faults>>

JobEvent(l) ==
    /\ Informed(l)
    /\ Enqueue(l)
    /\ UNCHANGED <<api, ctl, igniter, due, faults>>

Resync(l) ==
    /\ cache[l] # "absent"
    /\ ~queued[l]
    /\ Enqueue(l)
    /\ UNCHANGED <<api, cluster, ctl, igniter, due, faults>>

(***************************************************************************)
(* The operator's pod is replaced: its queue, its igniters and the         *)
(* reconcile in progress are lost, and its cache is filled anew.           *)
(***************************************************************************)
Restart(l) ==
    /\ Fault
    /\ ctl' = [ctl EXCEPT ![l] = Rest]
    /\ RemoveIgniter(l)
    /\ cache' = [cache EXCEPT ![l] = kjob'[l]]
    /\ queued' = [queued EXCEPT ![l] = kjob'[l] # "absent"]
    /\ UNCHANGED <<api, secret, due>>

================================================================================
