--------------------------------- MODULE WebApp --------------------------------
(***************************************************************************)
(* The web app's request handlers as they run: Workers handle requests     *)
(* concurrently, and a handler is the sequence of database statements that *)
(* Django issues for it.  ATOMIC_REQUESTS is off, so each statement of a   *)
(* PUT commits on its own; what a handler read earlier may be stale by the *)
(* time it writes, and Model.save() writes the whole row it once read.     *)
(* Blocks under transaction.atomic (cancelling, deleting and editing a     *)
(* run) are one step: the default database is SQLite in IMMEDIATE mode.    *)
(*                                                                         *)
(* JobsAPI is the same service with every request taking effect at once.   *)
(***************************************************************************)
EXTENDS JobStatus, TestLocations, Results

CONSTANTS
    ClientStatuses,  \* the statuses operators PUT
    Requests,        \* the kinds of requests users make
    Workers,         \* the gunicorn workers
    StartDelay,      \* TEST_RUN_START_DELAY_SECONDS
    MaxTime,         \* bound on the clock
    MaxDeaths,       \* bound on the workers that die while handling a request
    Admin            \* the client that is not an operator

RequestKinds == {"start", "cancel", "delete", "add"}

ASSUME WebAppAssumption ==
    /\ ClientStatuses \subseteq Status
    /\ Requests \subseteq RequestKinds
    /\ StartDelay \in Nat
    /\ MaxTime \in Nat
    /\ MaxDeaths \in Nat
    /\ Admin \notin Locations

VARIABLES
    exists,  \* the TestRun row exists
    run,     \* the TestRun row
    rows,    \* the locations that have a TestRunLocation row
    status,  \* TestRunLocation.status
    now,     \* the clock
    req,     \* the request each worker is handling
    deaths   \* the workers that died so far

db == <<exists, run, rows, status>>
vars == <<exists, run, rows, status, now, req, deaths>>

Times == Nat \cup {Never}
Runs == [draft : BOOLEAN, started : Times, completed : Times]

(***************************************************************************)
(* A request in progress: the next statement, whose request it is, the     *)
(* status it sets, and the TestRun row as the handler read it.             *)
(***************************************************************************)
Labels == {"idle", "ready count", "ready save", "save", "started count",
           "started save", "completed count", "completed save",
           "cancel others", "start save", "cancel run"}

Handlers == [pc : Labels, client : Locations \cup {Admin},
             to : Status, snap : Runs]

NewRun == [draft |-> TRUE, started |-> Never, completed |-> Never]

Idle == [pc |-> "idle", client |-> Admin, to |-> "pending", snap |-> NewRun]

Init ==
    /\ exists = TRUE
    /\ run = NewRun
    /\ rows \in SUBSET Locations
    /\ status = [l \in Locations |-> "pending"]
    /\ now = 0
    /\ req = [w \in Workers |-> Idle]
    /\ deaths = 0

Busy(w) == req[w].pc # "idle"
Quiet == \A w \in Workers : ~Busy(w)

(***************************************************************************)
(* A worker may take a request of this client: an operator handles a job   *)
(* in one reconcile at a time and waits for the answer to its PUT, and one *)
(* user works with the test run.                                           *)
(***************************************************************************)
Free(w, client) ==
    /\ ~Busy(w)
    /\ \A v \in Workers : Busy(v) => req[v].client # client

At(w, label) == req[w].pc = label
Goto(w, label) == req' = [req EXCEPT ![w].pc = label]
Done(w) == req' = [req EXCEPT ![w] = Idle]

\* locations.exclude(status=s).count() == 0, also when there is no row left.
AllAre(s) == \A l \in rows : status[l] = s

\* test_run.save(): the whole row is written, and inserted if it is gone.
SaveRun(r) == exists' = TRUE /\ run' = r

--------------------------------------------------------------------------------
(***************************************************************************)
(* PUT of a job.  get_object() reads the job and its run in one statement, *)
(* validate_status judges what was read.                                   *)
(***************************************************************************)
GetJob(w, l, s) ==
    /\ Free(w, l)
    /\ l \in rows
    /\ ~run.draft
    /\ Accepts(status[l], s)
    /\ req' = [req EXCEPT ![w] =
                 [pc |-> IF status[l] = "queued" /\ s = "ready"
                         THEN "ready count" ELSE "save",
                  client |-> l, to |-> s, snap |-> run]]
    /\ UNCHANGED <<db, now, deaths>>

\* Mutant of ReadyCount: ready() leaves its own job out of the count.
ReadyCountOthers(w) ==
    /\ At(w, "ready count")
    /\ Goto(w, IF \A l \in rows \ {req[w].client} : status[l] = "ready"
               THEN "ready save" ELSE "save")
    /\ UNCHANGED <<db, now, deaths>>

(***************************************************************************)
(* The transition method ready() counts before its own job is saved.       *)
(***************************************************************************)
ReadyCount(w) ==
    /\ At(w, "ready count")
    /\ Goto(w, IF AllAre("ready") THEN "ready save" ELSE "save")
    /\ UNCHANGED <<db, now, deaths>>

\* Mutants of AfterSave: the start time is looked for when a job is queued
\* instead of when it is ready; the end time depends on the start time; a start
\* time that is set is set again; failures are not passed on.
AfterSaveTooEarly(r) ==
    CASE r.to = "queued" /\ r.snap.started = Never -> "started count"
      [] r.to = "completed" /\ r.snap.completed = Never -> "completed count"
      [] r.to = "failed" -> "cancel others"
      [] OTHER -> "idle"

AfterSaveMixedUp(r) ==
    CASE r.to = "ready" /\ r.snap.started = Never -> "started count"
      [] r.to = "completed" /\ r.snap.started = Never -> "completed count"
      [] r.to = "failed" -> "cancel others"
      [] OTHER -> "idle"

AfterSaveAgain(r) ==
    CASE r.to = "ready" -> "started count"
      [] r.to = "completed" -> "completed count"
      [] r.to = "failed" -> "cancel others"
      [] OTHER -> "idle"

AfterSaveSilent(r) ==
    CASE r.to = "ready" /\ r.snap.started = Never -> "started count"
      [] r.to = "completed" /\ r.snap.completed = Never -> "completed count"
      [] OTHER -> "idle"

\* What the post_save receivers do next, or "idle" when none has work to do.
AfterSave(r) ==
    CASE r.to = "ready" /\ r.snap.started = Never -> "started count"
      [] r.to = "completed" /\ r.snap.completed = Never -> "completed count"
      [] r.to = "failed" -> "cancel others"
      [] OTHER -> "idle"

(***************************************************************************)
(* instance.save() writes the status whatever the row holds by now.  A row *)
(* that was deleted is inserted again, unless its run is gone as well.     *)
(***************************************************************************)
SaveJob(w) ==
    LET r == req[w] IN
    /\ At(w, "save")
    /\ IF r.client \in rows \/ exists
       THEN /\ rows' = rows \cup {r.client}
            /\ status' = [status EXCEPT ![r.client] = r.to]
            /\ IF AfterSave(r) = "idle" THEN Done(w) ELSE Goto(w, AfterSave(r))
       ELSE /\ UNCHANGED <<rows, status>>
            /\ Done(w)
    /\ UNCHANGED <<exists, run, now, deaths>>

\* Mutant of StartedCount: the first job that is ready fixes the start time.
StartedAtOnce(w) ==
    /\ At(w, "started count")
    /\ req' = [req EXCEPT ![w].pc = "started save",
                          ![w].snap.started = now + StartDelay]
    /\ UNCHANGED <<db, now, deaths>>

\* set_test_started_at: every job is ready, so the start time is fixed.
StartedCount(w) ==
    /\ At(w, "started count")
    /\ IF AllAre("ready")
       THEN req' = [req EXCEPT ![w].pc = "started save",
                               ![w].snap.started = now + StartDelay]
       ELSE Done(w)
    /\ UNCHANGED <<db, now, deaths>>

\* set_test_completed_at
CompletedCount(w) ==
    /\ At(w, "completed count")
    /\ IF AllAre("completed")
       THEN req' = [req EXCEPT ![w].pc = "completed save",
                               ![w].snap.completed = now]
       ELSE Done(w)
    /\ UNCHANGED <<db, now, deaths>>

(***************************************************************************)
(* test_run.save(), with the row as the handler read it: in the receivers, *)
(* in start(), and in ready(), whose start time is the database's Now()    *)
(* and which goes on to save its job.                                      *)
(***************************************************************************)
RunSaves == {"ready save", "started save", "completed save", "start save"}

SaveSnapshot(w) ==
    /\ req[w].pc \in RunSaves
    /\ IF At(w, "ready save")
       THEN /\ SaveRun([req[w].snap EXCEPT !.started = now])
            /\ req' = [req EXCEPT ![w].pc = "save", ![w].snap.started = now]
       ELSE /\ SaveRun(req[w].snap)
            /\ Done(w)
    /\ UNCHANGED <<rows, status, now, deaths>>

\* Mutant of StoppedOthers: the status is misspelt.
StoppedMisspelt ==
    [l \in Locations |-> IF l \in rows THEN "cancelled" ELSE status[l]]

\* The jobs as cancel_on_failure leaves them.
StoppedOthers ==
    [l \in Locations |->
        IF l \in rows /\ status[l] \notin SparedByFailure
        THEN "canceled" ELSE status[l]]

\* cancel_on_failure: one UPDATE of the jobs of the other locations.
CancelOthers(w) ==
    /\ At(w, "cancel others")
    /\ status' = StoppedOthers
    /\ Done(w)
    /\ UNCHANGED <<exists, run, rows, now, deaths>>

--------------------------------------------------------------------------------
(***************************************************************************)
(* The admin's actions.  Starting reads the drafts, then saves each.       *)
(***************************************************************************)
ReadDraft(w) ==
    /\ Free(w, Admin)
    /\ exists
    /\ run.draft
    /\ req' = [req EXCEPT ![w] = [Idle EXCEPT !.pc = "start save",
                                    !.snap = [run EXCEPT !.draft = FALSE]]]
    /\ UNCHANGED <<db, now, deaths>>

\* Cancelling looks at the statuses first, outside of the transaction.
ReadStatuses(w) ==
    /\ Free(w, Admin)
    /\ exists
    /\ ~run.draft
    /\ \A l \in rows : status[l] # "failed"
    /\ \E l \in rows : status[l] # "completed"
    /\ req' = [req EXCEPT ![w] = [Idle EXCEPT !.pc = "cancel run"]]
    /\ UNCHANGED <<db, now, deaths>>

CancelRun(w) ==
    /\ At(w, "cancel run")
    /\ status' = [l \in Locations |->
                    IF l \in rows /\ status[l] \notin Final
                    THEN "canceled" ELSE status[l]]
    /\ Done(w)
    /\ UNCHANGED <<exists, run, rows, now, deaths>>

\* The run and its jobs are deleted in one transaction.
DeleteRun(w) ==
    /\ Free(w, Admin)
    /\ exists
    /\ exists' = FALSE
    /\ rows' = {}
    /\ UNCHANGED <<run, status, now, req, deaths>>

\* The change form of a run that is not a draft adds a location.
AddLocation(w, l) ==
    /\ Free(w, Admin)
    /\ exists
    /\ ~run.draft
    /\ l \notin rows
    /\ rows' = rows \cup {l}
    /\ status' = [status EXCEPT ![l] = "pending"]
    /\ UNCHANGED <<exists, run, now, req, deaths>>

(***************************************************************************)
(* duplicate_test_run: a new run with the same locations.  The model       *)
(* follows the copy from then on, so nothing is in progress for it.        *)
(***************************************************************************)
Duplicate ==
    /\ Quiet
    /\ exists
    /\ run' = [run EXCEPT !.draft = TRUE, !.started = Never]
    /\ status' = [l \in Locations |-> "pending"]
    /\ UNCHANGED <<exists, rows, now, req, deaths>>

--------------------------------------------------------------------------------
Tick ==
    /\ now < MaxTime
    /\ now' = now + 1
    /\ UNCHANGED <<db, req, deaths>>

\* A worker is killed: what it committed stays, the rest never happens.
Die(w) ==
    /\ deaths < MaxDeaths
    /\ Busy(w)
    /\ deaths' = deaths + 1
    /\ Done(w)
    /\ UNCHANGED <<db, now>>

Handle(w) ==
    \/ ReadyCount(w)
    \/ SaveJob(w)
    \/ StartedCount(w)
    \/ CompletedCount(w)
    \/ SaveSnapshot(w)
    \/ CancelOthers(w)
    \/ CancelRun(w)

Receive(w) ==
    \/ \E l \in Locations, s \in ClientStatuses : GetJob(w, l, s)
    \/ "start" \in Requests /\ ReadDraft(w)
    \/ "cancel" \in Requests /\ ReadStatuses(w)
    \/ "delete" \in Requests /\ DeleteRun(w)
    \/ "add" \in Requests /\ \E l \in Locations : AddLocation(w, l)

Next ==
    \/ \E w \in Workers : Receive(w) \/ Handle(w) \/ Die(w)
    \/ Tick

Spec == Init /\ [][Next]_vars

\* Every worker finishes the request it has taken, unless it is killed.
FairSpec == Spec /\ \A w \in Workers : WF_vars(Handle(w))

\* The same with runs that are duplicated.
DuplicatingSpec == Init /\ [][Next \/ Duplicate]_vars

--------------------------------------------------------------------------------
TypeOK ==
    /\ exists \in BOOLEAN
    /\ run \in Runs
    /\ rows \subseteq Locations
    /\ status \in [Locations -> Status]
    /\ now \in Nat
    /\ req \in [Workers -> Handlers]
    /\ deaths \in Nat

(***************************************************************************)
(* However the requests of the locations interleave, the barrier opens:    *)
(* when all jobs are ready and nothing is in progress any more, the run    *)
(* has a start time.  If every PUT counted before the other one's save was *)
(* visible, nobody would set it and all locations would wait for ever.     *)
(***************************************************************************)
AllReadyHasStart ==
    deaths = 0 /\ Quiet /\ rows # {} /\ AllAre("ready") => run.started # Never

(***************************************************************************)
(* The results that the list of runs links to contain the test: its start, *)
(* its end, and the moment at which its Jobs are ended if it takes too     *)
(* long, to the minute.  That one of the stamps was never written, because *)
(* its worker died, or that the end was saved first does not matter.       *)
(* (models.py:grafana_url)                                                 *)
(***************************************************************************)
WindowShowsTest ==
    LET from == From(run.started, run.completed)
        to == To(run.started, run.completed)
    IN  /\ run.started # Never => from <= run.started /\ run.started < to
        /\ run.completed # Never => from <= run.completed /\ run.completed < to
        /\ run.started # Never /\ run.completed = Never
              => run.started + Deadline < to + Minute

\* The same for the end: a run whose jobs are all completed has an end time.
AllCompletedHasEnd ==
    deaths = 0 /\ Quiet /\ rows # {} /\ AllAre("completed") => run.completed # Never

(***************************************************************************)
(* A run with a start time has no location that has yet to get ready: a    *)
(* start time that was counted for is never published, by a slow worker,   *)
(* over jobs that are behind the barrier.                                  *)
(***************************************************************************)
StartMeansBarrier ==
    run.started # Never => \A l \in rows : status[l] \notin {"pending", "queued"}

(***************************************************************************)
(* The branch of ready() that publishes the present moment as the start    *)
(* time is dead: it would give no location the time to get the start time  *)
(* before it has passed.  ready() counts before its own job is saved, and  *)
(* no interleaving of PUTs, retries and cancellations makes that job ready *)
(* behind its back.  (models.py:ready)                                     *)
(***************************************************************************)
NoImmediateStart == \A w \in Workers : ~At(w, "ready save")

(***************************************************************************)
(* Once published, the start time stands: locations read it at different   *)
(* moments and are to begin testing at the same time.                      *)
(***************************************************************************)
StartTimeStable ==
    [][run.started # Never => run'.started = run.started]_vars

\* A canceled job does not come back to life: it stays, or it fails.
CanceledStaysDead ==
    [][\A l \in rows \cap rows' :
          status[l] = "canceled" => status'[l] \in {"canceled", "failed"}]_vars

\* A draft has no end time: it has not been executed.
DraftHasNoEnd == run.draft => run.completed = Never

(***************************************************************************)
(* If no worker is killed, all jobs being ready leads to a start time,     *)
(* unless one of the jobs stops being ready.                               *)
(***************************************************************************)
BarrierOpens ==
    (rows # {} /\ AllAre("ready"))
        ~> (run.started # Never \/ ~AllAre("ready") \/ deaths > 0)

--------------------------------------------------------------------------------
(***************************************************************************)
(* With one worker the handlers implement the promise: a PUT takes effect  *)
(* when its job is saved, although the receivers have yet to write.        *)
(***************************************************************************)
Someone(label) == \E w \in Workers : At(w, label)

PromisedStatus == IF Someone("cancel others") THEN StoppedOthers ELSE status

PromisedStart ==
    \/ run.started # Never
    \/ Someone("started count") /\ AllAre("ready")
    \/ Someone("started save")

PromisedEnd ==
    \/ run.completed # Never
    \/ Someone("completed count") /\ AllAre("completed")
    \/ Someone("completed save")

Promise == INSTANCE JobsAPI WITH
    draft <- run.draft, status <- PromisedStatus,
    started <- PromisedStart, completed <- PromisedEnd

ImplementsPromise == Promise!Spec

================================================================================
