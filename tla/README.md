# A TLA+ model of Orderly Ape

Orderly Ape runs k6 load tests from several locations at once. This directory
models how it gets all locations of a test run to start together, to report
truthfully and to stop: the jobs API and the forms of the web app, the operator
of each location, with its reconciler, its worker and its pinger, and the
cluster the operator works in. TLC checks the models on small
instances; TLAPS proves its safety properties for every number of locations, of
gunicorn workers and of pods. Liveness is checked by TLC only.

All paths below are relative to the root of the repository; `models.py`,
`signals.py`, `serializers.py`, `views.py` and `admin.py` are those of
`webapp/loadtest/`, `testrun_controller.go` and `igniter.go` those of
`k6-operator/internal/controller/`.

## 1. Inventory

| Component | State it keeps | Operations | Correct when |
|---|---|---|---|
| Job life cycle (`models.py` TestRunLocation) | `status` of a test run at a location | `accept ready start finish fail cancel retry` | only declared transitions happen; final states stay final |
| Test run (`models.py` TestRun, `signals.py`) | `draft`, `started_at`, `completed_at` | start, cancel, duplicate, three `post_save` receivers | the start time is set once, when all are ready; the end time when all are done; a failure stops the others |
| Jobs API (`views.py`, `serializers.py`) | none | GET, PUT of a job by an operator | concurrent PUTs neither lose nor repeat what the receivers do |
| Dashboard, list of runs (`admin.py`, `models.py`) | none | start, cancel, delete; the columns, the link to the results | an action that races a PUT is not undone by it; the summary of a run neither steps back nor runs ahead |
| Dashboard, change form (`admin.py`) | none | save, save and run, duplicate, add a location | all locations of a started run execute the same test |
| TestRunReconciler (`testrun_controller.go`) | work queue, informer cache | Reconcile: create, observe, report, suspend, delete | what it reports is true; it makes progress after every failure; a canceled run stops |
| Igniter (`igniter.go`) | one goroutine per test run, in memory | wait for the start time, PATCH every pod, remove | no load before the start time; all pods or a failure |
| Worker, Watch, client (`k6-operator/internal/loadtesting`) | two unbuffered channels | list the jobs every 5 s, pass them on; GET, PUT | every active job is reconciled again and again; shutdown ends |
| Ping (`ping.go`, `views.py`, `models.py` TestLocation) | `last_ping` | POST every 30 s; online for 5 min | a live operator is shown online, a dead one is not |
| Operator process (`main.go`) | the manager's runnables | start, stop within a grace period, restart | a runnable that hangs does not keep the next process from starting |
| Segments (`models.py`) | none | `segments`, `assigned_segments` | the workers' segments tile 0..1 |
| Kubernetes (external) | Job, pods, Secret | readiness, completion, deadline, TTL, informer | assumed |

How they interact. Users act on the web app only. An operator polls the web app
for its location's jobs (worker → channel → work queue), and one reconcile at a
time GETs the job, reads the Kubernetes Job from its cache, does the next thing
and PUTs the new status; Job events and resyncs trigger reconciles too. The web
app's receivers turn the PUT that makes the last location ready into a start
time, the one that makes the last location complete into an end time and the
one that reports a failure into the cancellation of the siblings. Operators
never talk to each other: the barrier is a column of a database table.

What is hard here: PUTs of different locations are handled concurrently by
several gunicorn processes and a handler is not a transaction; `Model.save()`
writes whole rows that were read earlier; the operator's view of its own Job is
a cache that lags behind its writes; the igniters live in memory only; PUTs may
be carried out although their answer is lost; users cancel and delete while all
of this is going on.

## 2. Modules

| Module | Models |
|---|---|
| `JobStatus` | the statuses and transitions of a job; pure |
| `TestLocations` | the constant `Locations` that all parts share |
| `JobsAPI` | the abstract specification: one test run, each request in one step |
| `WebApp` | the same requests as the statements the handlers issue, on concurrent workers |
| `Results` | the time window of the results page, computed from the time stamps; pure; looked at through `WebApp` |
| `Cluster` | external: the Job, Secret and informer of each location |
| `TestRunReconciler` | reconciles and igniters, EXTENDS `JobsAPI` and `Cluster` |
| `Dashboard` | the columns of the list of test runs; pure; looked at through `OrderlyApe` |
| `OrderlyApe` | the composition: users, web app, operators, clusters |
| `Segments` | the division of the load among the worker pods of all locations |
| `TestRunForm` | the change form and the list's start action, next to operators that read the run; EXTENDS `Segments` |
| `Process` | the process of an operator: stopping, crashing, starting |
| `Worker` | Watch, the worker and the controller's source over two unbuffered channels |
| `Ping` | the pinger, the handler of pings, the stamp of a location and its display |
| `OperatorProcess` | the composition of the last three on one clock |
| `MCWebApp`, `MCOrderlyApe`, `MCSegments` | instances for TLC (`OperatorProcess` is its own) |
| `JobsAPI_proofs`, `WebApp_proofs`, `WebAppPromise_proofs`, `OrderlyApe_proofs`, `Dashboard_proofs`, `TestRunForm_proofs`, `Segments_proofs`, `OperatorProcess_proofs` | theorems |

Two levels share the abstract specification `JobsAPI`. Below it, `WebApp`
implements it (run `webapp_serial`, property `ImplementsPromise`) as long as one
gunicorn worker handles the requests; with two workers it does not, and the
runs `webapp_start_time` and `webapp_canceled` show the two ways in which it
fails. Above it, `OrderlyApe` takes the promise for granted and composes it with
the operators. So what `OrderlyApe` shows holds for a deployment with one
gunicorn worker, and the findings of `WebApp` say what more workers cost.

### JobsAPI and WebApp

Both model one test run. Runs share no state but the tables, and every query
of the handlers filters by the run. Names, targets, resources, environment
variables, labels and descriptions are data that no handler branches on and are
left out (`TestRunForm` has those that matter to the operators). A draft's
edits before it is started are the choice of `rows` in `Init`.

`JobsAPI` keeps `exists`, `draft`, `rows` (the chosen locations), `status`, and
whether the two time stamps are set. `Put` is a valid PUT with everything it
causes.

`WebApp` adds the values of the time stamps, a clock, and one handler per
worker with the label of its next statement and the TestRun row as
`get_object()` read it (`select_related`), which is what the receivers test and
later save. `ATOMIC_REQUESTS` is off, so a handler is cut at every statement:

    GetJob -> [ReadyCount -> [SaveSnapshot]] -> SaveJob
           -> StartedCount -> SaveSnapshot          status ready
           -> CompletedCount -> SaveSnapshot        status completed
           -> CancelOthers                          status failed

Cancelling, deleting, adding and duplicating run in a transaction; with SQLite
in IMMEDIATE mode (the chart's `DATABASE_URL`) transactions that write are
serial, so each is one step, apart from what `cancel_test_runs` reads before it.
A save of a row that was deleted inserts it again, as Django does, unless the
run it refers to is gone. `Die` kills a worker between two statements.

Clients: an operator has one PUT in flight, because it reconciles one test run
once at a time and waits for the answer; there is one administrator. A client
whose request timed out and who tries again while the first one is still being
handled is not modelled in `WebApp`.

### TestRunReconciler, Cluster, OrderlyApe

A reconcile is a program counter with the local variables of `Reconcile`: the
job as the API returned it, the Job as the cache returned it, and the status it
is about to PUT. It is cut at each write to the API server or the web app:

    Get -> DeleteJob                                  404
        -> Suspend                                    CANCELED
        -> CreateJob -> SyncJobObjects -> PutJob ...  PENDING without a Job
        -> PutJob -> (Decide) -> PutJob | Ignite | rest

`Branch` and `Decide` are the `if`s of `Reconcile` in their order; after an
answered PUT the local job is what the web app returned and control falls
through to the next `if`, as in the code. `PutJob` is answered, or it fails:
because the web app refuses it, or as a fault, whether it was carried out and the
answer lost, or the request itself. A PUT that fails ends the reconcile, except
that of RUNNING, whose error is only logged: the reconcile then goes on with a
local RUNNING while the web app may still hold READY, so that COMPLETED is tried
and refused (`testrun_controller.go:228-257`). That of FAILED is only logged too,
unless `syncJob` has failed or the Job of a running test has neither active pods
nor a condition (`OnlyLogged`). `BeingDeleted` is the early return for a Job that has a
DeletionTimestamp (`testrun_controller.go:125-127`).

The Job is a phase: `absent`, `created` (pods starting), `ready` (all pods
ready, k6 paused), `partial` and `running` (some or all pods ignited),
`succeeded`, `failed`, `suspended`; a location that was chosen with no workers
(`Empty`) has a Job without pods, which is `bare` and, once the Job controller
has looked at it, `complete`. The operator takes zero ready pods of zero for
ready and zero succeeded of zero for success
(`testrun_controller.go:197,245`), so such a location passes the barrier like the others. The pods, their indexes and the template
`syncJob` writes are abstracted to it. `cache` is an older phase of it;
`FreshCache` switches the lag off.

The igniter is `none`, `waiting`, `lit` (`Started` is set, PATCHes under way),
`ok` or `failed`. The unsynchronised reads of `Started` and `Error` by the
reconcile are the two steps `Ignite` and `CheckIgniter`, which may see any of
these states. Removing a `lit` igniter leaves open how many PATCHes arrive.

Faults are counted and bounded by `MaxFaults`: a restart of the operator, a
PUT that is lost or whose answer is lost, a failing create, delete, Secret or
PATCH, a failing pod (with a deadline a Job may fail at any time anyway). A failing
create or delete has no effect in the model; a failing Secret or PATCH may have had
one.

### Segments

`jobs` are the rows of the run in the order of their primary keys, each with its
number of workers. `WorkersUpTo` adds them up row by row; the sums that the code
leaves to the database are its values. A border is a fraction, since k6 compares
segments as rationals. `told` is what the operator of a location has read so far of the job
whose Job it creates: JobSerializer runs one query for `test_run.segments`, one
for the workers of the rows before and one for all workers, which are the steps
`ReadSequence`, `ReadStart` and `ReadTotal`. What it was told goes into the pod
template and is never read again (`testrun_controller.go:400-473`), so the pods of
the Job are `AssignedSegments(l)`. Rows are edited while the run is a draft and
can be added at any time. The deletion of a run and failing creations only take
Jobs away and are left out. `grown` is a history variable: the locations whose
operator had read the sequence and not yet the total when workers were added.

`TestRunForm` puts the rows into the form they are edited in. `settings` are the
other fields, of which one script stands for all that become read-only, and the
variables and labels as operators are told of them: a value for each name. The code
keeps rows, which may share a name, and `get_env_vars` makes a dict of them
(`serializers.py:14-17`), in which the last row of a name counts. A POST may come from a page that was
opened when the run was a draft, so `Save(s)` takes any `s`, and `Posted` says what
Django takes of it now: nothing of the read-only fields, no change and no removal
of a row, but additions, of new names and of names there are already, since
`get_max_num` (`admin.py:62`) only hides the empty forms. `SaveAndRun` and `Duplicate` save what was posted first.
The list's action start is two steps, because it reads the rows of all selected
drafts before it saves them one by one: `ListDrafts` and `StartListed`. `late`
records that it saved over a run that somebody else had already started.
Operators read the row together with the sequence, and the variables together
with the first sum; nothing can tell these pairs of queries apart.

### Dashboard and Results

Both are operators without state. `StatusColumn` and `CompletedColumn` are
functions of the draft flag and of the set of statuses of a run, because the
code only asks whether a count is zero or all. `From` and `To` are the window
of `grafana_url` for a run one of whose stamps is set. `WebApp` measures time in
ticks of 15 seconds: a minute is 4, the margin of five minutes 20, the hour 240,
and the deadline of the run 60 ticks.

### Process, Worker, Ping, OperatorProcess

`proc` is `up`, `stopping` or `down`. SIGTERM cancels the context; the manager
waits for its runnables, but no longer than its grace period (`Exits`), and
Kubernetes starts the next process. A crash takes everything at once. What is in
memory is forgotten: the worker, the goroutine of Watch, the source.

`watch` is what the goroutine of Watch has still to hand over of its last
listing, `worker` is the select of `Worker.Start` or the job it is handing over.
Both channels are unbuffered, so a hand-over is one step of sender and receiver:
`Receive` and `Send`. `Send` needs a source that is `on`: it neither looks at the
context (`worker.go:62`) nor finds a receiver before the caches have synced or
after the source has stopped. `List` answers all jobs or, if one of them cannot
be decoded (`Malformed`), none (`uncached.go:142`): a node selector without `=`,
which nothing validates, or a deadline in units that `durationpy` takes and
`time.ParseDuration` does not.

A stamp is its age in ticks of half a minute, so that the model needs no clock;
ages beyond `OnlineFor` are one. `PingArrives` takes the time, `SaveStamp` writes
the row later and in any order, but within `HandlerTime`, after which gunicorn
kills the handler. At most `MaxMissed` pings in a row get lost or are missed by a
process that ends.

## 3. Runs

| Run | Instance | Shows |
|---|---|---|
| `webapp_serial` | 2 locations, 1 worker, all statuses (PUT of `pending` and `canceled` included), all requests | `ImplementsPromise`, `StartTimeStable`, `CanceledStaysDead` |
| `webapp_concurrent` | 2 locations, 3 workers, 1 death | `AllReadyHasStart`, `AllCompletedHasEnd`, `StartMeansBarrier`, `NoImmediateStart`, `WindowShowsTest`, `BarrierOpens`, `TypeOK` |
| `webapp_start_time` | 2 workers | violated: two start times |
| `webapp_canceled` | 2 workers | violated: a canceled job is revived |
| `webapp_duplicate` | 1 worker, runs are duplicated | violated: a draft with an end time |
| `orderly_ape` | 2 locations, stale caches, 1 fault | `NoLoadBeforeBarrier`, `FailureStopsRun`, `BarrierHeld`, `EndIsFinal`, `CompletedMeansSucceeded`, `ShownCompletedMeansIdle`, `ShownNeverGoesBack`, `SystemTypeOK` |
| `orderly_faults` | 1 location, stale cache, 3 faults, no deadline, endless test | `CancelStopsLoad`, `DeletedRunLeavesNoJob` |
| `orderly_ends` | 2 locations, stale caches, 1 fault, deadline, endless test | `EveryRunEnds` |
| `orderly_completes` | 3 locations, one of them without workers, no faults, operators keep up | `RunCompletes` |
| `segments` | 3 locations of 0 to 2 workers, 2 scripts, 1 variable of 2 values | `NoOverlap`, `AllCovered`, `SegmentInSequence`, `NumbersUnique`, `SameTest`, `TypeOK` |
| `operator_process` | a good and a malformed job, 2 restarts, 1 lost ping in a row | `LiveShownOnline`, `DeadShownOffline`, `ActiveJobsArrive`, `TypeOK` |
| `orderly_stale` | 1 location, no faults | violated: a healthy Job is reported failed |

Bounds. Two locations are the smallest number with a barrier, with siblings to
cancel and with two PUTs that race; three workers are all that can be busy at
once for two operators and a user. The clock of `WebApp` only has to tell two
start times apart. One fault in the two-location runs and three in the
one-location run put a fault at every point of a reconcile, and further ones
into the recovery from the first. Deadlock is not checked, because the system
really stops: a deleted run, or one whose bounded clock has run out, has
nothing left to do.

Three locations give a row a neighbour on both sides, and 0 to 2 workers the
totals 0 and 1, where the list of borders degenerates, and locations with several
pods.

In `operator_process`, `OnlineFor` is 10 ticks (five minutes), the grace period
one (controller-runtime's 30 seconds), the next process is up after two, a
handler is killed after one. Two restarts can follow each other before the first
ping of the process in between is saved. The margin is small: with a window of
9 ticks instead of 10, `LiveShownOnline` still holds, with 8 it fails, as the
bound that is proved says (section 4); with one restart it fails from 6 on. If two
pings in a row may get lost, ten ticks are not enough.
One job that must arrive suffices, because the worker's state does not depend on
which job it is stuck with; the malformed one comes and goes.

One variable suffices for `SameTest`, which looks at each name by itself; its two
values tell a changed variable from a kept one, and two scripts an old row from a
new one.

Symmetry is used in `orderly_ape` and `segments` only, which have no liveness
property; the locations are interchangeable there.

### What the properties say that is not obvious

- `AllReadyHasStart`. The receivers run after the save of their own row, so of
  two concurrent PUTs the one that saved last sees both rows and publishes. The
  property holds for three workers because clients wait for their answers, and
  fails if the count is made before the save (the mutants), or if operators
  could retry a PUT that is still in progress.
- `CancelStopsLoad` has the escape `status = failed`. A canceled job whose Job
  is then found missing or failed may be reported failed by a reconcile that
  read it before the cancellation, and `Reconcile` returns early on FAILED jobs
  without suspending the Job (`testrun_controller.go:113-117`).
- `EveryRunEnds` holds only because of the deadline (or, for a test that ends by
  itself, the TTL of the finished Job). Without them a
  location whose operator restarts after it ignited its pods but before it
  reported RUNNING is stuck in READY for ever when a sibling has reported
  RUNNING in between: `test_run.ready` is false from then on and `createIgniter`
  refuses (`igniter.go:98`). With them the location ends as failed, also if its
  pods succeeded. `RunCompletes` therefore assumes `Timely`: igniters exist
  before the start time passes, and a finished Job is reported before its TTL.
- `CompletedMeansSucceeded` needs the phases of the Job to be truthful although
  the cache is stale: `succeeded` never becomes anything but `absent`.
- `RunCompletes` has no escape for a run that is canceled: users only start it, so
  any cancellation would be that of a spurious failure. It includes a location
  without workers. `README.md:284` says that 0 means not to use a location; the code
  keeps its row and waits for it. Its Job is finished when it is created, so its
  hour to live runs while the others get ready. `Timely` excludes that it passes:
  without it, also on fresh caches and without faults, the location is reported
  failed for its missing Job (`testrun_controller.go:144`) and the run is canceled
  everywhere.
- `CompletedMeansSucceeded` and `EveryRunEnds` include the reconcile that goes on
  after a PUT of RUNNING that never arrived. COMPLETED is then refused, and the next
  reconcile starts again from READY: it reports RUNNING first if its igniter is still
  there, and otherwise cannot go on before the Job ends.
- `NoImmediateStart` says that the branch of `ready()` that saves the present moment
  as the start time (`models.py:423-425`) is dead. It is not dead by the shape of the
  code: it depends on nobody making the job ready between the GET of the handler
  and its count, which only a second PUT for the same job could do.
- `ShownNeverGoesBack` holds although single statuses are written in bulk and a
  canceled job may still fail, because the column asks for `failed` and
  `canceled` first and for the others from the back. It is about the promise of
  `JobsAPI`: with two gunicorn workers a canceled job can be revived
  (`webapp_canceled`), and the column goes back with it.
- `WindowShowsTest` must hold for a run that lacks a stamp, too, since a worker that
  is killed may leave it so; it is where the two roundings and the two
  margins meet.
- `SameTest` has the escape `late` for the script: an action of the list that read
  the draft before somebody edited and started it writes the old row back
  (`models.py:295`), and the locations may then have read different scripts. Without
  the escape the property fails. The row that is written back would also unset
  `started_at`, which is not in this model. Of the variables it promises that none is
  taken away; a value may change for those who read later. `source_repo`, which
  stays editable (`admin.py:206`), is not among the settings.
- `LiveShownOnline` fails if the manager waits for its runnables for ever: a worker
  that is in `Send` when its source stops first never returns (`worker.go:62`). It
  is the grace period of the manager, which the repository does not set, that
  makes the shutdown end. The same holds for `ActiveJobsArrive`.
- `ActiveJobsArrive` promises nothing while a malformed job is listed, also one that
  is over: it has to be deleted before any other job of the location arrives.
- `DeadShownOffline` includes a handler that saves its stamp after the operator
  was removed, and a location that is deleted and inserted again by it
  (`views.py:33`).
- `NoOverlap` and `AllCovered` speak of the Jobs whose sequence is still that of the
  run. That is every Job unless workers were added to a live run, which the form
  allows (`admin.py:131-143`); then the Jobs created before and after divide the load
  differently and do not fit together. The numbers of the pods stay unique even then
  (`NumbersUnique`), because a new row has the largest key and `assigned_segments`
  counts the rows with a smaller one.
- `SegmentInSequence` speaks of all Jobs. One GET reads the sequence and the total in
  different queries; when workers are added in between, the segments are finer than
  the sequence they come with, and k6 refuses all pods of the Job. The property
  says that this happens in that case, which the code can reach, and in no other.
- `FailureIsReal` and `CompletedMeansSucceeded` are the two halves of truthful
  reports: the second holds on stale caches, the first does not (`orderly_stale`).

Some hazards are reached by the models and left without a property, since nothing
in the repository promises anything there: a job that is retried by hand or a
location that is added to a live run behind an open barrier, the load of a location
that has reported failure itself, a location without workers whose Job expires at the
barrier, the other jobs of a location while a malformed one is listed. `PROJECT.json` says so at each.

### Fairness

`FairSpec` (WebApp): a worker finishes the request it has taken, unless it is
killed; no request is ever guaranteed to be made. `FairSystem`: the controller
works off its queue and retries with backoff; the worker polls every five
seconds, forever; watches deliver; the igniter's timer fires and its PATCHes
are answered; the kubelet starts pods that can start, the deadline passes,
and the TTL controller removes finished Jobs. That k6 ends by itself is assumed
only where `TestEnds` says so: `EveryRunEnds` must follow from the deadline, and
`CancelStopsLoad` from the operator suspending the Job.
`OperatorProcess.Spec`: goroutines that can take a step do, time passes, the manager
returns when it may, Kubernetes starts the next process. A List that could
succeed does so at some time: it is tried every five seconds. Users, crashes,
lost pings and the removal of the operator have no fairness.
These are weak fairness conditions, one for the cluster, the reconcile, the
igniter, the informer and the requeueing of each location. Users have no
fairness, faults have none.

### Findings

1. `signals.py:21`: two start times (run `webapp_start_time`). Both locations PUT
   `ready`; each handler reads `started_at` as null and counts all ready.
2. `serializers.py:79`: a lost cancellation (run `webapp_canceled`). Afterwards a
   run may show FAILED with active jobs, which the cancel action then refuses.
3. `models.py:469`: a duplicate keeps `completed_at` (run `webapp_duplicate`).
4. `testrun_controller.go:144`: a spurious failure on a stale cache (run
   `orderly_stale`).

The first two need more than one gunicorn process; the deployment starts
several (`webapp/Dockerfile:28`, four for each CPU and one more).

### Mutants

Each property of a passing run comes with a mutation of the model, of the kind
a plausible mistake in the code would cause, that violates it. The mutated
definitions stand next to the originals (`AfterSaveTooEarly`, `BranchWaits`,
`IgnoreMissing`, ...), marked as mutants and used nowhere else;
`PROJECT.json` says which definition each one replaces.

## 4. Proofs

`JobsAPI_proofs`, for any set of locations:

- `TypeCorrect`: `Spec => []TypeOK`, for any statuses and requests.
- `FailureStopsRunAlways`, `BarrierHeldAlways`, `EndIsFinalAlways`, under
  `Regular`: operators PUT only `OperatorStatuses`, and nobody adds a location to
  a run that was started. Both assumptions are needed: a PUT of `pending`
  retries a failed job, and an added job is pending behind the barrier. Each
  invariant is inductive relative to `TypeOK`; the argument is a case
  distinction over what transitions lead out of the states it speaks of.

`WebApp_proofs`, for any locations, and any number of gunicorn workers, of deaths
of workers and of ticks of the clock:

- `TypeCorrect`.
- `AllReadyHasStartAlways`, `AllCompletedHasEndAlways`, `StartMeansBarrierAlways`,
  `NoImmediateStartAlways` and `WindowShowsTestAlways`, under `Kept`: operators PUT only `OperatorStatuses` and
  nobody deletes the run. The second is a real limit of the code and not of the
  proof: a handler that is in progress when the run is deleted inserts the run
  again, without its rows or with one of them (TLC finds the first three
  properties violated when `webapp_concurrent` is run with `delete`).
  `StartMeansBarrierAlways` also excludes that a location is added to the live run.
  `WindowShowsTestAlways` takes from the code's constants only that the margin is
  not smaller than the delay of the start and a minute of rounding, and a deadline
  not shorter than a minute.

The invariants build on each other. `Safe` says what a handler may rely on at each
of its labels: nobody else saves its job but a cancellation. So the job of a `ready()`
that counts is still queued, or canceled, which is `NoImmediateStart`. `EndKnown` says
that once an end time is being computed some job is `Past`, that is, over and with no
PUT in progress that changes it; so no start time is counted for any more, and no
whole-row save of an old start time erases the end time. `WillCome` is the
argument for the concurrent receivers: as long as the stamp is missing while all
jobs have the status, a handler is between the save of its job and the save of
the stamp. `BarrierKnown` says that no job goes back behind the barrier from the
moment on at which a start time is computed, though it may be saved much later.
`Timed` bounds the stamps by each other. A worker that is killed may take a stamp
with it, which is why the first two properties speak of the time before a death;
the other two survive any number of them.

`WebAppPromise_proofs`, under `Serial` (one worker, which is not killed), for any
locations, statuses and requests, `delete` included:

- `OneWorkerImplementsPromise`: `WebApp` implements `JobsAPI`. A PUT takes
  effect when its job is saved (`SaveJob`), the start and the cancellation of a run
  at their last statement, and all other statements are stutters: the mapping
  (`PromisedStatus`, `PromisedStart`, `PromisedEnd`) counts what the receivers are
  about to do as done. The invariant `Known` says that the run and the jobs are
  still as the handler has read and judged them. Together with `SystemImplementsAPI`
  below this joins the two levels.
- `StartTimeStableAlways`, `CanceledStaysDeadAlways`: what two workers break (findings
  1 and 2) one worker keeps.

`OrderlyApe_proofs`, for any set of locations, any `MaxFaults` and stale caches:

- `SystemTypeCorrect`: `System => []SystemTypeOK`. The inductive invariant is
  `Shape`: the types, and that a reconcile at label `put` is about to PUT a status
  of `OperatorStatuses` (`Reports`). The second part is what makes every PUT of an
  operator a request of `JobsAPI`.
- `SystemImplementsAPI`: `System => Spec`, under `Complete` (`Regular`, and
  `ClientStatuses` contains what operators report): the initial states are initial
  states of `JobsAPI`, and every step is a request of it or a stutter. The
  invariants of `JobsAPI` therefore hold for the system.
- `NoLoadBeforeBarrierAlways`: `System => []NoLoadBeforeBarrier`. The invariant
  is `StartKnown`: a reconcile that knows of a start time, an igniter and a pod
  that generates load exist only when `started` is set, which is never taken back.
  With `BarrierHeld` of the web app it gives the barrier in the clusters.

- `CompletedMeansSucceededAlways` and `ShownCompletedMeansIdleAlways`: an operator
  judges the Job by a copy that may be old. The invariant `Truth` relates, for each
  location, the Job, the cache, the copy of the reconcile in progress and what it
  is about to write: a Job that was seen to succeed succeeded and never runs again
  (`SuccessStays`), because only a location that is pending, and so behind the
  barrier, or dead, gets a Job created (`Justified`), while success needs that the
  barrier was passed (`SuccessAfterStart`). Locations without workers are the
  exception that `PodsAsChosen` states.

`Dashboard_proofs`: `ShownNeverGoesBackAlways`, for any set of locations, any
`MaxFaults` and stale caches. No request of `JobsAPI` moves a job to an earlier
`Stage` (`JobsMoveOn`), the column shows the first status in the order of
the display that occurs (`ShownIsFirst`), and that order and the stages agree
except for the two statuses that stop a run (`RankAndStage`). With
`SystemImplementsAPI` this is a statement about the system.

`TestRunForm_proofs`: `SameTestAlways`, for any locations, scripts, variables, values
and numbers of workers. `SameTest` compares operators that have read everything;
what is inductive is that each operator, from its first query on, has read the
script the run has now (or an action came `late`) and from its second on only
variables whose names the run still has, and that nobody reads a draft.

`Segments_proofs`, for any locations and any numbers of workers: `NumbersUniqueAlways`,
`NoOverlapAlways`, `SegmentInSequenceAlways`, `AllCoveredAlways` and, for finitely many
locations, `FormTypeCorrect`. The invariant `Divides` says that a location has at
most one row, and that what an operator was told fits the rows: its sequence is
that of some number of workers, its start is the sum over the rows before its own,
which never changes again, and its total is that of its sequence unless it is in
`grown`, when it is larger. From this, sums over rows before one another leave room for each other's pods
(`NoOverlap`, `NumbersUnique`), the pods of a Job whose total is that of its sequence
lie between neighbours of it and those of a larger total do not (`SegmentInSequence`), and every worker of the total falls into the
range of one row (`AllCovered`). `WorkersUpTo` is a recursive function of a natural number, so
these facts about sums are proved by induction, which the module derives from the
least element of a set of naturals (`Least`, `Induct`).

`OperatorProcess_proofs`, for any grace period, boot time, handler time and numbers of
restarts and jobs:

- `LiveShownOnlineAlways`, if `2 * HandlerTime + (MaxMissed + 1) * Gap < OnlineFor`,
  where `Gap` is the longest time from one ping to the next, the grace period
  and the start of a process. With the values of the run the left side is 8
  and `OnlineFor` is 10. The bound is tight: with `OnlineFor` 8 TLC finds a live location
  shown as offline. The argument is a budget (`Fresh`): the age of the stamp, the
  time until the next ping is posted and a gap for each ping that may still be
  lost are together at most `Oldest`; a tick moves a unit from the wait to the age,
  a lost ping moves a gap from the losses to the wait. While handlers have stamps
  to save, the row's stamp is measured against theirs.
- `TypeCorrect`, for finitely many jobs.

Assumptions on the constants are those of the modules (`JobsAssumption`,
`ReconcilerAssumption`, `FormAssumption`, `SegmentsAssumption`, `WebAppAssumption`, `ResultsAssumption`,
`ProcessAssumption`, `WorkerAssumption`, `PingAssumption`), which TLC evaluates in the
runs. The inductive invariants `Truth`, `Divides` and `Budget` were checked by TLC on
the instances of the runs before they were proved.

All invariants of the passing runs, and their action properties, are theorems, and so
is the refinement `ImplementsPromise`. Only model-checked: the liveness properties
`BarrierOpens`, `CancelStopsLoad`, `DeletedRunLeavesNoJob`, `EveryRunEnds`,
`RunCompletes`, `DeadShownOffline` and `ActiveJobsArrive`, since liveness under
fairness and ENABLED are out of reach of the provers in use; and, because they are
existence claims, the violations of the findings. That the hypotheses of the
theorems on `WebApp` (`Kept`, `Serial`) are needed is shown by TLC only.

## 5. Not modelled

- The values of the conversions of the API types: durations and quantities go into
  the pod template and nothing branches on them. That a decoding can fail is in
  `Worker`.
- `source_repo`, the fields of an output configuration, and the edits of a location
  while a handler of its ping is under way: stale whole-row saves like those of
  `Ping` and `WebApp`, on data that no component branches on.
- Pods one by one and the errgroup of the igniter: their outcome (all, some, a
  failure) is.
- The workers API has no tenants to tell apart: authentication is left out.
- Deployment charts, settings, templates, migrations, form layout, widgets and
  autocomplete, the flags of `main.go`, the type registry and the k6 API types:
  configuration and data structures without behaviour of their own.
- `POST accept` of the jobs API calls a method that does not exist
  (`views.py:72`); it changes nothing and no client calls it.

## 6. Plan

Done: the barrier in the database (`JobsAPI`, `WebApp`), the barrier in the clusters
(`Cluster`, `TestRunReconciler`, `OrderlyApe`) with locations without workers, the
division of the load and the form (`Segments`, `TestRunForm`), the columns and the
results (`Dashboard`, `Results`), the operator's process (`Process`, `Worker`, `Ping`,
`OperatorProcess`), and the proofs of section 4.

Left, by importance:

1. The re-insertion of a deleted run by a handler in flight, as a property, so that
   `Kept` can say what is left of the promises when runs are deleted; and a retry of a
   PUT whose first attempt is still being handled.
2. Proofs: the safety half of `DeadShownOffline` (a removed location never gets
   younger once its last handler is done); `NoLoadBeforeBarrier` of a system on top of
   `WebApp` with one worker, from the two refinements.
3. `Igniter`: pods one by one, errgroup, cancellation; shown to implement the
   igniter of `TestRunReconciler`.
