-------------------------- MODULE WebAppPromise_proofs -------------------------
(***************************************************************************)
(* One gunicorn worker keeps the promise of JobsAPI, for any locations and *)
(* any requests: the statements of a handler, which other requests cannot  *)
(* come between, amount to the request taking effect at once.              *)
(***************************************************************************)
EXTENDS WebApp_proofs

\* One worker, which is not killed.
Serial == MaxDeaths = 0 /\ \A v, w \in Workers : v = w

--------------------------------------------------------------------------------
(***************************************************************************)
(* What the handler in progress knows: the run and the jobs are as it has  *)
(* read and judged them, and what it computed is due.                      *)
(***************************************************************************)
BeforeJob(w) ==
    req[w].pc \in BeforeSave =>
       /\ ~At(w, "ready save")
       /\ ~run.draft
       /\ req[w].client \in rows
       /\ req[w].to \in ClientStatuses
       /\ Accepts(status[req[w].client], req[w].to)
       /\ req[w].snap = run
       /\ At(w, "ready count") => status[req[w].client] = "queued" /\ req[w].to = "ready"

AboutStart(w) ==
    /\ At(w, "started count") => rows # {} /\ run.started = Never /\ req[w].snap = run
    /\ At(w, "started save") =>
          /\ rows # {}
          /\ run.started = Never
          /\ req[w].snap.started # Never
          /\ req[w].snap.draft = run.draft
          /\ req[w].snap.completed = run.completed

AboutEnd(w) ==
    /\ At(w, "completed count") => rows # {} /\ run.completed = Never /\ req[w].snap = run
    /\ At(w, "completed save") =>
          /\ rows # {}
          /\ req[w].snap.completed # Never
          /\ req[w].snap.draft = run.draft
          /\ req[w].snap.started = run.started

AboutRun(w) ==
    /\ At(w, "start save") =>
          /\ "start" \in Requests
          /\ exists
          /\ run.draft
          /\ req[w].snap = [run EXCEPT !.draft = FALSE]
    /\ At(w, "cancel run") =>
          /\ "cancel" \in Requests
          /\ exists
          /\ ~run.draft
          /\ \A l \in rows : status[l] # "failed"
          /\ \E l \in rows : status[l] # "completed"

Knows(w) == BeforeJob(w) /\ AboutStart(w) /\ AboutEnd(w) /\ AboutRun(w)

Known ==
    /\ deaths = 0
    /\ rows # {} => exists
    /\ \A w \in Workers : Knows(w)

\* An idle worker knows nothing.
LEMMA IdleKnows ==
    ASSUME NEW w \in Workers, req[w].pc = "idle" PROVE Knows(w)
  BY DEF Knows, BeforeJob, AboutStart, AboutEnd, AboutRun, At, BeforeSave

\* There is nobody but the worker that takes a step.
LEMMA OnlyOne ==
    ASSUME Serial, NEW w \in Workers, Knows(w)', deaths' = 0, rows' # {} => exists'
    PROVE  Known'
  BY DEF Serial, Known

\* A handler that is done leaves an idle worker.
LEMMA DoneIsIdle ==
    ASSUME Types, NEW w \in Workers, Done(w)
    PROVE  req'[w].pc = "idle"
  BY DEF Done, Types, TypeOK, Idle

LEMMA DoneKnown ==
    ASSUME Serial, Types, NEW w \in Workers, Done(w), deaths' = 0, rows' # {} => exists'
    PROVE  Known'
<1>1. req'[w].pc = "idle"
  BY DoneIsIdle
<1>2. Knows(w)'
  BY <1>1, IdleKnows DEF Knows, BeforeJob, AboutStart, AboutEnd, AboutRun, At, BeforeSave
<1> QED
  BY <1>2, OnlyOne

\* The steps of the worker, one lemma for each.
LEMMA GetJobKnown ==
    ASSUME Serial, Types, Known, NEW w \in Workers,
           NEW l \in Locations, NEW s \in ClientStatuses, GetJob(w, l, s)
    PROVE  Known'
<1>1. /\ req'[w].pc = IF status[l] = "queued" /\ s = "ready" THEN "ready count" ELSE "save"
      /\ req'[w].client = l /\ req'[w].to = s /\ req'[w].snap = run
      /\ UNCHANGED <<exists, run, rows, status, deaths>>
  BY DEF GetJob, Types, TypeOK, db
<1>2. l \in rows /\ ~run.draft /\ Accepts(status[l], s)
  BY DEF GetJob
<1>3. Knows(w)'
  BY <1>1, <1>2 DEF Knows, BeforeJob, AboutStart, AboutEnd, AboutRun, At, BeforeSave
<1> QED
  BY <1>1, <1>3, OnlyOne DEF Known

LEMMA AdminKnown ==
    ASSUME Serial, Types, Known, NEW w \in Workers, Receive(w),
           ~\E l \in Locations, s \in ClientStatuses : GetJob(w, l, s)
    PROVE  Known'
<1>1. CASE "start" \in Requests /\ ReadDraft(w)
  <2>1. /\ req'[w].pc = "start save" /\ req'[w].snap = [run EXCEPT !.draft = FALSE]
        /\ UNCHANGED <<exists, run, rows, status, deaths>>
        /\ exists /\ run.draft
    BY <1>1 DEF ReadDraft, Types, TypeOK, db, Idle
  <2>2. Knows(w)'
    BY <1>1, <2>1 DEF Knows, BeforeJob, AboutStart, AboutEnd, AboutRun, At, BeforeSave
  <2> QED
    BY <2>1, <2>2, OnlyOne DEF Known
<1>2. CASE "cancel" \in Requests /\ ReadStatuses(w)
  <2>1. /\ req'[w].pc = "cancel run"
        /\ UNCHANGED <<exists, run, rows, status, deaths>>
        /\ exists /\ ~run.draft
        /\ \A l \in rows : status[l] # "failed"
        /\ \E l \in rows : status[l] # "completed"
    BY <1>2 DEF ReadStatuses, Types, TypeOK, db, Idle
  <2>2. Knows(w)'
    BY <1>2, <2>1 DEF Knows, BeforeJob, AboutStart, AboutEnd, AboutRun, At, BeforeSave
  <2> QED
    BY <2>1, <2>2, OnlyOne DEF Known
<1>3. CASE DeleteRun(w)
  <2>1. req'[w].pc = "idle" /\ rows' = {} /\ deaths' = deaths
    BY <1>3 DEF DeleteRun, Free, Busy
  <2>2. Knows(w)'
    BY <2>1 DEF Knows, BeforeJob, AboutStart, AboutEnd, AboutRun, At, BeforeSave
  <2> QED
    BY <2>1, <2>2, OnlyOne DEF Known
<1>4. ASSUME NEW l \in Locations, AddLocation(w, l)
      PROVE  Known'
  <2>1. req'[w].pc = "idle" /\ exists' /\ deaths' = deaths
    BY <1>4 DEF AddLocation, Free, Busy
  <2>2. Knows(w)'
    BY <2>1 DEF Knows, BeforeJob, AboutStart, AboutEnd, AboutRun, At, BeforeSave
  <2> QED
    BY <2>1, <2>2, OnlyOne DEF Known
<1> QED
  BY <1>1, <1>2, <1>3, <1>4 DEF Receive

\* The transition method ready() finds its own job not ready, as with more workers.
LEMMA ReadyCountGoes ==
    ASSUME Known, NEW w \in Workers, ReadyCount(w)
    PROVE  Goto(w, "save")
<1>1. Knows(w) /\ At(w, "ready count")
  BY DEF Known, ReadyCount
<1>2. req[w].client \in rows /\ status[req[w].client] = "queued"
  BY <1>1 DEF Knows, BeforeJob, BeforeSave, At
<1> QED
  BY <1>2 DEF ReadyCount, AllAre

LEMMA ReadyCountKnown ==
    ASSUME Serial, Types, Known, NEW w \in Workers, ReadyCount(w)
    PROVE  Known'
<1>1. Goto(w, "save") /\ UNCHANGED <<exists, run, rows, status, deaths>>
  BY ReadyCountGoes DEF ReadyCount, db
<1>2. /\ req'[w].pc = "save" /\ req'[w].client = req[w].client
      /\ req'[w].to = req[w].to /\ req'[w].snap = req[w].snap
  BY <1>1, GotoEffect
<1>3. Knows(w) /\ req[w].pc = "ready count"
  BY DEF Known, ReadyCount, At
<1>4. Knows(w)'
  BY <1>1, <1>2, <1>3 DEF Knows, BeforeJob, AboutStart, AboutEnd, AboutRun, At, BeforeSave
<1> QED
  BY <1>1, <1>4, OnlyOne DEF Known

\* The job is still there, and saved over the status that was judged.
LEMMA SaveJobFacts ==
    ASSUME Types, Known, NEW w \in Workers, SaveJob(w)
    PROVE  /\ req[w].pc = "save" /\ UNCHANGED <<exists, run, deaths>> /\ exists
           /\ req[w].client \in rows /\ req[w].client \in Locations
           /\ ~run.draft /\ req[w].snap = run
           /\ req[w].to \in ClientStatuses
           /\ Accepts(status[req[w].client], req[w].to)
           /\ rows' = rows
           /\ status' = [status EXCEPT ![req[w].client] = req[w].to]
           /\ AfterSave(req[w]) = "idle" => Done(w)
           /\ AfterSave(req[w]) # "idle" => Goto(w, AfterSave(req[w]))
<1>1. req[w].pc = "save" /\ UNCHANGED <<exists, run, deaths>> /\ Knows(w)
  BY DEF SaveJob, At, Known
<1>2. /\ req[w].client \in rows /\ ~run.draft /\ req[w].snap = run
      /\ req[w].to \in ClientStatuses /\ Accepts(status[req[w].client], req[w].to)
  BY <1>1 DEF Knows, BeforeJob, BeforeSave
<1>3. req[w].client \in Locations /\ exists
  BY <1>2 DEF Types, TypeOK, Known
<1>4. /\ rows' = rows
      /\ status' = [status EXCEPT ![req[w].client] = req[w].to]
      /\ AfterSave(req[w]) = "idle" => Done(w)
      /\ AfterSave(req[w]) # "idle" => Goto(w, AfterSave(req[w]))
  BY <1>2 DEF SaveJob
<1> QED
  BY <1>1, <1>2, <1>3, <1>4

LEMMA SaveJobKnown ==
    ASSUME Serial, Types, Known, NEW w \in Workers, SaveJob(w)
    PROVE  Known'
<1>1. CASE AfterSave(req[w]) = "idle"
  BY <1>1, SaveJobFacts, DoneKnown DEF Known
<1>2. CASE AfterSave(req[w]) # "idle"
  <2>1. req'[w].pc = AfterSave(req[w]) /\ req'[w].snap = req[w].snap
    BY <1>2, SaveJobFacts, GotoEffect
  <2>2. run' = run /\ rows' = rows /\ rows # {} /\ req[w].snap = run
    BY SaveJobFacts
  <2>3. \/ AfterSave(req[w]) = "started count" /\ req[w].snap.started = Never
        \/ AfterSave(req[w]) = "completed count" /\ req[w].snap.completed = Never
        \/ AfterSave(req[w]) = "cancel others"
    BY <1>2 DEF AfterSave
  <2>4. Knows(w)'
    BY <2>1, <2>2, <2>3 DEF Knows, BeforeJob, AboutStart, AboutEnd, AboutRun, At, BeforeSave
  <2> QED
    BY <2>4, SaveJobFacts, OnlyOne DEF Known
<1> QED
  BY <1>1, <1>2

LEMMA CountKnown ==
    ASSUME Serial, Types, Known, NEW w \in Workers, StartedCount(w) \/ CompletedCount(w)
    PROVE  Known'
<1>1. UNCHANGED <<exists, run, rows, status, deaths>>
  BY DEF StartedCount, CompletedCount, db
<1>2. CASE Done(w)
  BY <1>1, <1>2, DoneKnown DEF Known
<1>3. CASE StampsStart(w)
  <2>1. req[w].pc = "started count" /\ Knows(w)
    BY <1>3 DEF StampsStart, At, Known
  <2>a. req' = [req EXCEPT ![w].pc = "started save", ![w].snap.started = now + StartDelay]
    BY <1>3 DEF StampsStart
  <2>2. req'[w].pc = "started save" /\ req'[w].snap.draft = req[w].snap.draft
    BY <2>a, StampEffect
  <2>b. /\ req'[w].snap.started = now + StartDelay
        /\ req'[w].snap.completed = req[w].snap.completed
    BY <2>a, StartedStamp
  <2>3. now + StartDelay \in Nat
    BY StartDelayType DEF Types, TypeOK
  <2>4. req'[w].snap.started # Never
    BY <2>b, <2>3, TimeIsSome
  <2>5. Knows(w)'
    BY <1>1, <2>1, <2>2, <2>b, <2>4
    DEF Knows, BeforeJob, AboutStart, AboutEnd, AboutRun, At, BeforeSave
  <2> QED
    BY <1>1, <2>5, OnlyOne DEF Known
<1>4. CASE StampsEnd(w)
  <2>1. req[w].pc = "completed count" /\ Knows(w)
    BY <1>4 DEF StampsEnd, At, Known
  <2>a. req' = [req EXCEPT ![w].pc = "completed save", ![w].snap.completed = now]
    BY <1>4 DEF StampsEnd
  <2>2. req'[w].pc = "completed save" /\ req'[w].snap.draft = req[w].snap.draft
    BY <2>a, StampEffect
  <2>b. /\ req'[w].snap.completed = now
        /\ req'[w].snap.started = req[w].snap.started
    BY <2>a, CompletedStamp
  <2>3. now \in Nat
    BY DEF Types, TypeOK
  <2>4. req'[w].snap.completed # Never
    BY <2>b, <2>3, TimeIsSome
  <2>5. Knows(w)'
    BY <1>1, <2>1, <2>2, <2>b, <2>4
    DEF Knows, BeforeJob, AboutStart, AboutEnd, AboutRun, At, BeforeSave
  <2> QED
    BY <1>1, <2>5, OnlyOne DEF Known
<1> QED
  BY <1>2, <1>3, <1>4 DEF StartedCount, CompletedCount, StampsStart, StampsEnd

\* The run is saved as it was read, with one field set.
LEMMA SnapshotFacts ==
    ASSUME Known, NEW w \in Workers, SaveSnapshot(w)
    PROVE  /\ req[w].pc \in {"started save", "completed save", "start save"}
           /\ exists /\ exists' /\ run' = req[w].snap /\ Done(w)
           /\ UNCHANGED <<rows, status, deaths>>
<1>1. Knows(w)
  BY DEF Known
<1>2. req[w].pc \in {"started save", "completed save", "start save"}
  BY <1>1 DEF SaveSnapshot, RunSaves, Knows, BeforeJob, BeforeSave, At
<1>3. exists' /\ run' = req[w].snap /\ Done(w) /\ UNCHANGED <<rows, status, deaths>>
  BY <1>2 DEF SaveSnapshot, SaveRun, At
<1>4. exists
  BY <1>1, <1>2 DEF Known, Knows, AboutStart, AboutEnd, AboutRun, At
<1> QED
  BY <1>2, <1>3, <1>4

LEMMA KnownInvariant ==
    ASSUME Serial PROVE Spec => []Known
<1>1. Init => Known
  <2> SUFFICES ASSUME Init PROVE Known
    OBVIOUS
  <2>1. \A w \in Workers : req[w].pc = "idle"
    BY DEF Init, Idle
  <2> QED
    BY <2>1, IdleKnows DEF Known, Init
<1>2. Types /\ Known /\ [Next]_vars => Known'
  <2> SUFFICES ASSUME Types, Known, [Next]_vars PROVE Known'
    OBVIOUS
  <2>1. ASSUME NEW w \in Workers, Receive(w) PROVE Known'
    BY <2>1, GetJobKnown, AdminKnown
  <2>2. ASSUME NEW w \in Workers, Handle(w) PROVE Known'
    <3>1. CASE SaveSnapshot(w)
      BY <3>1, SnapshotFacts, DoneKnown DEF Known
    <3>2. CASE CancelOthers(w) \/ CancelRun(w)
      BY <3>2, DoneKnown DEF CancelOthers, CancelRun, Known
    <3> QED
      BY <2>2, <3>1, <3>2, ReadyCountKnown, SaveJobKnown, CountKnown DEF Handle
  <2>3. ASSUME NEW w \in Workers, Die(w) PROVE FALSE
    BY <2>3 DEF Die, Serial, Known
  <2>4. CASE Tick \/ UNCHANGED vars
    <3>1. UNCHANGED <<exists, run, rows, status, req, deaths>>
      BY <2>4 DEF Tick, vars, db
    <3> QED
      BY <3>1 DEF Known, Knows, BeforeJob, AboutStart, AboutEnd, AboutRun, At
  <2> QED
    BY <2>1, <2>2, <2>3, <2>4 DEF Next
<1> QED
  BY <1>1, <1>2, TypesInvariant, PTL DEF Spec

--------------------------------------------------------------------------------
(***************************************************************************)
(* What the promise sees of the database and of the handler in progress.   *)
(***************************************************************************)
LEMMA Seen ==
    ASSUME Serial, NEW w \in Workers
    PROVE  /\ PromisedStatus = IF At(w, "cancel others") THEN StoppedOthers ELSE status
           /\ PromisedStart <=> \/ run.started # Never
                                \/ At(w, "started count") /\ AllAre("ready")
                                \/ At(w, "started save")
           /\ PromisedEnd <=> \/ run.completed # Never
                              \/ At(w, "completed count") /\ AllAre("completed")
                              \/ At(w, "completed save")
<1>1. \A label : Someone(label) <=> At(w, label)
  BY DEF Someone, Serial
<1> QED
  BY <1>1 DEF PromisedStatus, PromisedStart, PromisedEnd

LEMMA SeenNext ==
    ASSUME Serial, NEW w \in Workers
    PROVE  /\ PromisedStatus' = IF At(w, "cancel others")' THEN StoppedOthers' ELSE status'
           /\ PromisedStart' <=> \/ run'.started # Never
                                 \/ At(w, "started count")' /\ AllAre("ready")'
                                 \/ At(w, "started save")'
           /\ PromisedEnd' <=> \/ run'.completed # Never
                               \/ At(w, "completed count")' /\ AllAre("completed")'
                               \/ At(w, "completed save")'
<1>1. \A label : Someone(label)' <=> At(w, label)'
  BY DEF Someone, Serial
<1> QED
  BY <1>1 DEF PromisedStatus, PromisedStart, PromisedEnd

\* The promise and the handlers speak of the same statuses and transitions.
LEMMA SameWords ==
    /\ Promise!Transitions = Transitions
    /\ Promise!SparedByFailure = SparedByFailure
    /\ Promise!Final = Final
  BY DEF Promise!Transitions, Transitions, Promise!Status, Status,
         Promise!SparedByFailure, SparedByFailure, Promise!Final, Final

LEMMA PromiseIsBoolean ==
    /\ PromisedStart \in BOOLEAN /\ PromisedEnd \in BOOLEAN
    /\ PromisedStart' \in BOOLEAN /\ PromisedEnd' \in BOOLEAN
  BY DEF PromisedStart, PromisedEnd

Unseen == UNCHANGED <<exists, run.draft, rows, PromisedStatus, PromisedStart, PromisedEnd>>

\* Nothing is seen of the steps before the job is saved, nor of those after it.
LEMMA UnseenBefore ==
    ASSUME Serial, NEW w \in Workers, UNCHANGED <<exists, run, rows, status>>,
           {req[w].pc, req'[w].pc} \subseteq
              {"idle", "ready count", "save", "start save", "cancel run"}
    PROVE  Unseen
<1>1. \A label \in {"cancel others", "started count", "started save",
                    "completed count", "completed save"} :
         ~At(w, label) /\ ~At(w, label)'
  BY DEF At
<1>2. PromisedStatus' = PromisedStatus
  BY <1>1, Seen, SeenNext
<1>3. PromisedStart' <=> PromisedStart
  BY <1>1, Seen, SeenNext
<1>4. PromisedEnd' <=> PromisedEnd
  BY <1>1, Seen, SeenNext
<1> QED
  BY <1>2, <1>3, <1>4, PromiseIsBoolean DEF Unseen

LEMMA GetJobUnseen ==
    ASSUME Serial, Types, NEW w \in Workers,
           \/ \E l \in Locations, s \in ClientStatuses : GetJob(w, l, s)
           \/ ReadDraft(w)
           \/ ReadStatuses(w)
    PROVE  Unseen
<1>1. UNCHANGED <<exists, run, rows, status>> /\ req[w].pc = "idle"
  BY DEF GetJob, ReadDraft, ReadStatuses, Free, Busy, db
<1>2. req'[w].pc \in {"ready count", "save", "start save", "cancel run"}
  <2>1. ASSUME NEW l \in Locations, NEW s \in ClientStatuses, GetJob(w, l, s)
        PROVE  req'[w].pc \in {"ready count", "save"}
    BY <2>1 DEF GetJob, Types, TypeOK
  <2>2. CASE ReadDraft(w)
    BY <2>2 DEF ReadDraft, Idle, Types, TypeOK
  <2>3. CASE ReadStatuses(w)
    BY <2>3 DEF ReadStatuses, Idle, Types, TypeOK
  <2> QED
    BY <2>1, <2>2, <2>3
<1> QED
  BY <1>1, <1>2, UnseenBefore

LEMMA ReadyCountUnseen ==
    ASSUME Serial, Types, Known, NEW w \in Workers, ReadyCount(w)
    PROVE  Unseen
<1>1. /\ UNCHANGED <<exists, run, rows, status>>
      /\ req[w].pc = "ready count" /\ req'[w].pc = "save"
  BY ReadyCountGoes, GotoEffect DEF ReadyCount, At, db
<1> QED
  BY <1>1, UnseenBefore

\* The counts: what they find was promised when the job was saved.
LEMMA CountUnseen ==
    ASSUME Serial, Types, NEW w \in Workers, StartedCount(w) \/ CompletedCount(w)
    PROVE  Unseen
<1>1. UNCHANGED <<exists, run, rows, status>>
  BY DEF StartedCount, CompletedCount, db
<1>2. ASSUME Done(w) PROVE req'[w].pc = "idle"
  BY <1>2 DEF Done, Idle, Types, TypeOK
<1>3. CASE StampsStart(w)
  <2>1. req' = [req EXCEPT ![w].pc = "started save", ![w].snap.started = now + StartDelay]
    BY <1>3 DEF StampsStart
  <2>a. req'[w].pc = "started save"
    BY <2>1, StampEffect
  <2>2. req[w].pc = "started count" /\ req'[w].pc = "started save" /\ AllAre("ready")
    BY <1>3, <2>a DEF StampsStart, At
  <2>3. PromisedStatus' = PromisedStatus
    BY <1>1, <2>2, Seen, SeenNext DEF At
  <2>4. PromisedStart' /\ PromisedStart
    BY <2>2, Seen, SeenNext DEF At
  <2>5. PromisedEnd' <=> PromisedEnd
    BY <1>1, <2>2, Seen, SeenNext DEF At
  <2> QED
    BY <1>1, <2>3, <2>4, <2>5, PromiseIsBoolean DEF Unseen
<1>4. CASE StampsEnd(w)
  <2>1. req' = [req EXCEPT ![w].pc = "completed save", ![w].snap.completed = now]
    BY <1>4 DEF StampsEnd
  <2>a. req'[w].pc = "completed save"
    BY <2>1, StampEffect
  <2>2. req[w].pc = "completed count" /\ req'[w].pc = "completed save" /\ AllAre("completed")
    BY <1>4, <2>a DEF StampsEnd, At
  <2>3. PromisedStatus' = PromisedStatus
    BY <1>1, <2>2, Seen, SeenNext DEF At
  <2>4. PromisedEnd' /\ PromisedEnd
    BY <2>2, Seen, SeenNext DEF At
  <2>5. PromisedStart' <=> PromisedStart
    BY <1>1, <2>2, Seen, SeenNext DEF At
  <2> QED
    BY <1>1, <2>3, <2>4, <2>5, PromiseIsBoolean DEF Unseen
<1>5. CASE At(w, "started count") /\ ~AllAre("ready") /\ Done(w)
  <2>1. req[w].pc = "started count" /\ req'[w].pc = "idle"
    BY <1>2, <1>5 DEF At
  <2>2. PromisedStatus' = PromisedStatus
    BY <1>1, <2>1, Seen, SeenNext DEF At
  <2>3. (PromisedStart' <=> PromisedStart) /\ (PromisedEnd' <=> PromisedEnd)
    BY <1>1, <1>5, <2>1, Seen, SeenNext DEF At
  <2> QED
    BY <1>1, <2>2, <2>3, PromiseIsBoolean DEF Unseen
<1>6. CASE At(w, "completed count") /\ ~AllAre("completed") /\ Done(w)
  <2>1. req[w].pc = "completed count" /\ req'[w].pc = "idle"
    BY <1>2, <1>6 DEF At
  <2>2. PromisedStatus' = PromisedStatus
    BY <1>1, <2>1, Seen, SeenNext DEF At
  <2>3. (PromisedStart' <=> PromisedStart) /\ (PromisedEnd' <=> PromisedEnd)
    BY <1>1, <1>6, <2>1, Seen, SeenNext DEF At
  <2> QED
    BY <1>1, <2>2, <2>3, PromiseIsBoolean DEF Unseen
<1> QED
  BY <1>3, <1>4, <1>5, <1>6 DEF StartedCount, CompletedCount, StampsStart, StampsEnd

\* Cancelling the others was promised when the failed job was saved.
LEMMA CancelOthersUnseen ==
    ASSUME Serial, Types, NEW w \in Workers, CancelOthers(w)
    PROVE  Unseen
<1>1. /\ UNCHANGED <<exists, run, rows>> /\ status' = StoppedOthers
      /\ req[w].pc = "cancel others"
  BY DEF CancelOthers, At
<1>2. req'[w].pc = "idle"
  BY DEF CancelOthers, Done, Idle, Types, TypeOK
<1>3. PromisedStatus' = PromisedStatus
  BY <1>1, <1>2, Seen, SeenNext DEF At
<1>4. (PromisedStart' <=> PromisedStart) /\ (PromisedEnd' <=> PromisedEnd)
  BY <1>1, <1>2, Seen, SeenNext DEF At
<1> QED
  BY <1>1, <1>3, <1>4, PromiseIsBoolean DEF Unseen

\* A PUT takes effect with the save of its job.
LEMMA SaveJobPuts ==
    ASSUME Serial, Types, Known, NEW w \in Workers, SaveJob(w)
    PROVE  Promise!Put(req[w].client, req[w].to)
<1> DEFINE c == req[w].client
           s == req[w].to
<1>1. /\ req[w].pc = "save" /\ UNCHANGED <<exists, run>>
      /\ c \in rows /\ c \in Locations /\ ~run.draft /\ req[w].snap = run
      /\ Accepts(status[c], s) /\ rows' = rows
      /\ status' = [status EXCEPT ![c] = s]
  BY SaveJobFacts
<1>2. /\ AfterSave(req[w]) = "idle" => req'[w].pc = "idle"
      /\ AfterSave(req[w]) # "idle" => req'[w].pc = AfterSave(req[w])
  BY SaveJobFacts, DoneIsIdle, GotoEffect
<1>3. PromisedStatus = status
  BY <1>1, Seen DEF At
<1>4. /\ PromisedStart <=> run.started # Never
      /\ PromisedEnd <=> run.completed # Never
  BY <1>1, Seen DEF At
<1>5. /\ At(w, "cancel others")' <=> s = "failed"
      /\ At(w, "started count")' <=> s = "ready" /\ run.started = Never
      /\ At(w, "completed count")' <=> s = "completed" /\ run.completed = Never
      /\ ~At(w, "started save")' /\ ~At(w, "completed save")'
  BY <1>1, <1>2 DEF AfterSave, At
<1>6. PromisedStatus' = Promise!Saved(c, s)
  <2>1. Promise!Saved(c, s) = IF s = "failed" THEN Promise!StopOthers(status') ELSE status'
    BY <1>1, <1>3 DEF Promise!Saved
  <2>2. StoppedOthers' = Promise!StopOthers(status')
    BY <1>1, SameWords DEF Promise!StopOthers, StoppedOthers
  <2> QED
    BY <1>5, <2>1, <2>2, SeenNext
<1>7. PromisedStart' <=> PromisedStart \/ (s = "ready" /\ Promise!All(PromisedStatus', "ready"))
  <2>1. s = "ready" => PromisedStatus' = status'
    BY <1>5, SeenNext
  <2>2. s = "ready" => (Promise!All(PromisedStatus', "ready") <=> AllAre("ready")')
    BY <1>1, <2>1 DEF Promise!All, AllAre
  <2> QED
    BY <1>1, <1>4, <1>5, <2>2, SeenNext
<1>8. PromisedEnd' <=> PromisedEnd \/ (s = "completed" /\ Promise!All(PromisedStatus', "completed"))
  <2>1. s = "completed" => PromisedStatus' = status'
    BY <1>5, SeenNext
  <2>2. s = "completed" => (Promise!All(PromisedStatus', "completed") <=> AllAre("completed")')
    BY <1>1, <2>1 DEF Promise!All, AllAre
  <2> QED
    BY <1>1, <1>4, <1>5, <2>2, SeenNext
<1>9. PromisedStart' = (PromisedStart \/ (s = "ready" /\ Promise!All(PromisedStatus', "ready")))
  BY <1>7, PromiseIsBoolean
<1>10. PromisedEnd' = (PromisedEnd \/ (s = "completed" /\ Promise!All(PromisedStatus', "completed")))
  BY <1>8, PromiseIsBoolean
<1>11. Promise!Visible(c) /\ Promise!Accepts(PromisedStatus[c], s)
  BY <1>1, <1>3, SameWords DEF Promise!Visible, Promise!Accepts, Accepts
<1>12. UNCHANGED <<exists, run.draft, rows>>
  BY <1>1
<1> HIDE DEF c, s
<1>13. Promise!Put(c, s)
  BY <1>6, <1>9, <1>10, <1>11, <1>12 DEF Promise!Put
<1> QED
  BY <1>13 DEF c, s

\* A stamp was promised before it is saved; a draft is started by its save.
LEMMA SnapshotStarts ==
    ASSUME Serial, Types, Known, NEW w \in Workers, SaveSnapshot(w)
    PROVE  Unseen \/ ("start" \in Requests /\ Promise!Start)
<1>1. /\ req[w].pc \in {"started save", "completed save", "start save"}
      /\ exists /\ exists' /\ run' = req[w].snap
      /\ UNCHANGED <<rows, status>>
  BY SnapshotFacts
<1>2. req'[w].pc = "idle"
  BY SnapshotFacts, DoneIsIdle
<1>3. Knows(w) /\ exists' = exists
  BY <1>1 DEF Known, Types, TypeOK
<1>4. PromisedStatus' = PromisedStatus /\ PromisedStatus = status
  BY <1>1, <1>2, Seen, SeenNext DEF At
<1>5. CASE req[w].pc = "started save"
  <2>1. /\ run'.started # Never /\ run'.draft = run.draft
        /\ run'.completed = run.completed
    BY <1>1, <1>3, <1>5 DEF Knows, AboutStart, At
  <2>2. PromisedStart' /\ PromisedStart
    BY <1>5, <2>1, Seen, SeenNext DEF At
  <2>3. PromisedEnd' <=> PromisedEnd
    BY <1>2, <1>5, <2>1, Seen, SeenNext DEF At
  <2> QED
    BY <1>1, <1>3, <1>4, <2>1, <2>2, <2>3, PromiseIsBoolean DEF Unseen
<1>6. CASE req[w].pc = "completed save"
  <2>1. /\ run'.completed # Never /\ run'.draft = run.draft
        /\ run'.started = run.started
    BY <1>1, <1>3, <1>6 DEF Knows, AboutEnd, At
  <2>2. PromisedEnd' /\ PromisedEnd
    BY <1>6, <2>1, Seen, SeenNext DEF At
  <2>3. PromisedStart' <=> PromisedStart
    BY <1>2, <1>6, <2>1, Seen, SeenNext DEF At
  <2> QED
    BY <1>1, <1>3, <1>4, <2>1, <2>2, <2>3, PromiseIsBoolean DEF Unseen
<1>7. CASE req[w].pc = "start save"
  <2>1. /\ "start" \in Requests /\ run.draft
        /\ run' = [run EXCEPT !.draft = FALSE]
    BY <1>1, <1>3, <1>7 DEF Knows, AboutRun, At
  <2>2. run'.draft = FALSE /\ run'.started = run.started /\ run'.completed = run.completed
    BY <2>1 DEF Types, TypeOK, Runs
  <2>3. PromisedStart' <=> PromisedStart
    BY <1>2, <1>7, <2>2, Seen, SeenNext DEF At
  <2>4. PromisedEnd' <=> PromisedEnd
    BY <1>2, <1>7, <2>2, Seen, SeenNext DEF At
  <2> QED
    BY <1>1, <1>3, <1>4, <2>1, <2>2, <2>3, <2>4, PromiseIsBoolean DEF Promise!Start
<1> QED
  BY <1>1, <1>5, <1>6, <1>7

LEMMA CancelRunCancels ==
    ASSUME Serial, Types, Known, NEW w \in Workers, CancelRun(w)
    PROVE  "cancel" \in Requests /\ Promise!Cancel
<1>1. /\ req[w].pc = "cancel run" /\ UNCHANGED <<exists, run, rows>>
      /\ status' = [l \in Locations |-> IF l \in rows /\ status[l] \notin Final
                                        THEN "canceled" ELSE status[l]]
  BY DEF CancelRun, At
<1>2. req'[w].pc = "idle"
  BY DoneIsIdle DEF CancelRun
<1>3. /\ "cancel" \in Requests /\ exists /\ ~run.draft
      /\ \A l \in rows : status[l] # "failed"
      /\ \E l \in rows : status[l] # "completed"
  BY <1>1 DEF Known, Knows, AboutRun, At
<1>4. PromisedStatus' = status' /\ PromisedStatus = status
  BY <1>1, <1>2, Seen, SeenNext DEF At
<1>5. status' = Promise!CancelActive
  BY <1>1, <1>4, SameWords DEF Promise!CancelActive
<1>6. (PromisedStart' <=> PromisedStart) /\ (PromisedEnd' <=> PromisedEnd)
  BY <1>1, <1>2, Seen, SeenNext DEF At
<1> QED
  BY <1>1, <1>3, <1>4, <1>5, <1>6, PromiseIsBoolean
  DEF Promise!Cancel, Promise!Cancellable

\* Deleting and adding: an idle worker does it in one step.
LEMMA DeleteAndAdd ==
    ASSUME Serial, NEW w \in Workers
    PROVE  /\ DeleteRun(w) => Promise!Delete
           /\ \A l \in Locations : AddLocation(w, l) => Promise!Add(l)
<1>1. ASSUME req[w].pc = "idle", UNCHANGED <<run, req>>
      PROVE  /\ PromisedStatus' = status' /\ PromisedStatus = status
             /\ PromisedStart' = PromisedStart /\ PromisedEnd' = PromisedEnd
  <2>1. PromisedStatus' = status' /\ PromisedStatus = status
    BY <1>1, Seen, SeenNext DEF At
  <2>2. (PromisedStart' <=> PromisedStart) /\ (PromisedEnd' <=> PromisedEnd)
    BY <1>1, Seen, SeenNext DEF At
  <2> QED
    BY <2>1, <2>2, PromiseIsBoolean
<1>2. DeleteRun(w) => Promise!Delete
  BY <1>1 DEF DeleteRun, Free, Busy, Promise!Delete
<1>3. ASSUME NEW l \in Locations, AddLocation(w, l) PROVE Promise!Add(l)
  BY <1>1, <1>3 DEF AddLocation, Free, Busy, Promise!Add
<1> QED
  BY <1>2, <1>3

(***************************************************************************)
(* With one gunicorn worker that is not killed, the statements of the      *)
(* handlers implement the promise on which the operators rely: every       *)
(* sequence of database statements that Django issues is a sequence of     *)
(* requests that take effect at once, for any locations, any statuses that *)
(* operators PUT and any requests of users.  (WebApp, JobsAPI)             *)
(***************************************************************************)
THEOREM OneWorkerImplementsPromise ==
    ASSUME Serial PROVE Spec => ImplementsPromise
<1>1. Init => Promise!Init
  <2> SUFFICES ASSUME Init PROVE Promise!Init
    OBVIOUS
  <2>1. \A w \in Workers, label \in Labels : label # "idle" => ~At(w, label)
    BY DEF Init, Idle, At
  <2>2. /\ ~Someone("cancel others")
        /\ ~Someone("started count") /\ ~Someone("started save")
        /\ ~Someone("completed count") /\ ~Someone("completed save")
    BY <2>1 DEF Someone, Labels
  <2>3. run.draft = TRUE /\ run.started = Never /\ run.completed = Never
    BY DEF Init, NewRun
  <2>4. PromisedStatus = status /\ ~PromisedStart /\ ~PromisedEnd
    BY <2>2, <2>3 DEF PromisedStatus, PromisedStart, PromisedEnd
  <2>5. PromisedStart = FALSE /\ PromisedEnd = FALSE
    BY <2>4, PromiseIsBoolean
  <2> QED
    BY <2>3, <2>4, <2>5 DEF Promise!Init, Init
<1>2. Types /\ Known /\ [Next]_vars => [Promise!Next]_(Promise!vars)
  <2> SUFFICES ASSUME Types, Known, [Next]_vars PROVE Promise!Next \/ Unseen
    BY DEF Unseen, Promise!vars
  <2>1. ASSUME NEW w \in Workers, Receive(w) PROVE Promise!Next \/ Unseen
    BY <2>1, GetJobUnseen, DeleteAndAdd DEF Receive, Promise!Next
  <2>2. ASSUME NEW w \in Workers, Handle(w) PROVE Promise!Next \/ Unseen
    <3>1. CASE SaveJob(w)
      <4>1. req[w].client \in Locations /\ req[w].to \in ClientStatuses
        BY <3>1, SaveJobFacts
      <4>2. Promise!Put(req[w].client, req[w].to)
        BY <3>1, SaveJobPuts
      <4> QED
        BY <4>1, <4>2 DEF Promise!Next
    <3> QED
      BY <2>2, <3>1, ReadyCountUnseen, CountUnseen, SnapshotStarts, CancelOthersUnseen,
         CancelRunCancels DEF Handle, Promise!Next
  <2>3. ASSUME NEW w \in Workers, Die(w) PROVE FALSE
    BY <2>3 DEF Die, Serial, Known
  <2>4. CASE Tick \/ UNCHANGED vars
    <3>1. UNCHANGED <<exists, run, rows, status, req>>
      BY <2>4 DEF Tick, vars, db
    <3>2. /\ PromisedStatus' = PromisedStatus
          /\ PromisedStart' <=> PromisedStart
          /\ PromisedEnd' <=> PromisedEnd
      BY <3>1 DEF PromisedStatus, PromisedStart, PromisedEnd, Someone, At, StoppedOthers, AllAre
    <3> QED
      BY <3>1, <3>2, PromiseIsBoolean DEF Unseen
  <2> QED
    BY <2>1, <2>2, <2>3, <2>4 DEF Next
<1> QED
  BY <1>1, <1>2, TypesInvariant, KnownInvariant, PTL DEF Spec, ImplementsPromise, Promise!Spec

(***************************************************************************)
(* With one worker a published start time stands: whoever saves the run    *)
(* saves the start time it has.  (Two workers publish two, see             *)
(* WebApp!StartTimeStable; signals.py)                                     *)
(***************************************************************************)
THEOREM StartTimeStableAlways ==
    ASSUME Serial PROVE Spec => StartTimeStable
<1>1. Types /\ Known /\ [Next]_vars =>
         [run.started # Never => run'.started = run.started]_vars
  <2> SUFFICES ASSUME Types, Known, Next, run.started # Never
               PROVE  run'.started = run.started
    OBVIOUS
  <2>1. ASSUME NEW w \in Workers, SaveSnapshot(w) PROVE run'.started = run.started
    <3>1. /\ req[w].pc \in {"started save", "completed save", "start save"}
          /\ run' = req[w].snap
      BY <2>1, SnapshotFacts
    <3>2. Knows(w)
      BY DEF Known
    <3>3. req[w].pc # "started save"
      BY <3>2 DEF Knows, AboutStart, At
    <3>4. req[w].snap.started = run.started
      BY <3>1, <3>2, <3>3 DEF Knows, AboutEnd, AboutRun, At, Types, TypeOK, Runs
    <3> QED
      BY <3>1, <3>4
  <2>2. ASSUME run' = run PROVE run'.started = run.started
    BY <2>2
  <2>3. run' = run \/ \E w \in Workers : SaveSnapshot(w)
    BY DEF Next, Receive, Handle, Tick, Die, GetJob, ReadDraft, ReadStatuses, DeleteRun,
       AddLocation, ReadyCount, SaveJob, StartedCount, CompletedCount, CancelOthers,
       CancelRun, db
  <2> QED
    BY <2>1, <2>2, <2>3
<1> QED
  BY <1>1, TypesInvariant, KnownInvariant, PTL DEF Spec, StartTimeStable

(***************************************************************************)
(* With one worker a canceled job does not come back to life: the status   *)
(* over which a PUT is saved is the one that validate_status judged.       *)
(* (Two workers revive it, see WebApp!CanceledStaysDead; serializers.py)   *)
(***************************************************************************)
THEOREM CanceledStaysDeadAlways ==
    ASSUME Serial PROVE Spec => CanceledStaysDead
<1>1. Types /\ Known /\ [Next]_vars =>
         [\A l \in rows \cap rows' :
             status[l] = "canceled" => status'[l] \in {"canceled", "failed"}]_vars
  <2> SUFFICES ASSUME Types, Known, Next,
                      NEW l \in rows \cap rows', status[l] = "canceled"
               PROVE  status'[l] \in {"canceled", "failed"}
    OBVIOUS
  <2>1. l \in Locations
    BY DEF Types, TypeOK
  <2>2. ASSUME NEW w \in Workers, SaveJob(w) PROVE status'[l] \in {"canceled", "failed"}
    <3>1. /\ status' = [status EXCEPT ![req[w].client] = req[w].to]
          /\ Accepts(status[req[w].client], req[w].to)
      BY <2>2, SaveJobFacts
    <3>2. CASE l = req[w].client
      <4>1. req[w].to \in {"canceled", "failed"}
        BY <3>1, <3>2 DEF Accepts, Transitions
      <4> QED
        BY <2>1, <3>1, <3>2, <4>1 DEF Types, TypeOK
    <3>3. CASE l # req[w].client
      BY <2>1, <3>1, <3>3 DEF Types, TypeOK
    <3> QED
      BY <3>2, <3>3
  <2>3. ASSUME NEW w \in Workers, CancelOthers(w) \/ CancelRun(w)
        PROVE  status'[l] \in {"canceled", "failed"}
    BY <2>1, <2>3 DEF CancelOthers, StoppedOthers, CancelRun
  <2>4. ASSUME NEW w \in Workers, NEW k \in Locations, AddLocation(w, k)
        PROVE  status'[l] \in {"canceled", "failed"}
    BY <2>1, <2>4 DEF AddLocation, Types, TypeOK
  <2>5. \/ status' = status
        \/ \E w \in Workers : SaveJob(w) \/ CancelOthers(w) \/ CancelRun(w)
        \/ \E w \in Workers, k \in Locations : AddLocation(w, k)
    BY DEF Next, Receive, Handle, Tick, Die, GetJob, ReadDraft, ReadStatuses, DeleteRun,
       ReadyCount, StartedCount, CompletedCount, SaveSnapshot, db
  <2> QED
    BY <2>2, <2>3, <2>4, <2>5
<1> QED
  BY <1>1, TypesInvariant, KnownInvariant, PTL DEF Spec, CanceledStaysDead
================================================================================
