----------------------------- MODULE WebApp_proofs -----------------------------
(***************************************************************************)
(* The web app's handlers, for any number of gunicorn workers, locations   *)
(* and deaths: however their statements interleave, a run whose jobs are   *)
(* all ready gets a start time, one whose jobs are all completed an end    *)
(* time, a start time means that the barrier has been passed, and the      *)
(* stamps are such that the link to the results shows the test.            *)
(*                                                                         *)
(* The invariants build on each other: Types, then Safe (what each handler *)
(* may rely on), then EndKnown and Past (an end time is computed only when *)
(* no start time can be), then WillCome, Timed and BarrierKnown.           *)
(***************************************************************************)
EXTENDS WebApp, TLAPS

(***************************************************************************)
(* Operators report what OperatorStatuses says and nobody deletes the run. *)
(* Both are needed: a retried job starts over in a run that has stamps,    *)
(* and a handler that is in progress when the run is deleted inserts the   *)
(* run again, without its locations or with its own only.                  *)
(***************************************************************************)
Kept == ClientStatuses \subseteq OperatorStatuses /\ "delete" \notin Requests

\* The labels of a PUT, and those at which its job is yet to be saved.
PutLabels == {"ready count", "ready save", "save", "started count",
              "started save", "completed count", "completed save", "cancel others"}
BeforeSave == {"ready count", "ready save", "save"}

Putting(w) == req[w].pc \in PutLabels

\* What the constants and the initial records are.
LEMMA StartDelayType == StartDelay \in Nat
  BY WebAppAssumption

LEMMA ClientStatusType == ClientStatuses \subseteq Status
  BY WebAppAssumption

LEMMA NewRunType == NewRun \in Runs /\ Idle \in Handlers
  BY DEF NewRun, Runs, Times, Idle, Handlers, Labels, Status

--------------------------------------------------------------------------------
(***************************************************************************)
(* Types, and that PUTs come from locations.                               *)
(***************************************************************************)
Types == TypeOK /\ \A w \in Workers : Putting(w) => req[w].client \in Locations

\* Of the records of all handlers one is replaced.
LEMMA ReplaceHandler ==
    ASSUME Types, NEW w \in Workers, NEW h \in Handlers,
           h.pc \in PutLabels => h.client \in Locations,
           req' = [req EXCEPT ![w] = h]
    PROVE  /\ req' \in [Workers -> Handlers]
           /\ \A v \in Workers : Putting(v)' => req'[v].client \in Locations
  BY DEF Types, TypeOK, Putting

\* A handler ends, or goes on to another label.
LEMMA DoneType ==
    ASSUME Types, NEW w \in Workers, Done(w)
    PROVE  /\ req' \in [Workers -> Handlers]
           /\ \A v \in Workers : Putting(v)' => req'[v].client \in Locations
<1>1. Idle.pc \notin PutLabels
  BY DEF Idle, PutLabels
<1> QED
  BY <1>1, NewRunType, ReplaceHandler DEF Done

LEMMA GotoType ==
    ASSUME Types, NEW w \in Workers, NEW label \in Labels, Goto(w, label),
           label \in PutLabels => Putting(w)
    PROVE  /\ req' \in [Workers -> Handlers]
           /\ \A v \in Workers : Putting(v)' => req'[v].client \in Locations
<1>1. req[w] \in Handlers
  BY DEF Types, TypeOK
<1>2. [req[w] EXCEPT !.pc = label] \in Handlers
  BY <1>1 DEF Handlers
<1>3. req' = [req EXCEPT ![w] = [req[w] EXCEPT !.pc = label]]
  BY DEF Goto, Types, TypeOK
<1>4. [req[w] EXCEPT !.pc = label].pc = label
      /\ [req[w] EXCEPT !.pc = label].client = req[w].client
  BY <1>1 DEF Handlers
<1> QED
  BY <1>2, <1>3, <1>4, ReplaceHandler DEF Types

\* A handler goes on with a row in which it has set a time stamp.
LEMMA StampType ==
    ASSUME Types, NEW w \in Workers, Putting(w), NEW label \in Labels, NEW t \in Nat,
           \/ req' = [req EXCEPT ![w].pc = label, ![w].snap.started = t]
           \/ req' = [req EXCEPT ![w].pc = label, ![w].snap.completed = t]
    PROVE  /\ req' \in [Workers -> Handlers]
           /\ \A v \in Workers : Putting(v)' => req'[v].client \in Locations
<1>1. req[w] \in Handlers /\ req[w].snap \in Runs
  BY DEF Types, TypeOK, Handlers
<1> DEFINE S == [req[w].snap EXCEPT !.started = t]
           E == [req[w].snap EXCEPT !.completed = t]
           H(r) == [req[w] EXCEPT !.pc = label, !.snap = r]
<1>2. S \in Runs /\ E \in Runs
  BY <1>1 DEF Runs, Times
<1>3. \A r \in Runs : H(r) \in Handlers /\ H(r).client = req[w].client
  BY <1>1 DEF Handlers
<1>4. req' = [req EXCEPT ![w] = H(S)] \/ req' = [req EXCEPT ![w] = H(E)]
  <2>1. req \in [Workers -> Handlers]
    BY DEF Types, TypeOK
  <2>2. CASE req' = [req EXCEPT ![w].pc = label, ![w].snap.started = t]
    BY <1>1, <2>1, <2>2 DEF Handlers
  <2>3. CASE req' = [req EXCEPT ![w].pc = label, ![w].snap.completed = t]
    BY <1>1, <2>1, <2>3 DEF Handlers
  <2> QED
    BY <2>2, <2>3
<1> HIDE DEF S, E, H
<1> QED
  BY <1>2, <1>3, <1>4, ReplaceHandler DEF Types

\* The steps that take a request, and the steps of handlers.
LEMMA ReceiveType ==
    ASSUME Types, NEW w \in Workers, Receive(w)
    PROVE  Types'
<1> USE DEF Types, TypeOK, db
<1>1. ASSUME NEW l \in Locations, NEW s \in ClientStatuses, GetJob(w, l, s)
      PROVE  Types'
  <2> DEFINE h == [pc |-> IF status[l] = "queued" /\ s = "ready" THEN "ready count" ELSE "save",
                   client |-> l, to |-> s, snap |-> run]
  <2>1. h \in Handlers /\ h.client \in Locations
    BY ClientStatusType DEF Handlers, Labels
  <2>2. req' = [req EXCEPT ![w] = h]
    BY <1>1 DEF GetJob
  <2> HIDE DEF h
  <2>3. /\ req' \in [Workers -> Handlers]
        /\ \A v \in Workers : Putting(v)' => req'[v].client \in Locations
    BY <2>1, <2>2, ReplaceHandler
  <2> QED
    BY <1>1, <2>3 DEF GetJob
<1>2. CASE ReadDraft(w)
  <2> DEFINE h == [Idle EXCEPT !.pc = "start save", !.snap = [run EXCEPT !.draft = FALSE]]
  <2>1. h \in Handlers /\ h.pc \notin PutLabels
    BY DEF Idle, Handlers, Labels, Runs, Status, PutLabels
  <2>2. req' = [req EXCEPT ![w] = h]
    BY <1>2 DEF ReadDraft
  <2> HIDE DEF h
  <2>3. /\ req' \in [Workers -> Handlers]
        /\ \A v \in Workers : Putting(v)' => req'[v].client \in Locations
    BY <2>1, <2>2, ReplaceHandler
  <2> QED
    BY <1>2, <2>3 DEF ReadDraft
<1>3. CASE ReadStatuses(w)
  <2> DEFINE h == [Idle EXCEPT !.pc = "cancel run"]
  <2>1. h \in Handlers /\ h.pc \notin PutLabels
    BY NewRunType DEF Handlers, Labels, PutLabels
  <2>2. req' = [req EXCEPT ![w] = h]
    BY <1>3 DEF ReadStatuses
  <2> HIDE DEF h
  <2>3. /\ req' \in [Workers -> Handlers]
        /\ \A v \in Workers : Putting(v)' => req'[v].client \in Locations
    BY <2>1, <2>2, ReplaceHandler
  <2> QED
    BY <1>3, <2>3 DEF ReadStatuses
<1>4. CASE DeleteRun(w)
  BY <1>4 DEF DeleteRun, Putting
<1>5. ASSUME NEW l \in Locations, AddLocation(w, l)
      PROVE  Types'
  BY <1>5 DEF AddLocation, Status, Putting
<1> QED
  BY <1>1, <1>2, <1>3, <1>4, <1>5 DEF Receive

LEMMA HandleType ==
    ASSUME Types, NEW w \in Workers, Handle(w)
    PROVE  Types'
<1> USE DEF Types, db, PutLabels
<1>1. CASE ReadyCount(w)
  <2>1. Putting(w)
    BY <1>1 DEF ReadyCount, At, Putting
  <2> QED
    BY <1>1, <2>1, GotoType DEF ReadyCount, Labels, TypeOK
<1>2. CASE SaveJob(w)
  <2>1. AfterSave(req[w]) \in Labels /\ Putting(w)
    BY <1>2 DEF AfterSave, Labels, SaveJob, At, Putting
  <2>2. /\ req' \in [Workers -> Handlers]
        /\ \A v \in Workers : Putting(v)' => req'[v].client \in Locations
    BY <1>2, <2>1, GotoType, DoneType DEF SaveJob
  <2>3. req[w].to \in Status /\ req[w].client \in Locations
    BY <2>1 DEF TypeOK, Handlers
  <2> QED
    BY <1>2, <2>2, <2>3 DEF SaveJob, TypeOK
<1>3. CASE StartedCount(w)
  <2>1. Putting(w)
    BY <1>3 DEF StartedCount, At, Putting
  <2>a. now + StartDelay \in Nat
    BY StartDelayType DEF TypeOK
  <2>2. /\ req' \in [Workers -> Handlers]
        /\ \A v \in Workers : Putting(v)' => req'[v].client \in Locations
    BY <1>3, <2>1, <2>a, StampType, DoneType DEF StartedCount, Labels
  <2> QED
    BY <1>3, <2>2 DEF StartedCount, TypeOK
<1>4. CASE CompletedCount(w)
  <2>1. Putting(w) /\ now \in Nat
    BY <1>4 DEF CompletedCount, At, Putting, TypeOK
  <2>2. /\ req' \in [Workers -> Handlers]
        /\ \A v \in Workers : Putting(v)' => req'[v].client \in Locations
    BY <1>4, <2>1, StampType, DoneType DEF CompletedCount, Labels
  <2> QED
    BY <1>4, <2>2 DEF CompletedCount, TypeOK
<1>5. CASE SaveSnapshot(w)
  <2>1. req[w].snap \in Runs /\ [req[w].snap EXCEPT !.started = now] \in Runs
    BY DEF TypeOK, Handlers, Runs, Times
  <2>2. /\ req' \in [Workers -> Handlers]
        /\ \A v \in Workers : Putting(v)' => req'[v].client \in Locations
    <3>1. CASE At(w, "ready save")
      <4>1. Putting(w) /\ now \in Nat
        BY <3>1 DEF At, Putting, TypeOK
      <4> QED
        BY <1>5, <3>1, <4>1, StampType DEF SaveSnapshot, Labels
    <3>2. CASE ~At(w, "ready save")
      BY <1>5, <3>2, DoneType DEF SaveSnapshot
    <3> QED
      BY <3>1, <3>2
  <2> QED
    BY <1>5, <2>1, <2>2 DEF SaveSnapshot, SaveRun, TypeOK
<1>6. CASE CancelOthers(w)
  BY <1>6, DoneType DEF CancelOthers, StoppedOthers, Status, TypeOK
<1>7. CASE CancelRun(w)
  BY <1>7, DoneType DEF CancelRun, Status, TypeOK
<1> QED
  BY <1>1, <1>2, <1>3, <1>4, <1>5, <1>6, <1>7 DEF Handle

\* Every reachable state has the types.
LEMMA TypesInvariant == Spec => []Types
<1>1. Init => Types
  <2>1. NewRun \in Runs /\ Idle \in Handlers /\ Idle.pc \notin PutLabels
    BY NewRunType DEF Idle, PutLabels
  <2> QED
    BY <2>1 DEF Init, Types, TypeOK, Status, Putting
<1>2. Types /\ [Next]_vars => Types'
  <2> SUFFICES ASSUME Types, [Next]_vars PROVE Types'
    OBVIOUS
  <2>1. ASSUME NEW w \in Workers, Die(w) PROVE Types'
    BY <2>1, DoneType DEF Die, db, Types, TypeOK
  <2>2. CASE Tick
    BY <2>2 DEF Tick, db, Types, TypeOK, Putting
  <2>3. CASE UNCHANGED vars
    BY <2>3 DEF vars, Types, TypeOK, Putting
  <2> QED
    BY <2>1, <2>2, <2>3, ReceiveType, HandleType DEF Next
<1> QED
  BY <1>1, <1>2, PTL DEF Spec

(***************************************************************************)
(* All variables of the web app have their types, for any requests of      *)
(* users and operators, any number of workers and of deaths.  (WebApp)     *)
(***************************************************************************)
THEOREM TypeCorrect == Spec => []TypeOK
  BY TypesInvariant, PTL DEF Types

--------------------------------------------------------------------------------
(***************************************************************************)
(* What a handler may rely on at each label.  Its job exists and its run   *)
(* is no draft; before it saves, the job is as it was read or has been     *)
(* canceled since; afterwards it has the status of the PUT, unless it has  *)
(* been canceled.  Nobody else saves the job, because its operator waits   *)
(* for the answer.  The transition method ready() counts before its own    *)
(* job is saved and therefore never sets the start time.                   *)
(***************************************************************************)
HandlerOK(w) ==
    /\ Putting(w) => /\ req[w].client \in rows
                     /\ ~run.draft
                     /\ req[w].to \in OperatorStatuses
    /\ req[w].pc \in BeforeSave =>
          \/ status[req[w].client] = "canceled"
          \/ Accepts(status[req[w].client], req[w].to)
    /\ At(w, "ready count") => /\ req[w].to = "ready"
                               /\ status[req[w].client] \in {"queued", "canceled"}
    /\ ~At(w, "ready save")
    /\ req[w].pc \in {"started count", "started save"} =>
          /\ req[w].to = "ready"
          /\ status[req[w].client] \in {"ready", "canceled"}
    /\ req[w].pc \in {"completed count", "completed save"} => req[w].to = "completed"
    /\ At(w, "cancel others") => req[w].to = "failed"
    /\ At(w, "start save") => /\ run.draft
                              /\ req[w].client = Admin
                              /\ req[w].snap = [NewRun EXCEPT !.draft = FALSE]
    /\ At(w, "cancel run") => ~run.draft
    /\ Putting(w) => ~req[w].snap.draft
    /\ At(w, "started save") => req[w].snap.started # Never
    /\ At(w, "completed save") => req[w].snap.completed # Never

\* Each client has one request in progress.
OneEach == \A v, w \in Workers :
    Busy(v) /\ Busy(w) /\ req[v].client = req[w].client => v = w

\* A draft is as it was created.
Drafting == run.draft => run = NewRun /\ \A l \in Locations : status[l] = "pending"

Safe == exists /\ (\A w \in Workers : HandlerOK(w)) /\ OneEach /\ Drafting

\* A step of one handler and the others: what keeps HandlerOK and OneEach.
LEMMA OtherKept ==
    ASSUME Safe, NEW v \in Workers, req'[v] = req[v], UNCHANGED <<run, status>>,
           rows \subseteq rows'
    PROVE  HandlerOK(v)'
<1>1. HandlerOK(v)
  BY DEF Safe
<1> QED
  BY <1>1 DEF HandlerOK, Putting, At

LEMMA OneEachKept ==
    ASSUME Safe, NEW w \in Workers, \A v \in Workers : v # w => req'[v] = req[v],
           \/ ~Busy(w)'
           \/ Busy(w) /\ req'[w].client = req[w].client
           \/ \A v \in Workers : v # w /\ Busy(v) => req[v].client # req'[w].client
    PROVE  OneEach'
<1> SUFFICES ASSUME NEW u \in Workers, NEW v \in Workers,
                    Busy(u)', Busy(v)', req'[u].client = req'[v].client, u # v
             PROVE  FALSE
  BY DEF OneEach
<1> QED
  BY DEF Safe, OneEach, Busy

\* An operator's PUT is taken: the transition it asks for is valid.
LEMMA GetJobSafe ==
    ASSUME Kept, Types, Safe, NEW w \in Workers, NEW l \in Locations, NEW s \in ClientStatuses,
           GetJob(w, l, s)
    PROVE  Safe'
<1>1. /\ req'[w].pc = IF status[l] = "queued" /\ s = "ready" THEN "ready count" ELSE "save"
      /\ req'[w].client = l /\ req'[w].to = s /\ req'[w].snap = run
      /\ \A v \in Workers : v # w => req'[v] = req[v]
      /\ UNCHANGED <<exists, run, rows, status>>
  BY DEF GetJob, Types, TypeOK, db
<1>2. l \in rows /\ ~run.draft /\ Accepts(status[l], s) /\ s \in OperatorStatuses
  BY DEF GetJob, Kept
<1>3. \A v \in Workers : v # w /\ Busy(v) => req[v].client # l
  BY DEF GetJob, Free
<1>5. HandlerOK(w)'
  BY <1>1, <1>2 DEF HandlerOK, Busy, Putting, PutLabels, BeforeSave, At, Safe
<1>6. ASSUME NEW v \in Workers, v # w PROVE HandlerOK(v)'
  BY <1>1, <1>6, OtherKept
<1>7. OneEach'
  BY <1>1, <1>3, OneEachKept
<1>8. Drafting' /\ exists'
  BY <1>1 DEF Drafting, Safe
<1> QED
  BY <1>5, <1>6, <1>7, <1>8 DEF Safe

\* Taking a request of the admin, and adding a location.
LEMMA AdminSafe ==
    ASSUME Kept, Types, Safe, NEW w \in Workers,
           ReadDraft(w) \/ ReadStatuses(w) \/ \E l \in Locations : AddLocation(w, l)
    PROVE  Safe'
<1>1. CASE ReadDraft(w)
  <2>1. /\ req'[w].pc = "start save" /\ req'[w].client = Admin
        /\ req'[w].snap = [run EXCEPT !.draft = FALSE]
        /\ \A v \in Workers : v # w => req'[v] = req[v]
        /\ UNCHANGED <<exists, run, rows, status>>
        /\ run.draft
    BY <1>1 DEF ReadDraft, Types, TypeOK, db, Idle
  <2>2. \A v \in Workers : v # w /\ Busy(v) => req[v].client # Admin
    BY <1>1 DEF ReadDraft, Free
  <2>3. HandlerOK(w)'
    BY <2>1 DEF HandlerOK, Busy, Putting, PutLabels, BeforeSave, At, Safe, Drafting
  <2>4. ASSUME NEW v \in Workers, v # w PROVE HandlerOK(v)'
    BY <2>1, <2>4, OtherKept
  <2>5. OneEach'
    BY <2>1, <2>2, OneEachKept
  <2> QED
    BY <2>1, <2>3, <2>4, <2>5 DEF Safe, Drafting
<1>2. CASE ReadStatuses(w)
  <2>1. /\ req'[w].pc = "cancel run" /\ req'[w].client = Admin
        /\ \A v \in Workers : v # w => req'[v] = req[v]
        /\ UNCHANGED <<exists, run, rows, status>>
        /\ ~run.draft
    BY <1>2 DEF ReadStatuses, Types, TypeOK, db, Idle
  <2>2. \A v \in Workers : v # w /\ Busy(v) => req[v].client # Admin
    BY <1>2 DEF ReadStatuses, Free
  <2>3. HandlerOK(w)'
    BY <2>1 DEF HandlerOK, Busy, Putting, PutLabels, BeforeSave, At, Safe
  <2>4. ASSUME NEW v \in Workers, v # w PROVE HandlerOK(v)'
    BY <2>1, <2>4, OtherKept
  <2>5. OneEach'
    BY <2>1, <2>2, OneEachKept
  <2> QED
    BY <2>1, <2>3, <2>4, <2>5 DEF Safe, Drafting
<1>3. ASSUME NEW l \in Locations, AddLocation(w, l)
      PROVE  Safe'
  <2>1. /\ UNCHANGED <<exists, run, req>>
        /\ ~run.draft
        /\ rows' = rows \cup {l}
        /\ l \notin rows
        /\ \A k \in rows : status'[k] = status[k]
    BY <1>3 DEF AddLocation, Types, TypeOK
  <2>2. ASSUME NEW v \in Workers PROVE HandlerOK(v)'
    BY <2>1, <2>2 DEF HandlerOK, Busy, Putting, PutLabels, BeforeSave, At, Safe
  <2> QED
    BY <2>1, <2>2 DEF Safe, Drafting, OneEach, Busy
<1> QED
  BY <1>1, <1>2, <1>3

\* A handler that is done, also because it is killed, leaves the others alone.
LEMMA DoneSafe ==
    ASSUME Types, NEW w \in Workers, Done(w), Safe
    PROVE  /\ \A v \in Workers : v # w => req'[v] = req[v]
           /\ req'[w] = Idle
           /\ HandlerOK(w)'
           /\ OneEach'
<1>1. req'[w] = Idle /\ \A v \in Workers : v # w => req'[v] = req[v]
  BY DEF Done, Types, TypeOK
<1>2. HandlerOK(w)'
  BY <1>1 DEF Idle, HandlerOK, Busy, Putting, PutLabels, BeforeSave, At
<1>3. OneEach'
  BY <1>1, OneEachKept DEF Idle, Busy
<1> QED
  BY <1>1, <1>2, <1>3

\* A handler goes to another label and keeps what it has read.
LEMMA GotoEffect ==
    ASSUME Types, NEW w \in Workers, NEW label, Goto(w, label)
    PROVE  /\ req'[w].pc = label /\ req'[w].client = req[w].client
           /\ req'[w].to = req[w].to /\ req'[w].snap = req[w].snap
           /\ \A v \in Workers : v # w => req'[v] = req[v]
<1>1. req[w] \in Handlers /\ req \in [Workers -> Handlers]
  BY DEF Types, TypeOK
<1> QED
  BY <1>1 DEF Goto, Handlers

\* ready() always finds a job that is not ready: its own.
LEMMA ReadyCountSafe ==
    ASSUME Types, Safe, NEW w \in Workers, ReadyCount(w)
    PROVE  Safe' /\ Goto(w, "save")
<1>1. At(w, "ready count") /\ UNCHANGED <<exists, run, rows, status>>
  BY DEF ReadyCount, db
<1>2. ~AllAre("ready")
  BY <1>1 DEF Safe, HandlerOK, AllAre, Putting, PutLabels, At
<1>3. Goto(w, "save")
  BY <1>2 DEF ReadyCount
<1>4. /\ req'[w].pc = "save" /\ req'[w].client = req[w].client
      /\ req'[w].to = req[w].to /\ req'[w].snap = req[w].snap
      /\ \A v \in Workers : v # w => req'[v] = req[v]
  BY <1>3, GotoEffect
<1>5. HandlerOK(w)'
  BY <1>1, <1>4 DEF HandlerOK, Putting, PutLabels, BeforeSave, At, Safe
<1>6. ASSUME NEW v \in Workers, v # w PROVE HandlerOK(v)'
  BY <1>1, <1>4, <1>6, OtherKept
<1>7. OneEach'
  BY <1>1, <1>4, OneEachKept DEF Busy, At
<1> QED
  BY <1>1, <1>3, <1>5, <1>6, <1>7 DEF Safe, Drafting

\* The job is saved as the PUT says, over what it was read as or canceled.
LEMMA SaveJobSafe ==
    ASSUME Types, Safe, NEW w \in Workers, SaveJob(w)
    PROVE  /\ Safe'
           /\ status' = [status EXCEPT ![req[w].client] = req[w].to]
           /\ rows' = rows
           /\ AfterSave(req[w]) = "idle" => Done(w)
           /\ AfterSave(req[w]) # "idle" => Goto(w, AfterSave(req[w]))
<1>1. At(w, "save") /\ UNCHANGED <<exists, run>> /\ Putting(w) /\ Busy(w)
  BY DEF SaveJob, At, Putting, PutLabels, Busy
<1>2. req[w].client \in rows /\ req[w].client \in Locations /\ ~run.draft
  BY <1>1 DEF Safe, HandlerOK, Types
<1>3. /\ status' = [status EXCEPT ![req[w].client] = req[w].to]
      /\ rows' = rows
      /\ AfterSave(req[w]) = "idle" => Done(w)
      /\ AfterSave(req[w]) # "idle" => Goto(w, AfterSave(req[w]))
  BY <1>2 DEF SaveJob
<1>4. /\ status'[req[w].client] = req[w].to
      /\ \A k \in Locations : k # req[w].client => status'[k] = status[k]
  BY <1>2, <1>3 DEF Types, TypeOK
<1>5. \A v \in Workers : v # w => req'[v] = req[v]
  BY <1>3, DoneSafe, GotoEffect
<1>6. HandlerOK(w)' /\ OneEach'
  <2>1. CASE AfterSave(req[w]) = "idle"
    BY <2>1, <1>3, DoneSafe
  <2>2. CASE AfterSave(req[w]) # "idle"
    <3>1. /\ req'[w].pc = AfterSave(req[w]) /\ req'[w].client = req[w].client
          /\ req'[w].to = req[w].to /\ req'[w].snap = req[w].snap
      BY <2>2, <1>3, GotoEffect
    <3>2. \/ AfterSave(req[w]) = "started count" /\ req[w].to = "ready"
          \/ AfterSave(req[w]) = "completed count" /\ req[w].to = "completed"
          \/ AfterSave(req[w]) = "cancel others" /\ req[w].to = "failed"
      BY <2>2 DEF AfterSave
    <3>3. HandlerOK(w)'
      BY <1>1, <1>2, <1>3, <1>4, <3>1, <3>2
      DEF HandlerOK, Putting, PutLabels, BeforeSave, At, Safe
    <3>4. OneEach'
      BY <1>1, <1>5, <3>1, OneEachKept
    <3> QED
      BY <3>3, <3>4
  <2> QED
    BY <2>1, <2>2
<1>7. ASSUME NEW v \in Workers, v # w PROVE HandlerOK(v)'
  <2>1. Putting(v) => Busy(v) /\ req[v].client # req[w].client /\ req[v].client \in Locations
    BY <1>1, <1>7 DEF Putting, PutLabels, Busy, Safe, OneEach, Types
  <2>2. HandlerOK(v) /\ req'[v] = req[v]
    BY <1>5, <1>7 DEF Safe
  <2> QED
    BY <1>1, <1>3, <1>4, <2>1, <2>2 DEF HandlerOK, Putting, PutLabels, BeforeSave, At
<1>8. Drafting'
  BY <1>1, <1>2 DEF Drafting
<1> QED
  BY <1>1, <1>3, <1>6, <1>7, <1>8 DEF Safe

\* A handler goes to another label and sets a time stamp in the row it has read.
LEMMA StampEffect ==
    ASSUME Types, NEW w \in Workers, NEW label, NEW t,
           \/ req' = [req EXCEPT ![w].pc = label, ![w].snap.started = t]
           \/ req' = [req EXCEPT ![w].pc = label, ![w].snap.completed = t]
    PROVE  /\ req'[w].pc = label /\ req'[w].client = req[w].client
           /\ req'[w].to = req[w].to /\ req'[w].snap.draft = req[w].snap.draft
           /\ \A v \in Workers : v # w => req'[v] = req[v]
<1>1. req[w] \in Handlers /\ req \in [Workers -> Handlers] /\ req[w].snap \in Runs
  BY DEF Types, TypeOK, Handlers
<1>2. CASE req' = [req EXCEPT ![w].pc = label, ![w].snap.started = t]
  BY <1>1, <1>2 DEF Handlers, Runs
<1>3. CASE req' = [req EXCEPT ![w].pc = label, ![w].snap.completed = t]
  BY <1>1, <1>3 DEF Handlers, Runs
<1> QED
  BY <1>2, <1>3

LEMMA StartedStamp ==
    ASSUME Types, NEW w \in Workers, NEW label, NEW t,
           req' = [req EXCEPT ![w].pc = label, ![w].snap.started = t]
    PROVE  req'[w].snap.started = t /\ req'[w].snap.completed = req[w].snap.completed
<1>1. req[w] \in Handlers /\ req \in [Workers -> Handlers] /\ req[w].snap \in Runs
  BY DEF Types, TypeOK, Handlers
<1> QED
  BY <1>1 DEF Handlers, Runs

LEMMA CompletedStamp ==
    ASSUME Types, NEW w \in Workers, NEW label, NEW t,
           req' = [req EXCEPT ![w].pc = label, ![w].snap.completed = t]
    PROVE  req'[w].snap.completed = t /\ req'[w].snap.started = req[w].snap.started
<1>1. req[w] \in Handlers /\ req \in [Workers -> Handlers] /\ req[w].snap \in Runs
  BY DEF Types, TypeOK, Handlers
<1> QED
  BY <1>1 DEF Handlers, Runs

LEMMA TimeIsSome == \A t \in Nat : t # Never
  BY ResultsAssumption

\* The counts of the receivers: the handler is done, or will save its stamp.
LEMMA CountSafe ==
    ASSUME Types, Safe, NEW w \in Workers, StartedCount(w) \/ CompletedCount(w)
    PROVE  Safe'
<1>1. UNCHANGED <<exists, run, rows, status>>
  BY DEF StartedCount, CompletedCount, db
<1>2. CASE Done(w)
  <2>1. ASSUME NEW v \in Workers, v # w PROVE HandlerOK(v)'
    BY <1>1, <1>2, <2>1, DoneSafe, OtherKept
  <2> QED
    BY <1>1, <1>2, <2>1, DoneSafe DEF Safe, Drafting
<1>3. CASE /\ At(w, "started count")
           /\ req' = [req EXCEPT ![w].pc = "started save", ![w].snap.started = now + StartDelay]
  <2>1. /\ req'[w].pc = "started save" /\ req'[w].client = req[w].client
        /\ req'[w].to = req[w].to /\ req'[w].snap.draft = req[w].snap.draft
        /\ \A v \in Workers : v # w => req'[v] = req[v]
    BY <1>3, StampEffect
  <2>a. now + StartDelay \in Nat
    BY StartDelayType DEF Types, TypeOK
  <2>b. req'[w].snap.started = now + StartDelay
    BY <1>3, StartedStamp
  <2>c. req'[w].snap.started # Never
    BY <2>a, <2>b, TimeIsSome
  <2>e. req[w].pc = "started count"
    BY <1>3 DEF At
  <2>d. HandlerOK(w)
    BY DEF Safe
  <2>2. HandlerOK(w)'
    BY <1>1, <2>1, <2>c, <2>d, <2>e DEF HandlerOK, Putting, PutLabels, BeforeSave, At
  <2>3. ASSUME NEW v \in Workers, v # w PROVE HandlerOK(v)'
    BY <1>1, <2>1, <2>3, OtherKept
  <2>4. OneEach'
    BY <1>3, <2>1, OneEachKept DEF Busy, At
  <2> QED
    BY <1>1, <2>2, <2>3, <2>4 DEF Safe, Drafting
<1>4. CASE /\ At(w, "completed count")
           /\ req' = [req EXCEPT ![w].pc = "completed save", ![w].snap.completed = now]
  <2>1. /\ req'[w].pc = "completed save" /\ req'[w].client = req[w].client
        /\ req'[w].to = req[w].to /\ req'[w].snap.draft = req[w].snap.draft
        /\ \A v \in Workers : v # w => req'[v] = req[v]
    BY <1>4, StampEffect
  <2>a. now \in Nat
    BY DEF Types, TypeOK
  <2>b. req'[w].snap.completed = now
    BY <1>4, CompletedStamp
  <2>c. req'[w].snap.completed # Never
    BY <2>a, <2>b, TimeIsSome
  <2>e. req[w].pc = "completed count"
    BY <1>4 DEF At
  <2>d. HandlerOK(w)
    BY DEF Safe
  <2>2. HandlerOK(w)'
    BY <1>1, <2>1, <2>c, <2>d, <2>e DEF HandlerOK, Putting, PutLabels, BeforeSave, At
  <2>3. ASSUME NEW v \in Workers, v # w PROVE HandlerOK(v)'
    BY <1>1, <2>1, <2>3, OtherKept
  <2>4. OneEach'
    BY <1>4, <2>1, OneEachKept DEF Busy, At
  <2> QED
    BY <1>1, <2>2, <2>3, <2>4 DEF Safe, Drafting
<1> QED
  BY <1>2, <1>3, <1>4 DEF StartedCount, CompletedCount

\* The run is saved as it was read.
LEMMA SaveSnapshotSafe ==
    ASSUME Types, Safe, NEW w \in Workers, SaveSnapshot(w)
    PROVE  Safe' /\ ~At(w, "ready save")
<1>1. ~At(w, "ready save")
  BY DEF Safe, HandlerOK
<1>2. /\ req[w].pc \in {"started save", "completed save", "start save"}
      /\ exists' /\ run' = req[w].snap /\ Done(w)
      /\ UNCHANGED <<rows, status>>
  BY <1>1 DEF SaveSnapshot, SaveRun, RunSaves, At
<1>3. ~run'.draft
  BY <1>2 DEF Safe, HandlerOK, Putting, PutLabels, At, NewRun
<1>4. ASSUME NEW v \in Workers, v # w PROVE HandlerOK(v)'
  <2>1. ~At(v, "start save")
    <3>1. CASE At(w, "start save")
      BY <1>4, <3>1 DEF Safe, HandlerOK, OneEach, At, Busy
    <3>2. CASE Putting(w)
      BY <3>2 DEF Safe, HandlerOK
    <3> QED
      BY <1>2, <3>1, <3>2 DEF At, Putting, PutLabels
  <2>2. HandlerOK(v) /\ req'[v] = req[v]
    BY <1>2, <1>4, DoneSafe DEF Safe
  <2> QED
    BY <1>2, <1>3, <2>1, <2>2 DEF HandlerOK, Putting, At
<1> QED
  BY <1>1, <1>2, <1>3, <1>4, DoneSafe DEF Safe, Drafting

\* Jobs are canceled in bulk, those of handlers in progress included.
LEMMA CancelSafe ==
    ASSUME Types, Safe, NEW w \in Workers, CancelOthers(w) \/ CancelRun(w)
    PROVE  Safe'
<1>1. Done(w) /\ UNCHANGED <<exists, run, rows>>
  BY DEF CancelOthers, CancelRun
<1>2. \A l \in Locations : status'[l] \in {status[l], "canceled"}
  BY DEF CancelOthers, CancelRun, StoppedOthers
<1>3. ASSUME NEW v \in Workers, v # w PROVE HandlerOK(v)'
  <2>1. Putting(v) => req[v].client \in Locations
    BY DEF Types
  <2>2. HandlerOK(v) /\ req'[v] = req[v]
    BY <1>1, <1>3, DoneSafe DEF Safe
  <2>3. Putting(v) => \/ status'[req[v].client] = status[req[v].client]
                      \/ status'[req[v].client] = "canceled"
    BY <1>2, <2>1
  <2> QED
    BY <1>1, <2>2, <2>3 DEF HandlerOK, Putting, PutLabels, BeforeSave, At
<1>4. Drafting'
  <2>1. CASE CancelOthers(w)
    <3>1. ~run.draft
      BY <2>1 DEF CancelOthers, At, Safe, HandlerOK, Putting, PutLabels
    <3> QED
      BY <1>1, <3>1 DEF Drafting
  <2>2. CASE CancelRun(w)
    <3>1. ~run.draft
      BY <2>2 DEF CancelRun, Safe, HandlerOK
    <3> QED
      BY <1>1, <3>1 DEF Drafting
  <2> QED
    BY <2>1, <2>2
<1> QED
  BY <1>1, <1>3, <1>4, DoneSafe DEF Safe

\* Handlers can rely on it in every reachable state.
LEMMA SafeInvariant ==
    ASSUME Kept PROVE Spec => []Safe
<1>1. Init => Safe
  <2> SUFFICES ASSUME Init PROVE Safe
    OBVIOUS
  <2>1. \A w \in Workers : req[w].pc = "idle"
    BY DEF Init, Idle
  <2>2. ASSUME NEW w \in Workers PROVE HandlerOK(w)
    BY <2>1 DEF HandlerOK, Putting, PutLabels, BeforeSave, At
  <2> QED
    BY <2>1, <2>2 DEF Safe, OneEach, Busy, Drafting, Init
<1>2. Types /\ Safe /\ [Next]_vars => Safe'
  <2> SUFFICES ASSUME Types, Safe, [Next]_vars PROVE Safe'
    OBVIOUS
  <2>1. ASSUME NEW w \in Workers, Receive(w) PROVE Safe'
    BY <2>1, GetJobSafe, AdminSafe DEF Receive, Kept
  <2>2. ASSUME NEW w \in Workers, Handle(w) PROVE Safe'
    BY <2>2, ReadyCountSafe, SaveJobSafe, CountSafe, SaveSnapshotSafe, CancelSafe DEF Handle
  <2>3. ASSUME NEW w \in Workers, Die(w) PROVE Safe'
    <3>1. Done(w) /\ UNCHANGED <<exists, run, rows, status>>
      BY <2>3 DEF Die, db
    <3>2. ASSUME NEW v \in Workers, v # w PROVE HandlerOK(v)'
      BY <3>1, <3>2, DoneSafe, OtherKept
    <3> QED
      BY <3>1, <3>2, DoneSafe DEF Safe, Drafting
  <2>4. CASE Tick \/ UNCHANGED vars
    <3>1. UNCHANGED <<exists, run, rows, status, req>>
      BY <2>4 DEF Tick, vars, db
    <3>2. ASSUME NEW v \in Workers PROVE HandlerOK(v)'
      <4>1. req'[v] = req[v] /\ rows' = rows /\ run' = run /\ status' = status
        BY <3>1
      <4>2. HandlerOK(v)
        BY DEF Safe
      <4> QED
        BY <4>1, <4>2 DEF HandlerOK, Putting, At
    <3> QED
      BY <3>1, <3>2 DEF Safe, Drafting, OneEach, Busy
  <2> QED
    BY <2>1, <2>2, <2>3, <2>4 DEF Next
<1> QED
  BY <1>1, <1>2, TypesInvariant, PTL DEF Spec

--------------------------------------------------------------------------------
(***************************************************************************)
(* The steps by what they do to the time stamps: most neither compute nor  *)
(* write one (Plain), the counts compute one, SaveSnapshot writes it.      *)
(***************************************************************************)
Stamping == {"started save", "completed save"}

Plain ==
    /\ UNCHANGED <<exists, run>>
    /\ \A v \in Workers :
          \/ /\ req'[v].snap = req[v].snap
             /\ At(v, "started save")' <=> At(v, "started save")
             /\ At(v, "completed save")' <=> At(v, "completed save")
          \/ /\ req'[v].snap \in {run, NewRun, [NewRun EXCEPT !.draft = FALSE]}
             /\ req'[v].pc \notin Stamping

\* Handlers that end, go on or start are plain.
LEMMA DonePlain ==
    ASSUME Types, NEW w \in Workers, Done(w), UNCHANGED <<exists, run>>
    PROVE  Plain
<1>1. req'[w] = Idle /\ \A v \in Workers : v # w => req'[v] = req[v]
  BY DEF Done, Types, TypeOK
<1>2. req'[w].snap = NewRun /\ req'[w].pc = "idle"
  BY <1>1 DEF Idle
<1> QED
  BY <1>1, <1>2 DEF Plain, At, Stamping

LEMMA GotoPlain ==
    ASSUME Types, NEW w \in Workers, NEW label, Goto(w, label), UNCHANGED <<exists, run>>,
           label \notin Stamping, req[w].pc \notin Stamping
    PROVE  Plain
  BY GotoEffect DEF Plain, At, Stamping

LEMMA ReceivePlain ==
    ASSUME Kept, Types, Safe, NEW w \in Workers, Receive(w)
    PROVE  Plain
<1>1. ASSUME NEW l \in Locations, NEW s \in ClientStatuses, GetJob(w, l, s)
      PROVE  Plain
  <2>1. /\ req'[w].pc \in {"ready count", "save"} /\ req'[w].snap = run
        /\ \A v \in Workers : v # w => req'[v] = req[v]
        /\ UNCHANGED <<exists, run>>
    BY <1>1 DEF GetJob, Types, TypeOK, db
  <2> QED
    BY <2>1 DEF Plain, At, Stamping
<1>2. CASE ReadDraft(w)
  <2>1. /\ req'[w].pc = "start save" /\ req'[w].snap = [run EXCEPT !.draft = FALSE]
        /\ \A v \in Workers : v # w => req'[v] = req[v]
        /\ UNCHANGED <<exists, run>> /\ run.draft
    BY <1>2 DEF ReadDraft, Types, TypeOK, db, Idle
  <2>2. req'[w].snap = [NewRun EXCEPT !.draft = FALSE]
    BY <2>1 DEF Safe, Drafting
  <2> QED
    BY <2>1, <2>2 DEF Plain, At, Stamping
<1>3. CASE ReadStatuses(w)
  <2>1. /\ req'[w].pc = "cancel run" /\ req'[w].snap = NewRun
        /\ \A v \in Workers : v # w => req'[v] = req[v]
        /\ UNCHANGED <<exists, run>>
    BY <1>3 DEF ReadStatuses, Types, TypeOK, db, Idle
  <2> QED
    BY <2>1 DEF Plain, At, Stamping
<1>4. ASSUME NEW l \in Locations, AddLocation(w, l)
      PROVE  Plain
  <2>1. UNCHANGED <<exists, run>> /\ \A v \in Workers : req'[v] = req[v]
    BY <1>4 DEF AddLocation
  <2> QED
    BY <2>1 DEF Plain, At
<1> QED
  BY <1>1, <1>2, <1>3, <1>4 DEF Receive, Kept

StampsStart(w) ==
    /\ At(w, "started count")
    /\ AllAre("ready")
    /\ req' = [req EXCEPT ![w].pc = "started save", ![w].snap.started = now + StartDelay]
    /\ UNCHANGED <<db, now, deaths>>

StampsEnd(w) ==
    /\ At(w, "completed count")
    /\ AllAre("completed")
    /\ req' = [req EXCEPT ![w].pc = "completed save", ![w].snap.completed = now]
    /\ UNCHANGED <<db, now, deaths>>

\* What a handler does: a plain step, or one that computes or writes stamps.
LEMMA HandlePlain ==
    ASSUME Types, Safe, NEW w \in Workers, Handle(w)
    PROVE  Plain \/ StampsStart(w) \/ StampsEnd(w) \/ SaveSnapshot(w)
<1>1. CASE ReadyCount(w)
  <2>1. Goto(w, "save") /\ UNCHANGED <<exists, run>> /\ At(w, "ready count")
    BY <1>1, ReadyCountSafe DEF ReadyCount, db
  <2> QED
    BY <2>1, GotoPlain DEF At, Stamping
<1>2. CASE SaveJob(w)
  <2>1. At(w, "save") /\ UNCHANGED <<exists, run>>
    BY <1>2 DEF SaveJob
  <2>2. CASE AfterSave(req[w]) = "idle"
    BY <1>2, <2>1, <2>2, SaveJobSafe, DonePlain
  <2>3. CASE AfterSave(req[w]) # "idle"
    <3>1. Goto(w, AfterSave(req[w]))
      BY <1>2, <2>3, SaveJobSafe
    <3>2. AfterSave(req[w]) \notin Stamping /\ req[w].pc \notin Stamping
      BY <2>1 DEF AfterSave, Stamping, At
    <3> QED
      BY <2>1, <3>1, <3>2, GotoPlain
  <2> QED
    BY <2>2, <2>3
<1>3. CASE StartedCount(w)
  BY <1>3, DonePlain DEF StartedCount, StampsStart, db
<1>4. CASE CompletedCount(w)
  BY <1>4, DonePlain DEF CompletedCount, StampsEnd, db
<1>5. CASE CancelOthers(w) \/ CancelRun(w)
  BY <1>5, DonePlain DEF CancelOthers, CancelRun
<1> QED
  BY <1>1, <1>2, <1>3, <1>4, <1>5 DEF Handle

\* Every step is of one of these kinds.
LEMMA StepKinds ==
    ASSUME Kept, Types, Safe, [Next]_vars
    PROVE  Plain \/ \E w \in Workers : StampsStart(w) \/ StampsEnd(w) \/ SaveSnapshot(w)
<1>1. ASSUME NEW w \in Workers, Die(w) PROVE Plain
  BY <1>1, DonePlain DEF Die, db
<1>2. CASE Tick \/ UNCHANGED vars
  BY <1>2 DEF Tick, vars, db, Plain, At
<1> QED
  BY <1>1, <1>2, ReceivePlain, HandlePlain DEF Next

--------------------------------------------------------------------------------
(***************************************************************************)
(* A location is past when its job has completed or failed and no PUT that *)
(* is in progress will change that.  This is for ever.                     *)
(***************************************************************************)
Past(l) ==
    /\ status[l] \in {"completed", "failed"}
    /\ \A w \in Workers :
          Putting(w) /\ req[w].client = l => req[w].to \in {"completed", "failed"}

SomeonePast == \E l \in rows : Past(l)

\* No step takes it back.
LEMMA PastStays ==
    ASSUME Kept, Types, Safe, [Next]_vars, NEW l \in rows, Past(l)
    PROVE  l \in rows' /\ Past(l)'
<1> DEFINE Over == {"completed", "failed"}
<1>1. l \in Locations /\ status[l] \in Over
      /\ \A v \in Workers : Putting(v) /\ req[v].client = l => req[v].to \in Over
  BY DEF Past, Types, TypeOK
<1>2. ASSUME NEW w \in Workers, NEW k \in Locations, NEW s \in ClientStatuses, GetJob(w, k, s)
      PROVE  l \in rows' /\ Past(l)'
  <2>1. /\ req'[w].client = k /\ req'[w].to = s
        /\ \A v \in Workers : v # w => req'[v] = req[v]
        /\ UNCHANGED <<rows, status>>
    BY <1>2 DEF GetJob, Types, TypeOK, db
  <2>2. Accepts(status[k], s) /\ s \in OperatorStatuses
    BY <1>2 DEF GetJob, Kept
  <2>3. k = l => s \in Over
    BY <1>1, <2>2 DEF Accepts, Transitions, OperatorStatuses
  <2> QED
    BY <1>1, <2>1, <2>3 DEF Past, Putting
<1>3. ASSUME /\ l \in rows' /\ status'[l] \in Over
             /\ \A v \in Workers : Putting(v)' =>
                    Putting(v) /\ req'[v].client = req[v].client /\ req'[v].to = req[v].to
      PROVE  l \in rows' /\ Past(l)'
  BY <1>1, <1>3 DEF Past
<1>4. ASSUME NEW w \in Workers, Done(w)
      PROVE  \A v \in Workers : Putting(v)' =>
                Putting(v) /\ req'[v].client = req[v].client /\ req'[v].to = req[v].to
  <2>1. req'[w] = Idle /\ \A v \in Workers : v # w => req'[v] = req[v]
    BY <1>4 DEF Done, Types, TypeOK
  <2>2. req'[w].pc \notin PutLabels
    BY <2>1 DEF Idle, PutLabels
  <2> QED
    BY <2>1, <2>2 DEF Putting
<1>5. ASSUME NEW w \in Workers, NEW label, Goto(w, label), Putting(w)
      PROVE  \A v \in Workers : Putting(v)' =>
                Putting(v) /\ req'[v].client = req[v].client /\ req'[v].to = req[v].to
  <2>1. /\ req'[w].client = req[w].client /\ req'[w].to = req[w].to
        /\ \A v \in Workers : v # w => req'[v] = req[v]
    BY <1>5, GotoEffect
  <2>2. SUFFICES ASSUME NEW v \in Workers, Putting(v)'
                 PROVE  Putting(v) /\ req'[v].client = req[v].client /\ req'[v].to = req[v].to
    OBVIOUS
  <2>3. CASE v = w
    BY <1>5, <2>1, <2>3
  <2>4. CASE v # w
    <3>1. req'[v] = req[v]
      BY <2>1, <2>4
    <3> QED
      BY <2>2, <3>1 DEF Putting
  <2> QED
    BY <2>3, <2>4
<1>6. ASSUME NEW w \in Workers, ReadDraft(w) \/ ReadStatuses(w)
      PROVE  l \in rows' /\ Past(l)'
  <2>1. /\ req'[w].pc \in {"start save", "cancel run"}
        /\ \A v \in Workers : v # w => req'[v] = req[v]
        /\ UNCHANGED <<rows, status>>
    <3>1. CASE ReadDraft(w)
      BY <3>1 DEF ReadDraft, Types, TypeOK, db, Idle
    <3>2. CASE ReadStatuses(w)
      BY <3>2 DEF ReadStatuses, Types, TypeOK, db, Idle
    <3> QED
      BY <1>6, <3>1, <3>2
  <2>2. ~Putting(w)'
    BY <2>1 DEF Putting, PutLabels
  <2> QED
    BY <1>1, <1>3, <2>1, <2>2 DEF Putting
<1>7. ASSUME NEW w \in Workers, NEW k \in Locations, AddLocation(w, k)
      PROVE  l \in rows' /\ Past(l)'
  <2>1. UNCHANGED req /\ l \in rows' /\ status'[l] = status[l]
    BY <1>7 DEF AddLocation, Types, TypeOK
  <2> QED
    BY <1>1, <1>3, <2>1 DEF Putting
<1>8. ASSUME NEW w \in Workers, ReadyCount(w)
      PROVE  l \in rows' /\ Past(l)'
  <2>1. UNCHANGED <<rows, status>> /\ Goto(w, "save") /\ Putting(w)
    BY <1>8, ReadyCountSafe DEF ReadyCount, db, At, Putting, PutLabels
  <2> QED
    BY <1>1, <1>3, <1>5, <2>1
<1>9. ASSUME NEW w \in Workers, SaveJob(w)
      PROVE  l \in rows' /\ Past(l)'
  <2>1. /\ status' = [status EXCEPT ![req[w].client] = req[w].to]
        /\ rows' = rows
        /\ Done(w) \/ Goto(w, AfterSave(req[w]))
        /\ Putting(w)
    BY <1>9, SaveJobSafe DEF SaveJob, At, Putting, PutLabels
  <2>2. status'[l] \in Over
    BY <1>1, <2>1 DEF Types, TypeOK
  <2> QED
    BY <1>1, <1>3, <1>4, <1>5, <2>1, <2>2
<1>10. ASSUME NEW w \in Workers, Done(w), UNCHANGED <<rows, status>>
       PROVE  l \in rows' /\ Past(l)'
  BY <1>1, <1>3, <1>4, <1>10
<1>11. ASSUME NEW w \in Workers, StampsStart(w) \/ StampsEnd(w)
       PROVE  l \in rows' /\ Past(l)'
  <2>1. UNCHANGED <<rows, status>> /\ Putting(w)
    BY <1>11 DEF StampsStart, StampsEnd, db, At, Putting, PutLabels
  <2>2. /\ req'[w].client = req[w].client /\ req'[w].to = req[w].to
        /\ \A v \in Workers : v # w => req'[v] = req[v]
    <3>1. CASE StampsStart(w)
      BY <3>1, StampEffect DEF StampsStart
    <3>2. CASE StampsEnd(w)
      BY <3>2, StampEffect DEF StampsEnd
    <3> QED
      BY <1>11, <3>1, <3>2
  <2> QED
    BY <1>1, <1>3, <2>1, <2>2 DEF Putting
<1>12. ASSUME NEW w \in Workers, CancelOthers(w) \/ CancelRun(w)
       PROVE  l \in rows' /\ Past(l)'
  <2>1. UNCHANGED rows /\ Done(w) /\ status'[l] = status[l]
    BY <1>1, <1>12 DEF CancelOthers, CancelRun, StoppedOthers, SparedByFailure, Final
  <2> QED
    BY <1>1, <1>3, <1>4, <2>1
<1>13. CASE Tick \/ UNCHANGED vars
  BY <1>1, <1>3, <1>13 DEF Tick, vars, db, Putting
<1>14. ASSUME NEW w \in Workers, Receive(w) PROVE l \in rows' /\ Past(l)'
  BY <1>2, <1>6, <1>7, <1>14 DEF Receive, Kept
<1>15. ASSUME NEW w \in Workers, Handle(w) PROVE l \in rows' /\ Past(l)'
  <2>1. CASE StartedCount(w) \/ CompletedCount(w)
    BY <1>10, <1>11, <2>1 DEF StartedCount, CompletedCount, StampsStart, StampsEnd, db
  <2>2. CASE SaveSnapshot(w)
    BY <1>10, <2>2, SaveSnapshotSafe DEF SaveSnapshot
  <2> QED
    BY <1>8, <1>9, <1>12, <1>15, <2>1, <2>2 DEF Handle
<1>16. ASSUME NEW w \in Workers, Die(w) PROVE l \in rows' /\ Past(l)'
  BY <1>10, <1>16 DEF Die, db
<1> QED
  BY <1>13, <1>14, <1>15, <1>16 DEF Next

LEMMA SomeonePastStays ==
    ASSUME Kept, Types, Safe, [Next]_vars, SomeonePast
    PROVE  SomeonePast'
  BY PastStays DEF SomeonePast

\* While all jobs are ready nobody is past.
LEMMA NobodyPast ==
    ASSUME AllAre("ready") PROVE ~SomeonePast
  BY DEF AllAre, SomeonePast, Past

\* A new run, also once it is no draft, has no stamps.
LEMMA NewRunStamps ==
    /\ NewRun.started = Never /\ NewRun.completed = Never
    /\ [NewRun EXCEPT !.draft = FALSE].started = Never
    /\ [NewRun EXCEPT !.draft = FALSE].completed = Never
  BY DEF NewRun

--------------------------------------------------------------------------------
(***************************************************************************)
(* An end time has been computed.  Then somebody is past, so that no start *)
(* time will be counted for any more; a handler that is about to save a    *)
(* start time does not, by the whole row it read, erase an end time.  And  *)
(* a handler that read a start time read one that the run has kept, unless *)
(* the end is near.                                                        *)
(***************************************************************************)
Ended == run.completed # Never \/ \E w \in Workers : req[w].snap.completed # Never

EndKnown ==
    /\ Ended => SomeonePast
    /\ \A w \in Workers :
          /\ At(w, "started save") => ~Ended
          /\ req[w].snap.completed # Never => run.completed # Never \/ At(w, "completed save")
          /\ req[w].snap.started # Never =>
                run.started # Never \/ At(w, "started save") \/ SomeonePast

\* Each kind of step keeps it.
LEMMA PlainKeepsEndKnown ==
    ASSUME EndKnown, Plain, SomeonePast => SomeonePast'
    PROVE  EndKnown'
<1>1. run' = run
  BY DEF Plain
<1>2. ASSUME NEW v \in Workers
      PROVE  \/ /\ req'[v].snap = req[v].snap
                /\ At(v, "started save")' <=> At(v, "started save")
                /\ At(v, "completed save")' <=> At(v, "completed save")
             \/ /\ req'[v].snap.started = run.started \/ req'[v].snap.started = Never
                /\ req'[v].snap.completed = run.completed \/ req'[v].snap.completed = Never
                /\ ~At(v, "started save")'
  BY NewRunStamps DEF Plain, Stamping, At
<1>3. Ended' => Ended
  BY <1>1, <1>2 DEF Ended
<1> QED
  BY <1>1, <1>2, <1>3 DEF EndKnown

LEMMA StartKeepsEndKnown ==
    ASSUME Types, EndKnown, NEW w \in Workers, StampsStart(w)
    PROVE  EndKnown' /\ ~Ended /\ ~Ended'
<1>1. ~SomeonePast /\ run' = run
  BY NobodyPast DEF StampsStart, db
<1>2. ~Ended
  BY <1>1 DEF EndKnown
<1>3. /\ req'[w].pc = "started save"
      /\ \A v \in Workers : v # w => req'[v] = req[v]
  BY StampEffect DEF StampsStart
<1>4. req'[w].snap.completed = req[w].snap.completed
  BY StartedStamp DEF StampsStart
<1>5. ~Ended'
  BY <1>1, <1>2, <1>3, <1>4 DEF Ended
<1>6. \A v \in Workers : req'[v].snap.started # Never =>
                            run'.started # Never \/ At(v, "started save")'
  BY <1>1, <1>3 DEF EndKnown, At
<1>7. \A v \in Workers : req'[v].snap.completed = Never
  BY <1>5 DEF Ended
<1> QED
  BY <1>2, <1>5, <1>6, <1>7 DEF EndKnown

LEMMA EndKeepsEndKnown ==
    ASSUME Types, Safe, EndKnown, NEW w \in Workers, StampsEnd(w)
    PROVE  EndKnown'
<1>1. UNCHANGED <<run, rows, status>>
  BY DEF StampsEnd, db
<1>2. /\ req'[w].pc = "completed save" /\ req'[w].client = req[w].client
      /\ req'[w].to = req[w].to
      /\ \A v \in Workers : v # w => req'[v] = req[v]
  BY StampEffect DEF StampsEnd
<1>3. req[w].pc = "completed count" /\ HandlerOK(w)
  BY DEF StampsEnd, At, Safe
<1>4. req[w].client \in rows /\ req[w].to = "completed" /\ Busy(w)
  BY <1>3 DEF HandlerOK, Putting, PutLabels, Busy
<1>5. status[req[w].client] = "completed"
  BY <1>4 DEF StampsEnd, AllAre
<1>6. ASSUME NEW v \in Workers, Putting(v)', req'[v].client = req[w].client
      PROVE  req'[v].to = "completed"
  <2>1. CASE v = w
    BY <1>2, <1>4, <2>1
  <2>2. CASE v # w
    <3>1. req'[v] = req[v]
      BY <1>2, <2>2
    <3>2. Busy(v) /\ req[v].client = req[w].client
      BY <1>6, <3>1 DEF Putting, PutLabels, Busy
    <3> QED
      BY <1>4, <2>2, <3>2 DEF Safe, OneEach
  <2> QED
    BY <2>1, <2>2
<1>7. SomeonePast'
  BY <1>1, <1>4, <1>5, <1>6 DEF SomeonePast, Past
<1>8. ASSUME NEW v \in Workers PROVE ~At(v, "started save")'
  <2>1. CASE v = w
    BY <1>2, <2>1 DEF At
  <2>2. CASE v # w
    <3>1. req'[v] = req[v] /\ HandlerOK(v)
      BY <1>2, <2>2 DEF Safe
    <3>2. At(v, "started save") => /\ req[v].client \in rows
                                   /\ status[req[v].client] \in {"ready", "canceled"}
      BY <3>1 DEF HandlerOK, Putting, PutLabels, At
    <3> QED
      BY <3>1, <3>2 DEF StampsEnd, AllAre, At
  <2> QED
    BY <2>1, <2>2
<1>9. ASSUME NEW v \in Workers, req'[v].snap.completed # Never
      PROVE  run'.completed # Never \/ At(v, "completed save")'
  <2>1. CASE v = w
    BY <1>2, <2>1 DEF At
  <2>2. CASE v # w
    <3>1. req'[v] = req[v]
      BY <1>2, <2>2
    <3> QED
      BY <1>1, <1>9, <3>1 DEF EndKnown, At
  <2> QED
    BY <2>1, <2>2
<1> QED
  BY <1>7, <1>8, <1>9 DEF EndKnown

LEMMA SaveKeepsEndKnown ==
    ASSUME Types, Safe, EndKnown, NEW w \in Workers, SaveSnapshot(w),
           SomeonePast => SomeonePast'
    PROVE  EndKnown'
<1>1. /\ req[w].pc \in {"started save", "completed save", "start save"}
      /\ run' = req[w].snap /\ Done(w)
  BY SaveSnapshotSafe DEF SaveSnapshot, SaveRun, RunSaves, At
<1>2. req'[w] = Idle /\ \A v \in Workers : v # w => req'[v] = req[v]
  BY <1>1, DoneSafe
<1>3. /\ req'[w].pc = "idle" /\ req'[w].snap.started = Never
      /\ req'[w].snap.completed = Never
  BY <1>2, NewRunStamps DEF Idle
<1>4. HandlerOK(w)
  BY DEF Safe
<1>5. Ended' => Ended
  BY <1>1, <1>2, <1>3 DEF Ended
<1>6. At(w, "start save") => run.started = Never /\ run.completed = Never
  BY <1>4, NewRunStamps DEF HandlerOK, Safe, Drafting
<1>7. ASSUME NEW v \in Workers
      PROVE  /\ At(v, "started save")' => ~Ended'
             /\ req'[v].snap.completed # Never =>
                   run'.completed # Never \/ At(v, "completed save")'
             /\ req'[v].snap.started # Never =>
                   run'.started # Never \/ At(v, "started save")' \/ SomeonePast'
  <2>1. CASE v = w
    BY <1>3, <2>1 DEF At
  <2>2. CASE v # w
    <3>1. req'[v] = req[v]
      BY <1>2, <2>2
    <3>2. At(v, "started save")' => ~Ended'
      BY <1>5, <3>1 DEF EndKnown, At
    <3>3. req[v].snap.completed # Never => run'.completed # Never \/ At(v, "completed save")
      <4>1. CASE At(w, "start save")
        BY <1>6, <4>1 DEF EndKnown
      <4>2. CASE At(w, "started save")
        BY <4>2 DEF EndKnown, Ended
      <4>3. CASE At(w, "completed save")
        BY <1>1, <1>4, <4>3 DEF HandlerOK
      <4> QED
        BY <1>1, <4>1, <4>2, <4>3 DEF At
    <3>4. req[v].snap.started # Never =>
             run'.started # Never \/ At(v, "started save") \/ SomeonePast
      <4>1. CASE At(w, "start save")
        BY <1>6, <4>1 DEF EndKnown
      <4>2. CASE At(w, "started save")
        BY <1>1, <1>4, <4>2 DEF HandlerOK
      <4>3. CASE At(w, "completed save")
        BY <1>4, <4>3 DEF HandlerOK, EndKnown, Ended
      <4> QED
        BY <1>1, <4>1, <4>2, <4>3 DEF At
    <3> QED
      BY <3>1, <3>2, <3>3, <3>4 DEF At
  <2> QED
    BY <2>1, <2>2
<1> QED
  BY <1>5, <1>7 DEF EndKnown

LEMMA EndKnownStep ==
    ASSUME Kept, Types, Safe, EndKnown, [Next]_vars
    PROVE  EndKnown'
<1>1. SomeonePast => SomeonePast'
  BY SomeonePastStays
<1>2. CASE Plain
  BY <1>1, <1>2, PlainKeepsEndKnown
<1>3. ASSUME NEW w \in Workers, StampsStart(w) \/ StampsEnd(w) \/ SaveSnapshot(w)
      PROVE  EndKnown'
  BY <1>1, <1>3, StartKeepsEndKnown, EndKeepsEndKnown, SaveKeepsEndKnown
<1> QED
  BY <1>2, <1>3, StepKinds

--------------------------------------------------------------------------------
(***************************************************************************)
(* If nobody was killed, all jobs are ready and there is no start time,    *)
(* then a handler is about to count or to save it: the one that saved its  *)
(* job last.  The same for the end time.                                   *)
(***************************************************************************)
Starting(w) == req[w].pc \in {"started count", "started save"}
Ending(w) == req[w].pc \in {"completed count", "completed save"}

StartWillCome ==
    deaths = 0 /\ rows # {} /\ AllAre("ready") /\ run.started = Never =>
       \E w \in Workers : Starting(w)
EndWillCome ==
    deaths = 0 /\ rows # {} /\ AllAre("completed") /\ run.completed = Never =>
       \E w \in Workers : Ending(w)

WillCome == StartWillCome /\ EndWillCome

\* A step that changes no job and takes no handler from its stamp.
LEMMA WillComeKept ==
    ASSUME WillCome, deaths' = deaths, rows' = rows, status' = status, run' = run,
           \A v \in Workers : /\ Starting(v) => Starting(v)'
                              /\ Ending(v) => Ending(v)'
    PROVE  WillCome'
  BY DEF WillCome, StartWillCome, EndWillCome, AllAre

\* A handler that takes a request, or that is not about to write a stamp.
LEMMA WillComeBeside ==
    ASSUME WillCome, NEW w \in Workers, ~Starting(w), ~Ending(w),
           \A v \in Workers : v # w => req'[v] = req[v],
           deaths' = deaths, rows' = rows, status' = status, run' = run
    PROVE  WillCome'
<1>1. ASSUME NEW v \in Workers
      PROVE  /\ Starting(v) => Starting(v)'
             /\ Ending(v) => Ending(v)'
  <2>1. CASE v = w
    BY <2>1
  <2>2. CASE v # w
    BY <2>2 DEF Starting, Ending
  <2> QED
    BY <2>1, <2>2
<1> QED
  BY <1>1, WillComeKept

\* Each step keeps it, one lemma for each kind.
LEMMA ReceiveKeepsWillCome ==
    ASSUME Kept, Types, WillCome, NEW w \in Workers, Receive(w)
    PROVE  WillCome'
<1>1. ASSUME NEW h, req' = [req EXCEPT ![w] = h], ~Busy(w),
             deaths' = deaths, UNCHANGED <<exists, run, rows, status>>
      PROVE  WillCome'
  <2>1. \A v \in Workers : v # w => req'[v] = req[v]
    BY <1>1 DEF Types, TypeOK
  <2>2. ~Starting(w) /\ ~Ending(w)
    BY <1>1 DEF Busy, Starting, Ending
  <2> QED
    BY <1>1, <2>1, <2>2, WillComeBeside
<1>2. ASSUME NEW l \in Locations, NEW s \in ClientStatuses, GetJob(w, l, s)
      PROVE  WillCome'
  BY <1>1, <1>2 DEF GetJob, Free, db
<1>3. CASE ReadDraft(w)
  BY <1>1, <1>3 DEF ReadDraft, Free, db
<1>4. CASE ReadStatuses(w)
  BY <1>1, <1>4 DEF ReadStatuses, Free, db
<1>5. ASSUME NEW l \in Locations, AddLocation(w, l)
      PROVE  WillCome'
  <2>1. l \in rows' /\ status'[l] = "pending"
    BY <1>5 DEF AddLocation, Types, TypeOK
  <2> QED
    BY <2>1 DEF WillCome, StartWillCome, EndWillCome, AllAre
<1> QED
  BY <1>2, <1>3, <1>4, <1>5 DEF Receive, Kept

\* The save that makes the last job ready is followed by a count.
LEMMA SaveJobKeepsWillCome ==
    ASSUME Kept, Types, Safe, EndKnown, NEW w \in Workers, SaveJob(w),
           SomeonePast => SomeonePast'
    PROVE  WillCome'
<1>1. /\ req[w].pc = "save" /\ run' = run /\ rows' = rows
      /\ status' = [status EXCEPT ![req[w].client] = req[w].to]
      /\ AfterSave(req[w]) # "idle" => Goto(w, AfterSave(req[w]))
  BY SaveJobSafe DEF SaveJob, At
<1>2. req[w].client \in rows /\ req[w].client \in Locations
  BY <1>1 DEF Safe, HandlerOK, Putting, PutLabels, Types
<1>3. status'[req[w].client] = req[w].to
  BY <1>1, <1>2 DEF Types, TypeOK
<1>4. AfterSave(req[w]) # "idle" => req'[w].pc = AfterSave(req[w])
  BY <1>1, GotoEffect
<1>5. StartWillCome'
  <2>1. SUFFICES ASSUME AllAre("ready")', run.started = Never
                 PROVE  Starting(w)'
    BY <1>1 DEF StartWillCome
  <2>2. req[w].to = "ready"
    BY <1>1, <1>2, <1>3, <2>1 DEF AllAre
  <2>3. ~SomeonePast'
    BY <2>1 DEF AllAre, SomeonePast, Past
  <2>4. req[w].snap.started = Never
    BY <1>1, <2>1, <2>3 DEF EndKnown, At
  <2>5. AfterSave(req[w]) = "started count"
    BY <2>2, <2>4 DEF AfterSave
  <2> QED
    BY <1>4, <2>5 DEF Starting
<1>6. EndWillCome'
  <2>1. SUFFICES ASSUME AllAre("completed")', run.completed = Never
                 PROVE  Ending(w)'
    BY <1>1 DEF EndWillCome
  <2>2. req[w].to = "completed"
    BY <1>1, <1>2, <1>3, <2>1 DEF AllAre
  <2>3. req[w].snap.completed = Never
    BY <1>1, <2>1 DEF EndKnown, At
  <2>4. AfterSave(req[w]) = "completed count"
    BY <2>2, <2>3 DEF AfterSave
  <2> QED
    BY <1>4, <2>4 DEF Ending
<1> QED
  BY <1>5, <1>6 DEF WillCome

\* A save of a row that lacks the start time happens only when it is not due.
LEMMA SnapshotKeepsWillCome ==
    ASSUME Types, Safe, EndKnown, NEW w \in Workers, SaveSnapshot(w)
    PROVE  WillCome'
<1>1. /\ req[w].pc \in {"started save", "completed save", "start save"}
      /\ run' = req[w].snap /\ UNCHANGED <<rows, status>>
  BY SaveSnapshotSafe DEF SaveSnapshot, SaveRun, RunSaves, At
<1>2. HandlerOK(w)
  BY DEF Safe
<1>3. CASE req[w].pc = "start save"
  <2>1. \A l \in Locations : status'[l] = "pending"
    BY <1>1, <1>2, <1>3 DEF HandlerOK, Safe, Drafting, At
  <2>2. \A l \in rows' : status'[l] = "pending"
    BY <1>1, <2>1 DEF Types, TypeOK
  <2> QED
    BY <2>2 DEF WillCome, StartWillCome, EndWillCome, AllAre
<1>4. CASE req[w].pc = "started save"
  <2>1. run'.started # Never
    BY <1>1, <1>2, <1>4 DEF HandlerOK, At
  <2>2. req[w].client \in rows' /\ status'[req[w].client] # "completed"
    BY <1>1, <1>2, <1>4 DEF HandlerOK, Putting, PutLabels
  <2> QED
    BY <2>1, <2>2 DEF WillCome, StartWillCome, EndWillCome, AllAre
<1>5. CASE req[w].pc = "completed save"
  <2>1. run'.completed # Never /\ Ended
    BY <1>1, <1>2, <1>5 DEF HandlerOK, At, Ended
  <2>2. ~AllAre("ready")'
    BY <1>1, <2>1, NobodyPast DEF EndKnown, AllAre
  <2> QED
    BY <2>1, <2>2 DEF WillCome, StartWillCome, EndWillCome
<1> QED
  BY <1>1, <1>3, <1>4, <1>5

\* A count that finds all jobs ready leads to a save.
LEMMA CountKeepsWillCome ==
    ASSUME Types, WillCome, NEW w \in Workers, StartedCount(w) \/ CompletedCount(w)
    PROVE  WillCome'
<1>1. UNCHANGED <<run, rows, status, deaths>>
  BY DEF StartedCount, CompletedCount, db
<1>2. CASE StartedCount(w) /\ AllAre("ready")
  <2>a. req' = [req EXCEPT ![w].pc = "started save", ![w].snap.started = now + StartDelay]
    BY <1>2 DEF StartedCount
  <2>1. req'[w].pc = "started save" /\ \A v \in Workers : v # w => req'[v] = req[v]
    BY <2>a, StampEffect
  <2>2. req[w].pc = "started count"
    BY <1>2 DEF StartedCount, At
  <2>3. \A v \in Workers : (Starting(v) => Starting(v)') /\ (Ending(v) => Ending(v)')
    BY <2>1, <2>2 DEF Starting, Ending
  <2> QED
    BY <1>1, <2>3, WillComeKept
<1>3. CASE CompletedCount(w) /\ AllAre("completed")
  <2>a. req' = [req EXCEPT ![w].pc = "completed save", ![w].snap.completed = now]
    BY <1>3 DEF CompletedCount
  <2>1. req'[w].pc = "completed save" /\ \A v \in Workers : v # w => req'[v] = req[v]
    BY <2>a, StampEffect
  <2>2. req[w].pc = "completed count"
    BY <1>3 DEF CompletedCount, At
  <2>3. \A v \in Workers : (Starting(v) => Starting(v)') /\ (Ending(v) => Ending(v)')
    BY <2>1, <2>2 DEF Starting, Ending
  <2> QED
    BY <1>1, <2>3, WillComeKept
<1>4. CASE StartedCount(w) /\ ~AllAre("ready")
  <2>1. Done(w) /\ ~Ending(w) /\ ~AllAre("ready")'
    BY <1>1, <1>4 DEF StartedCount, At, Ending, AllAre
  <2>2. \A v \in Workers : v # w => req'[v] = req[v]
    BY <2>1 DEF Done, Types, TypeOK
  <2>3. \A v \in Workers : Ending(v) => Ending(v)'
    BY <2>1, <2>2 DEF Ending
  <2> QED
    BY <1>1, <2>1, <2>3 DEF WillCome, StartWillCome, EndWillCome, AllAre
<1>5. CASE CompletedCount(w) /\ ~AllAre("completed")
  <2>1. Done(w) /\ ~Starting(w) /\ ~AllAre("completed")'
    BY <1>1, <1>5 DEF CompletedCount, At, Starting, AllAre
  <2>2. \A v \in Workers : v # w => req'[v] = req[v]
    BY <2>1 DEF Done, Types, TypeOK
  <2>3. \A v \in Workers : Starting(v) => Starting(v)'
    BY <2>1, <2>2 DEF Starting
  <2> QED
    BY <1>1, <2>1, <2>3 DEF WillCome, StartWillCome, EndWillCome, AllAre
<1> QED
  BY <1>2, <1>3, <1>4, <1>5

\* Cancellations leave no job ready and complete none.
LEMMA CancelKeepsWillCome ==
    ASSUME Types, WillCome, NEW w \in Workers, CancelOthers(w) \/ CancelRun(w)
    PROVE  WillCome'
<1>1. /\ UNCHANGED <<run, rows, deaths>> /\ Done(w)
      /\ ~Starting(w) /\ ~Ending(w)
  BY DEF CancelOthers, CancelRun, At, Starting, Ending
<1>2. \A v \in Workers : v # w => req'[v] = req[v]
  BY <1>1 DEF Done, Types, TypeOK
<1>3. ASSUME NEW l \in rows
      PROVE  /\ status'[l] # "ready"
             /\ status'[l] = "completed" => status[l] = "completed"
  <2>1. l \in Locations
    BY DEF Types, TypeOK
  <2> QED
    BY <2>1 DEF CancelOthers, CancelRun, StoppedOthers, SparedByFailure, Final
<1>4. AllAre("completed")' => AllAre("completed")
  BY <1>1, <1>3 DEF AllAre
<1>5. rows # {} => ~AllAre("ready")'
  BY <1>1, <1>3 DEF AllAre
<1>6. \A v \in Workers : Ending(v) => Ending(v)'
  BY <1>1, <1>2 DEF Ending
<1> QED
  BY <1>1, <1>4, <1>5, <1>6 DEF WillCome, StartWillCome, EndWillCome

\* A death ends the promise; every other step keeps it.
LEMMA WillComeStep ==
    ASSUME Kept, Types, Safe, EndKnown, WillCome, [Next]_vars
    PROVE  WillCome'
<1>1. ASSUME NEW w \in Workers, Handle(w)
      PROVE  WillCome'
  <2>1. CASE ReadyCount(w)
    <3>1. /\ req[w].pc = "ready count" /\ \A v \in Workers : v # w => req'[v] = req[v]
          /\ UNCHANGED <<run, rows, status, deaths>>
      BY <2>1, ReadyCountSafe, GotoEffect DEF ReadyCount, At, db
    <3>2. ~Starting(w) /\ ~Ending(w)
      BY <3>1 DEF Starting, Ending
    <3> QED
      BY <3>1, <3>2, WillComeBeside
  <2> QED
    BY <1>1, <2>1, SomeonePastStays, SaveJobKeepsWillCome, CountKeepsWillCome,
       SnapshotKeepsWillCome, CancelKeepsWillCome DEF Handle
<1>2. ASSUME NEW w \in Workers, Die(w)
      PROVE  WillCome'
  <2>1. deaths' # 0
    BY <1>2 DEF Die, Types, TypeOK
  <2> QED
    BY <2>1 DEF WillCome, StartWillCome, EndWillCome
<1>3. CASE Tick \/ UNCHANGED vars
  BY <1>3, WillComeKept DEF Tick, vars, db, Starting, Ending
<1> QED
  BY <1>1, <1>2, <1>3, ReceiveKeepsWillCome DEF Next

--------------------------------------------------------------------------------
(***************************************************************************)
(* Start times are at most StartDelay ahead of the clock and of the end    *)
(* time.                                                                   *)
(***************************************************************************)
InTime(r, t) ==
    /\ r.started # Never => r.started <= t + StartDelay
    /\ r.started # Never /\ r.completed # Never => r.started <= r.completed + StartDelay

Timed == InTime(run, now) /\ \A w \in Workers : InTime(req[w].snap, now)

LEMMA ClockGoesOn ==
    ASSUME Types, [Next]_vars PROVE now \in Nat /\ now' \in Nat /\ now <= now'
<1>1. now' \in {now, now + 1}
  BY DEF Next, Receive, Handle, Tick, Die, vars, GetJob, ReadDraft, ReadStatuses, DeleteRun,
     AddLocation, ReadyCount, SaveJob, StartedCount, CompletedCount, SaveSnapshot,
     CancelOthers, CancelRun
<1> QED
  BY <1>1 DEF Types, TypeOK

LEMMA LaterInTime ==
    ASSUME NEW r \in Runs, NEW t \in Nat, NEW u \in Nat, t <= u, InTime(r, t)
    PROVE  InTime(r, u)
<1>1. r.started # Never => r.started \in Nat
  BY DEF Runs, Times
<1> QED
  BY <1>1, StartDelayType DEF InTime

\* No start time is computed once there is an end time.
LEMMA TimedStep ==
    ASSUME Kept, Types, Safe, EndKnown, Timed, [Next]_vars
    PROVE  Timed'
<1>1. now \in Nat /\ now' \in Nat /\ now <= now'
  BY ClockGoesOn
<1>2. run \in Runs /\ \A v \in Workers : req[v].snap \in Runs
  BY DEF Types, TypeOK, Handlers
<1>3. InTime(run, now') /\ \A v \in Workers : InTime(req[v].snap, now')
  BY <1>1, <1>2, LaterInTime DEF Timed
<1>4. InTime(NewRun, now') /\ InTime([NewRun EXCEPT !.draft = FALSE], now')
  BY NewRunStamps DEF InTime
<1>5. CASE Plain
  BY <1>3, <1>4, <1>5 DEF Plain, Timed
<1>6. ASSUME NEW w \in Workers, StampsStart(w)
      PROVE  Timed'
  <2>1. ~Ended
    BY <1>6, StartKeepsEndKnown
  <2>2. /\ req'[w].snap.started = now + StartDelay
        /\ req'[w].snap.completed = req[w].snap.completed
    BY <1>6, StartedStamp DEF StampsStart
  <2>3. \A v \in Workers : v # w => req'[v] = req[v]
    BY <1>6, StampEffect DEF StampsStart
  <2>4. InTime(req'[w].snap, now')
    <3>1. req'[w].snap.completed = Never
      BY <2>1, <2>2 DEF Ended
    <3>2. now' = now
      BY <1>6 DEF StampsStart
    <3>3. now + StartDelay <= now + StartDelay
      BY <1>1, StartDelayType
    <3> QED
      BY <2>2, <3>1, <3>2, <3>3 DEF InTime
  <2>5. run' = run
    BY <1>6 DEF StampsStart, db
  <2>6. \A v \in Workers : InTime(req'[v].snap, now')
    BY <1>3, <2>3, <2>4
  <2> QED
    BY <1>3, <2>5, <2>6 DEF Timed
<1>7. ASSUME NEW w \in Workers, StampsEnd(w)
      PROVE  Timed'
  <2>1. /\ req'[w].snap.completed = now
        /\ req'[w].snap.started = req[w].snap.started
    BY <1>7, CompletedStamp DEF StampsEnd
  <2>2. \A v \in Workers : v # w => req'[v] = req[v]
    BY <1>7, StampEffect DEF StampsEnd
  <2>3. InTime(req[w].snap, now) /\ InTime(req[w].snap, now')
    BY <1>3 DEF Timed
  <2>4. InTime(req'[w].snap, now')
    BY <2>1, <2>3 DEF InTime
  <2>5. run' = run
    BY <1>7 DEF StampsEnd, db
  <2>6. \A v \in Workers : InTime(req'[v].snap, now')
    BY <1>3, <2>2, <2>4
  <2> QED
    BY <1>3, <2>5, <2>6 DEF Timed
<1>8. ASSUME NEW w \in Workers, SaveSnapshot(w)
      PROVE  Timed'
  <2>1. run' = req[w].snap /\ Done(w)
    BY <1>8, SaveSnapshotSafe DEF SaveSnapshot, SaveRun
  <2>2. req'[w].snap = NewRun /\ \A v \in Workers : v # w => req'[v] = req[v]
    BY <2>1, DoneSafe DEF Idle
  <2>3. \A v \in Workers : InTime(req'[v].snap, now')
    BY <1>3, <1>4, <2>2
  <2> QED
    BY <1>3, <2>1, <2>3 DEF Timed
<1> QED
  BY <1>5, <1>6, <1>7, <1>8, StepKinds

--------------------------------------------------------------------------------
(***************************************************************************)
(* Once a start time has been computed, no job is behind the barrier, and  *)
(* no PUT in progress will take it back there.                             *)
(***************************************************************************)
Begun == run.started # Never \/ \E w \in Workers : req[w].snap.started # Never

Beyond ==
    /\ \A l \in rows : status[l] \notin {"pending", "queued"}
    /\ \A w \in Workers : Putting(w) => req[w].to # "queued"

BarrierKnown == Begun => Beyond

\* A start time appears when it is counted for, and then all jobs are beyond.
LEMMA BegunBefore ==
    ASSUME Kept, Types, Safe, [Next]_vars, Begun', ~Begun
    PROVE  \E w \in Workers : StampsStart(w)
<1>1. /\ run.started = Never
      /\ \A v \in Workers : req[v].snap.started = Never
  BY DEF Begun
<1>2. ~Plain
  BY <1>1, NewRunStamps DEF Begun, Plain
<1>3. ASSUME NEW w \in Workers, StampsEnd(w) PROVE FALSE
  <2>1. req'[w].snap.started = req[w].snap.started /\ run' = run
    BY <1>3, CompletedStamp DEF StampsEnd, db
  <2>2. \A v \in Workers : v # w => req'[v] = req[v]
    BY <1>3, StampEffect DEF StampsEnd
  <2> QED
    BY <1>1, <2>1, <2>2 DEF Begun
<1>4. ASSUME NEW w \in Workers, SaveSnapshot(w) PROVE FALSE
  <2>1. run' = req[w].snap /\ Done(w)
    BY <1>4, SaveSnapshotSafe DEF SaveSnapshot, SaveRun
  <2>2. req'[w].snap.started = Never /\ \A v \in Workers : v # w => req'[v] = req[v]
    BY <2>1, DoneSafe, NewRunStamps DEF Idle
  <2> QED
    BY <1>1, <2>1, <2>2 DEF Begun
<1> QED
  BY <1>2, <1>3, <1>4, StepKinds

LEMMA StartOpensBarrier ==
    ASSUME Safe, NEW w \in Workers, StampsStart(w)
    PROVE  Beyond
<1>1. \A l \in rows : status[l] = "ready"
  BY DEF StampsStart, AllAre
<1>2. ASSUME NEW v \in Workers, Putting(v) PROVE req[v].to # "queued"
  <2>1. HandlerOK(v) /\ req[v].client \in rows
    BY <1>2 DEF Safe, HandlerOK
  <2>2. status[req[v].client] = "ready"
    BY <1>1, <2>1
  <2>3. CASE req[v].pc \in BeforeSave
    BY <2>1, <2>2, <2>3 DEF HandlerOK, Accepts, Transitions
  <2>4. CASE req[v].pc \notin BeforeSave
    BY <1>2, <2>1, <2>4 DEF HandlerOK, Putting, PutLabels, BeforeSave, At
  <2> QED
    BY <2>3, <2>4
<1> QED
  BY <1>1, <1>2 DEF Beyond

\* No PUT leads back behind the barrier.
LEMMA BeyondStays ==
    ASSUME Kept, "add" \notin Requests, Types, Safe, [Next]_vars, Beyond
    PROVE  Beyond'
<1>1. ASSUME NEW w \in Workers, UNCHANGED <<rows, status>>,
             \A v \in Workers : v # w => req'[v] = req[v],
             \/ ~Putting(w)'
             \/ Putting(w) /\ req'[w].to = req[w].to
             \/ req'[w].to # "queued"
      PROVE  Beyond'
  BY <1>1 DEF Beyond, Putting
<1>2. ASSUME NEW w \in Workers, Done(w)
      PROVE  ~Putting(w)' /\ \A v \in Workers : v # w => req'[v] = req[v]
  <2>1. req'[w] = Idle /\ \A v \in Workers : v # w => req'[v] = req[v]
    BY <1>2, DoneSafe
  <2>2. req'[w].pc \notin PutLabels
    BY <2>1 DEF Idle, PutLabels
  <2> QED
    BY <2>1, <2>2 DEF Putting
<1>3. ASSUME NEW w \in Workers, Receive(w)
      PROVE  Beyond'
  <2>1. ASSUME NEW l \in Locations, NEW s \in ClientStatuses, GetJob(w, l, s)
        PROVE  Beyond'
    <3>1. /\ req'[w].to = s /\ \A v \in Workers : v # w => req'[v] = req[v]
          /\ UNCHANGED <<rows, status>>
      BY <2>1 DEF GetJob, Types, TypeOK, db
    <3>2. s # "queued"
      BY <2>1 DEF GetJob, Beyond, Accepts, Transitions
    <3> QED
      BY <1>1, <3>1, <3>2
  <2>2. CASE ReadDraft(w) \/ ReadStatuses(w)
    <3>1. req'[w].pc \in {"start save", "cancel run"}
      BY <2>2 DEF ReadDraft, ReadStatuses, Types, TypeOK, Idle
    <3>2. /\ \A v \in Workers : v # w => req'[v] = req[v]
          /\ UNCHANGED <<rows, status>>
      BY <2>2 DEF ReadDraft, ReadStatuses, Types, TypeOK, db
    <3>3. ~Putting(w)'
      BY <3>1 DEF Putting, PutLabels
    <3> QED
      BY <1>1, <3>2, <3>3
  <2> QED
    BY <1>3, <2>1, <2>2 DEF Receive, Kept
<1>4. ASSUME NEW w \in Workers, ReadyCount(w)
      PROVE  Beyond'
  <2>1. UNCHANGED <<rows, status>> /\ Goto(w, "save") /\ Putting(w)
    BY <1>4, ReadyCountSafe DEF ReadyCount, db, At, Putting, PutLabels
  <2>2. req'[w].to = req[w].to /\ \A v \in Workers : v # w => req'[v] = req[v]
    BY <2>1, GotoEffect
  <2> QED
    BY <1>1, <2>1, <2>2
<1>5. ASSUME NEW w \in Workers, SaveJob(w)
      PROVE  Beyond'
  <2>1. /\ status' = [status EXCEPT ![req[w].client] = req[w].to]
        /\ rows' = rows /\ Putting(w)
        /\ Done(w) \/ Goto(w, AfterSave(req[w]))
    BY <1>5, SaveJobSafe DEF SaveJob, At, Putting, PutLabels
  <2>2. req[w].to \notin {"pending", "queued"}
    BY <2>1 DEF Beyond, Safe, HandlerOK, OperatorStatuses
  <2>3. \A l \in rows : status'[l] \notin {"pending", "queued"}
    BY <2>1, <2>2 DEF Beyond, Types, TypeOK
  <2>4. ASSUME NEW v \in Workers, Putting(v)' PROVE Putting(v) /\ req'[v].to = req[v].to
    <3>1. CASE v = w
      BY <1>2, <2>1, <2>4, <3>1, GotoEffect
    <3>2. CASE v # w
      <4>1. req'[v] = req[v]
        BY <1>2, <2>1, <3>2, GotoEffect
      <4> QED
        BY <2>4, <4>1 DEF Putting
    <3> QED
      BY <3>1, <3>2
  <2> QED
    BY <2>1, <2>3, <2>4 DEF Beyond
<1>6. ASSUME NEW w \in Workers, StartedCount(w) \/ CompletedCount(w)
      PROVE  Beyond'
  <2>1. UNCHANGED <<rows, status>> /\ Putting(w)
    BY <1>6 DEF StartedCount, CompletedCount, db, At, Putting, PutLabels
  <2>2. CASE Done(w)
    BY <1>1, <1>2, <2>1, <2>2
  <2>3. CASE StampsStart(w) \/ StampsEnd(w)
    <3>1. /\ req'[w].to = req[w].to
          /\ \A v \in Workers : v # w => req'[v] = req[v]
      <4>1. CASE StampsStart(w)
        BY <4>1, StampEffect DEF StampsStart
      <4>2. CASE StampsEnd(w)
        BY <4>2, StampEffect DEF StampsEnd
      <4> QED
        BY <2>3, <4>1, <4>2
    <3> QED
      BY <1>1, <2>1, <3>1
  <2> QED
    BY <1>6, <2>2, <2>3 DEF StartedCount, CompletedCount, StampsStart, StampsEnd
<1>7. ASSUME NEW w \in Workers, SaveSnapshot(w)
      PROVE  Beyond'
  <2>1. Done(w) /\ UNCHANGED <<rows, status>>
    BY <1>7, SaveSnapshotSafe DEF SaveSnapshot
  <2> QED
    BY <1>1, <1>2, <2>1
<1>8. ASSUME NEW w \in Workers, CancelOthers(w) \/ CancelRun(w)
      PROVE  Beyond'
  <2>1. Done(w) /\ rows' = rows
    BY <1>8 DEF CancelOthers, CancelRun
  <2>2. \A l \in rows : status'[l] \in {status[l], "canceled"}
    BY <1>8 DEF CancelOthers, CancelRun, StoppedOthers, Types, TypeOK
  <2>3. \A v \in Workers : Putting(v)' => Putting(v) /\ req'[v].to = req[v].to
    BY <1>2, <2>1 DEF Putting
  <2> QED
    BY <2>1, <2>2, <2>3 DEF Beyond
<1>9. ASSUME NEW w \in Workers, Die(w)
      PROVE  Beyond'
  BY <1>1, <1>2, <1>9 DEF Die, db
<1>10. CASE Tick \/ UNCHANGED vars
  BY <1>10 DEF Tick, vars, db, Beyond, Putting
<1> QED
  BY <1>3, <1>4, <1>5, <1>6, <1>7, <1>8, <1>9, <1>10 DEF Next, Handle

LEMMA BarrierStep ==
    ASSUME Kept, "add" \notin Requests, Types, Safe, BarrierKnown, [Next]_vars
    PROVE  BarrierKnown'
<1>1. SUFFICES ASSUME Begun' PROVE Beyond
  BY BeyondStays DEF BarrierKnown
<1>2. CASE Begun
  BY <1>2 DEF BarrierKnown
<1>3. CASE ~Begun
  BY <1>1, <1>3, BegunBefore, StartOpensBarrier
<1> QED
  BY <1>2, <1>3

--------------------------------------------------------------------------------
Life == EndKnown /\ WillCome /\ Timed

\* The life of a run up to its end, in every reachable state.
LEMMA LifeInvariant ==
    ASSUME Kept PROVE Spec => []Life
<1>1. Init => Life
  <2> SUFFICES ASSUME Init PROVE Life
    OBVIOUS
  <2>1. /\ run.started = Never /\ run.completed = Never
        /\ \A w \in Workers : /\ req[w].snap.started = Never
                              /\ req[w].snap.completed = Never
                              /\ req[w].pc = "idle"
    BY NewRunStamps DEF Init, Idle
  <2>2. EndKnown
    BY <2>1 DEF EndKnown, Ended, At
  <2>3. \A l \in rows : status[l] = "pending"
    BY DEF Init
  <2>4. WillCome
    BY <2>3 DEF WillCome, StartWillCome, EndWillCome, AllAre
  <2>5. Timed
    BY <2>1 DEF Timed, InTime
  <2> QED
    BY <2>2, <2>4, <2>5 DEF Life
<1>2. Types /\ Safe /\ Life /\ [Next]_vars => Life'
  BY EndKnownStep, WillComeStep, TimedStep DEF Life
<1> QED
  BY <1>1, <1>2, TypesInvariant, SafeInvariant, PTL DEF Spec

(***************************************************************************)
(* Two or more locations that become ready at the same time do not leave   *)
(* the run without a start time, whatever the number of workers and of     *)
(* locations: the receiver set_test_started_at runs after the save of its  *)
(* own row.  (WebApp, signals.py)                                          *)
(***************************************************************************)
THEOREM AllReadyHasStartAlways ==
    ASSUME Kept PROVE Spec => []AllReadyHasStart
<1>1. Life => AllReadyHasStart
  BY DEF Life, WillCome, StartWillCome, AllReadyHasStart, Starting, Quiet, Busy
<1> QED
  BY <1>1, LifeInvariant, PTL

(***************************************************************************)
(* Nor do locations that complete at the same time leave it without an end *)
(* time, and a slow handler that saves the row it read before does not     *)
(* erase the end time.  (WebApp, signals.py)                               *)
(***************************************************************************)
THEOREM AllCompletedHasEndAlways ==
    ASSUME Kept PROVE Spec => []AllCompletedHasEnd
<1>1. Life => AllCompletedHasEnd
  BY DEF Life, WillCome, EndWillCome, AllCompletedHasEnd, Ending, Quiet, Busy
<1> QED
  BY <1>1, LifeInvariant, PTL

(***************************************************************************)
(* A start time is published only over jobs that are beyond the barrier,   *)
(* however late it is saved, unless a location is added to the live run.   *)
(* (WebApp, signals.py)                                                    *)
(***************************************************************************)
THEOREM StartMeansBarrierAlways ==
    ASSUME Kept, "add" \notin Requests PROVE Spec => []StartMeansBarrier
<1>1. Init => BarrierKnown
  BY NewRunStamps DEF Init, BarrierKnown, Begun, Idle
<1>2. Types /\ Safe /\ BarrierKnown /\ [Next]_vars => BarrierKnown'
  BY BarrierStep
<1>3. BarrierKnown => StartMeansBarrier
  BY DEF BarrierKnown, Begun, Beyond, StartMeansBarrier
<1> QED
  BY <1>1, <1>2, <1>3, TypesInvariant, SafeInvariant, PTL DEF Spec

(***************************************************************************)
(* The transition method ready() never finds the run ready, so the moment  *)
(* of a PUT is never published as the start time, with any number of       *)
(* workers, locations and deaths.  (WebApp, models.py)                     *)
(***************************************************************************)
THEOREM NoImmediateStartAlways ==
    ASSUME Kept PROVE Spec => []NoImmediateStart
<1>1. Safe => NoImmediateStart
  BY DEF Safe, HandlerOK, NoImmediateStart
<1> QED
  BY <1>1, SafeInvariant, PTL

--------------------------------------------------------------------------------
\* Rounding to whole minutes takes off less than one.
LEMMA MinuteOf ==
    ASSUME NEW t \in Int
    PROVE  WholeMinute(t) \in Int /\ WholeMinute(t) <= t /\ t < WholeMinute(t) + Minute
<1>1. t % Minute \in Int /\ 0 <= t % Minute /\ t % Minute < Minute
  BY ResultsAssumption
<1> QED
  BY <1>1, ResultsAssumption DEF WholeMinute

(***************************************************************************)
(* The link to the results shows the whole test, at any time of day: the   *)
(* margin has to cover the delay of the start and the rounding.  A start   *)
(* time may lie ahead of the end time, when all jobs completed without     *)
(* waiting for it, but by no more than the delay.                          *)
(* (models.py:grafana_url)                                                 *)
(***************************************************************************)
THEOREM WindowShowsTestAlways ==
    ASSUME Kept, StartDelay + Minute <= Margin, Minute <= Deadline
    PROVE  Spec => []WindowShowsTest
<1>1. Types /\ Timed => WindowShowsTest
  <2> SUFFICES ASSUME Types, Timed PROVE WindowShowsTest
    OBVIOUS
  <2> DEFINE s == run.started
             c == run.completed
  <2>1. s \in Times /\ c \in Times
    BY DEF Types, TypeOK, Runs
  <2>2. s # Never /\ c # Never => s <= c + StartDelay
    BY DEF Timed, InTime
  <2> HIDE DEF s, c
  <2>3. /\ Minute \in Nat \ {0} /\ Margin \in Nat /\ Minute <= Margin
        /\ Hour \in Nat /\ Margin <= Hour /\ Deadline \in Nat /\ StartDelay \in Nat
    BY ResultsAssumption, StartDelayType
  <2>4. /\ s # Never => From(s, c) <= s /\ s < To(s, c)
        /\ c # Never => From(s, c) <= c /\ c < To(s, c)
        /\ s # Never /\ c = Never => s + Deadline < To(s, c) + Minute
    <3>1. CASE s # Never /\ c # Never
      <4>1. s \in Nat /\ c \in Nat
        BY <2>1, <3>1 DEF Times
      <4> QED
        BY <2>2, <2>3, <3>1, <4>1, MinuteOf DEF From, To
    <3>2. CASE s # Never /\ c = Never
      <4>1. s \in Nat
        BY <2>1, <3>2 DEF Times
      <4> QED
        BY <2>3, <3>2, <4>1, MinuteOf DEF From, To
    <3>3. CASE s = Never /\ c # Never
      <4>1. c \in Nat
        BY <2>1, <3>3 DEF Times
      <4> QED
        BY <2>3, <3>3, <4>1, MinuteOf DEF From, To
    <3> QED
      BY <3>1, <3>2, <3>3
  <2> QED
    BY <2>4 DEF WindowShowsTest, s, c
<1> QED
  BY <1>1, TypesInvariant, LifeInvariant, PTL DEF Life
================================================================================
