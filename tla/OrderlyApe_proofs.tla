--------------------------- MODULE OrderlyApe_proofs ---------------------------
(***************************************************************************)
(* The whole system, for any locations and any number of faults: its type, *)
(* that what users and operators do to the web app are requests of         *)
(* JobsAPI, and with the invariants of JobsAPI the barrier in the          *)
(* clusters; then that a job which is reported completed has succeeded and *)
(* that a run shown as completed has no pods left.                         *)
(***************************************************************************)
EXTENDS OrderlyApe, JobsAPI_proofs

\* What a reconcile decides to do next is a state of a reconcile, and what it
\* decides to PUT is a status operators report.
Reports(c) == c.pc = "put" => c.want \in OperatorStatuses

LEMMA PutNextType ==
    ASSUME NEW c \in Locals, NEW s \in OperatorStatuses
    PROVE  PutNext(c, s) \in Locals /\ Reports(PutNext(c, s))
  BY DEF PutNext, Locals, Labels, OperatorStatuses, Status, Reports

LEMMA GotoType ==
    ASSUME NEW c \in Locals, NEW p \in Labels \ {"put"}
    PROVE  [c EXCEPT !.pc = p] \in Locals /\ Reports([c EXCEPT !.pc = p])
  BY DEF Locals, Labels, Reports

LEMMA RestType == Rest \in Locals /\ Reports(Rest)
  BY DEF Rest, Locals, Labels, Status, Phases, Reports

LEMMA DecideType ==
    ASSUME NEW c \in Locals
    PROVE  Decide(c) \in Locals /\ Reports(Decide(c))
<1>1. Decide(c) \in {PutNext(c, "failed"), PutNext(c, "queued"),
                     PutNext(c, "ready"), [c EXCEPT !.pc = "ignite"],
                     PutNext(c, "completed"), Rest}
  BY DEF Decide
<1>2. {"failed", "queued", "ready", "completed"} \subseteq OperatorStatuses
  BY DEF OperatorStatuses
<1>3. "ignite" \in Labels \ {"put"}
  BY DEF Labels
<1> QED
  BY <1>1, <1>2, <1>3, PutNextType, GotoType, RestType

LEMMA BranchType ==
    ASSUME NEW c \in Locals
    PROVE  Branch(c) \in Locals /\ Reports(Branch(c))
<1>1. Branch(c) \in {Rest, [c EXCEPT !.pc = "suspend"], [c EXCEPT !.pc = "create"],
                     PutNext(c, "failed"), Decide(c)}
  BY DEF Branch
<1>2. "failed" \in OperatorStatuses /\ {"suspend", "create"} \subseteq Labels \ {"put"}
  BY DEF OperatorStatuses, Labels
<1> QED
  BY <1>1, <1>2, PutNextType, GotoType, RestType, DecideType

--------------------------------------------------------------------------------
(***************************************************************************)
(* The types of the system's variables are inductive together with what is *)
(* about to be PUT.                                                        *)
(***************************************************************************)
Shape == SystemTypeOK /\ \A l \in Locations : Reports(ctl[l])

\* The locals of one reconcile change; the rest of Shape is untouched.
LEMMA CtlShape ==
    ASSUME Shape, NEW l \in Locations, NEW c \in Locals, Reports(c),
           ctl' = [ctl EXCEPT ![l] = c]
    PROVE  ctl' \in [Locations -> Locals] /\ \A k \in Locations : Reports(ctl'[k])
  BY DEF Shape, SystemTypeOK, OperatorTypeOK

\* How a reconcile ends.
LEMMA EndShape ==
    ASSUME Shape, NEW l \in Locations, End(l) \/ Retry(l)
    PROVE  /\ ctl' \in [Locations -> Locals]
           /\ \A k \in Locations : Reports(ctl'[k])
           /\ queued' \in [Locations -> BOOLEAN]
<1>1. queued' \in [Locations -> BOOLEAN]
  BY DEF End, Retry, Shape, SystemTypeOK, OperatorTypeOK
<1> QED
  BY <1>1, RestType, CtlShape DEF End, Retry

LEMMA RemoveIgniterType ==
    ASSUME SystemTypeOK, NEW l \in Locations, RemoveIgniter(l)
    PROVE  igniter' \in [Locations -> IgniterStates] /\ kjob' \in [Locations -> Phases]
  BY DEF SystemTypeOK, OperatorTypeOK, ClusterTypeOK, RemoveIgniter, SetJob,
         IgniterStates, AllPodsReady, Phases

LEMMA FaultType ==
    ASSUME faults \in 0..MaxFaults, Fault \/ UNCHANGED faults
    PROVE  faults' \in 0..MaxFaults
  BY ReconcilerAssumption DEF Fault

--------------------------------------------------------------------------------
\* Every step of a reconcile keeps the shape, one lemma for each.
LEMMA GetShape ==
    ASSUME Shape, NEW l \in Locations, Get(l)
    PROVE  Shape'
<1> DEFINE c == ReadJob(l)
<1>1. c \in Locals
  BY DEF ReadJob, Shape, SystemTypeOK, TypeOK, ClusterTypeOK, Locals, Rest, Labels, Status, All
<1>2. /\ ctl' \in [Locations -> Locals]
      /\ \A k \in Locations : Reports(ctl'[k])
  <2>1. CASE ctl' = [ctl EXCEPT ![l].pc = "delete"]
    <3>1. [ctl[l] EXCEPT !.pc = "delete"] \in Locals /\ Reports([ctl[l] EXCEPT !.pc = "delete"])
      BY DEF Shape, SystemTypeOK, OperatorTypeOK, Locals, Labels, Reports
    <3>2. ctl' = [ctl EXCEPT ![l] = [ctl[l] EXCEPT !.pc = "delete"]]
      BY <2>1 DEF Shape, SystemTypeOK, OperatorTypeOK
    <3> QED
      BY <3>1, <3>2, CtlShape
  <2>2. CASE ctl' = ctl
    BY <2>2 DEF Shape, SystemTypeOK, OperatorTypeOK
  <2>3. CASE ctl' = [ctl EXCEPT ![l] = Branch(c)]
    <3> HIDE DEF c
    <3> QED
      BY <1>1, <2>3, BranchType, CtlShape
  <2> QED
    BY <2>1, <2>2, <2>3 DEF Get
<1>3. igniter' \in [Locations -> IgniterStates] /\ kjob' \in [Locations -> Phases]
  BY RemoveIgniterType DEF Get, Shape, SystemTypeOK, OperatorTypeOK, ClusterTypeOK
<1>4. queued' \in [Locations -> BOOLEAN]
  BY DEF Get, Shape, SystemTypeOK, OperatorTypeOK
<1>5. UNCHANGED <<api, cache, secret, due, faults>>
  BY DEF Get
<1> QED
  BY <1>2, <1>3, <1>4, <1>5
  DEF Shape, SystemTypeOK, OperatorTypeOK, ClusterTypeOK, TypeOK, api, vars

LEMMA DeleteJobShape ==
    ASSUME Shape, NEW l \in Locations, DeleteJob(l)
    PROVE  Shape'
<1>1. /\ ctl' \in [Locations -> Locals]
      /\ \A k \in Locations : Reports(ctl'[k])
      /\ queued' \in [Locations -> BOOLEAN]
  BY EndShape DEF DeleteJob
<1>2. kjob' \in [Locations -> Phases] /\ secret' \in [Locations -> BOOLEAN]
  BY DEF DeleteJob, SetJob, Shape, SystemTypeOK, ClusterTypeOK, Phases
<1>3. faults' \in 0..MaxFaults
  BY FaultType DEF DeleteJob, Shape, SystemTypeOK, OperatorTypeOK
<1>4. UNCHANGED <<api, cache, igniter, due>>
  BY DEF DeleteJob
<1> QED
  BY <1>1, <1>2, <1>3, <1>4
  DEF Shape, SystemTypeOK, OperatorTypeOK, ClusterTypeOK, TypeOK, api, vars

LEMMA SuspendShape ==
    ASSUME Shape, NEW l \in Locations, Suspend(l)
    PROVE  Shape'
<1>1. /\ ctl' \in [Locations -> Locals]
      /\ \A k \in Locations : Reports(ctl'[k])
      /\ queued' \in [Locations -> BOOLEAN]
  BY EndShape DEF Suspend
<1>2. igniter' \in [Locations -> IgniterStates] /\ kjob' \in [Locations -> Phases]
  <2>1. CASE ctl[l].obj = kjob[l]
    BY <2>1 DEF Suspend, SetJob, Shape, SystemTypeOK, OperatorTypeOK, ClusterTypeOK,
                IgniterStates, Phases
  <2>2. CASE ctl[l].obj # kjob[l]
    BY <2>2, RemoveIgniterType DEF Suspend, Shape
  <2> QED
    BY <2>1, <2>2
<1>3. UNCHANGED <<api, cache, secret, due, faults>>
  BY DEF Suspend
<1> QED
  BY <1>1, <1>2, <1>3
  DEF Shape, SystemTypeOK, OperatorTypeOK, ClusterTypeOK, TypeOK, api, vars

LEMMA CreateJobShape ==
    ASSUME Shape, NEW l \in Locations, CreateJob(l)
    PROVE  Shape'
<1>1. ctl[l] \in Locals /\ ctl \in [Locations -> Locals]
  BY DEF Shape, SystemTypeOK, OperatorTypeOK
<1>2. /\ ctl' \in [Locations -> Locals]
      /\ \A k \in Locations : Reports(ctl'[k])
  <2>1. CASE ctl' = [ctl EXCEPT ![l].pc = "sync", ![l].obj = NewJob(l)]
    <3> DEFINE c == [ctl[l] EXCEPT !.pc = "sync", !.obj = NewJob(l)]
    <3>1. c \in Locals /\ Reports(c)
      BY <1>1 DEF Locals, Labels, Phases, NewJob, Reports
    <3>2. ctl' = [ctl EXCEPT ![l] = c]
      BY <1>1, <2>1 DEF Locals
    <3> HIDE DEF c
    <3> QED
      BY <3>1, <3>2, CtlShape
  <2>2. CASE ctl' = [ctl EXCEPT ![l] = PutNext(ctl[l], "failed")]
    <3>1. "failed" \in OperatorStatuses
      BY DEF OperatorStatuses
    <3> QED
      BY <1>1, <2>2, <3>1, PutNextType, CtlShape
  <2> QED
    BY <2>1, <2>2 DEF CreateJob
<1>3. kjob' \in [Locations -> Phases]
  BY DEF CreateJob, SetJob, NewJob, Shape, SystemTypeOK, ClusterTypeOK, Phases
<1>4. faults' \in 0..MaxFaults
  BY FaultType DEF CreateJob, Shape, SystemTypeOK, OperatorTypeOK
<1>5. UNCHANGED <<api, cache, secret, igniter, queued, due>>
  BY DEF CreateJob
<1> QED
  BY <1>2, <1>3, <1>4, <1>5
  DEF Shape, SystemTypeOK, OperatorTypeOK, ClusterTypeOK, TypeOK, api, vars

LEMMA SyncShape ==
    ASSUME Shape, NEW l \in Locations, SyncJobObjects(l)
    PROVE  Shape'
<1>1. ctl[l] \in Locals
  BY DEF Shape, SystemTypeOK, OperatorTypeOK
<1>2. /\ ctl' \in [Locations -> Locals]
      /\ \A k \in Locations : Reports(ctl'[k])
      /\ queued' \in [Locations -> BOOLEAN]
  <2>1. CASE ctl' = [ctl EXCEPT ![l] = Decide(ctl[l])] /\ UNCHANGED queued
    BY <1>1, <2>1, DecideType, CtlShape DEF Shape, SystemTypeOK, OperatorTypeOK
  <2>2. CASE Retry(l)
    BY <2>2, EndShape
  <2> QED
    BY <2>1, <2>2 DEF SyncJobObjects
<1>3. secret' \in [Locations -> BOOLEAN]
  BY DEF SyncJobObjects, Shape, SystemTypeOK, ClusterTypeOK
<1>4. faults' \in 0..MaxFaults
  BY FaultType DEF SyncJobObjects, Shape, SystemTypeOK, OperatorTypeOK
<1>5. UNCHANGED <<api, kjob, cache, igniter, due>>
  BY DEF SyncJobObjects
<1> QED
  BY <1>2, <1>3, <1>4, <1>5
  DEF Shape, SystemTypeOK, OperatorTypeOK, ClusterTypeOK, TypeOK, api, vars

\* A PUT that is carried out is a request of the promise.
LEMMA PutIsOperators ==
    ASSUME Shape, NEW l \in Locations, PutJob(l)
    PROVE  /\ ctl[l].want \in OperatorStatuses
           /\ Put(l, ctl[l].want) \/ UNCHANGED api
  BY DEF PutJob, At, Shape, Reports

LEMMA AnsweredShape ==
    ASSUME Shape, NEW l \in Locations, ctl[l].want \in OperatorStatuses,
           started' \in BOOLEAN, Answered(l)
    PROVE  ctl' \in [Locations -> Locals] /\ \A k \in Locations : Reports(ctl'[k])
<1> DEFINE c == [ctl[l] EXCEPT !.status = ctl[l].want, !.start = started',
                              !.ready = \A k \in rows : status'[k] = "ready"]
<1>1. c \in Locals
  BY DEF Shape, SystemTypeOK, OperatorTypeOK, Locals, Status, OperatorStatuses
<1>2. [c EXCEPT !.pc = "check igniter"] \in Locals
      /\ Reports([c EXCEPT !.pc = "check igniter"])
  <2> HIDE DEF c
  <2>1. "check igniter" \in Labels \ {"put"}
    BY DEF Labels
  <2> QED
    BY <1>1, <2>1, GotoType
<1>3. \/ ctl' = [ctl EXCEPT ![l] = Rest]
      \/ ctl' = [ctl EXCEPT ![l] = [c EXCEPT !.pc = "check igniter"]]
      \/ ctl' = [ctl EXCEPT ![l] = Decide(c)]
  BY DEF Answered
<1> HIDE DEF c
<1> QED
  BY <1>1, <1>2, <1>3, RestType, DecideType, CtlShape

LEMMA UnansweredShape ==
    ASSUME Shape, NEW l \in Locations, Unanswered(l)
    PROVE  /\ ctl' \in [Locations -> Locals]
           /\ \A k \in Locations : Reports(ctl'[k])
           /\ queued' \in [Locations -> BOOLEAN]
<1>1. CASE ctl[l].want = "running"
  <2> DEFINE c == [ctl[l] EXCEPT !.pc = "check igniter", !.status = "running"]
  <2>1. c \in Locals /\ Reports(c)
    BY DEF Shape, SystemTypeOK, OperatorTypeOK, Locals, Labels, Status, Reports
  <2>2. ctl' = [ctl EXCEPT ![l] = c] /\ UNCHANGED queued
    BY <1>1 DEF Unanswered, Shape, SystemTypeOK, OperatorTypeOK, Locals
  <2> HIDE DEF c
  <2> QED
    BY <2>1, <2>2, CtlShape DEF Shape, SystemTypeOK, OperatorTypeOK
<1>2. CASE ctl[l].want # "running"
  BY <1>2, EndShape DEF Unanswered
<1> QED
  BY <1>1, <1>2

LEMMA PutJobShape ==
    ASSUME Shape, NEW l \in Locations, PutJob(l)
    PROVE  Shape'
<1>1. TypeOK'
  <2>1. OperatorStatuses \subseteq Status
    BY DEF OperatorStatuses, Status
  <2> QED
    BY <2>1, PutIsOperators, StepType DEF Shape, SystemTypeOK, api
<1>2. /\ ctl' \in [Locations -> Locals]
      /\ \A k \in Locations : Reports(ctl'[k])
      /\ queued' \in [Locations -> BOOLEAN]
  <2>1. CASE Answered(l) /\ UNCHANGED queued
    BY <1>1, <2>1, PutIsOperators, AnsweredShape
    DEF TypeOK, Shape, SystemTypeOK, OperatorTypeOK
  <2>2. CASE Unanswered(l)
    BY <2>2, UnansweredShape
  <2> QED
    BY <2>1, <2>2 DEF PutJob
<1>3. faults' \in 0..MaxFaults
  BY FaultType DEF PutJob, Shape, SystemTypeOK, OperatorTypeOK
<1>4. UNCHANGED <<cluster, igniter, due>>
  BY DEF PutJob
<1> QED
  BY <1>1, <1>2, <1>3, <1>4
  DEF Shape, SystemTypeOK, OperatorTypeOK, ClusterTypeOK, cluster

LEMMA IgniteShape ==
    ASSUME Shape, NEW l \in Locations, Ignite(l)
    PROVE  Shape'
<1>1. igniter' \in [Locations -> IgniterStates]
      /\ \/ (End(l) \/ Retry(l))
         \/ /\ UNCHANGED queued
            /\ \E s \in {"failed", "running"} :
                  ctl' = [ctl EXCEPT ![l] = PutNext(ctl[l], s)]
  <2>1. igniter[l] \in IgniterStates
    BY DEF Shape, SystemTypeOK, OperatorTypeOK
  <2>2. CASE igniter[l] = "none"
    BY <2>2 DEF Ignite, Shape, SystemTypeOK, OperatorTypeOK, IgniterStates
  <2>3. CASE igniter[l] = "waiting"
    BY <2>3 DEF Ignite, Shape, SystemTypeOK, OperatorTypeOK
  <2>4. CASE igniter[l] \in {"lit", "ok", "failed"}
    BY <2>4 DEF Ignite, Shape, SystemTypeOK, OperatorTypeOK
  <2> QED
    BY <2>1, <2>2, <2>3, <2>4 DEF IgniterStates
<1>2. /\ ctl' \in [Locations -> Locals]
      /\ \A k \in Locations : Reports(ctl'[k])
      /\ queued' \in [Locations -> BOOLEAN]
  <2>1. {"failed", "running"} \subseteq OperatorStatuses
    BY DEF OperatorStatuses
  <2> QED
    BY <1>1, <2>1, EndShape, PutNextType, CtlShape
    DEF Shape, SystemTypeOK, OperatorTypeOK
<1>3. UNCHANGED <<api, cluster, due, faults>>
  BY DEF Ignite
<1> QED
  BY <1>1, <1>2, <1>3
  DEF Shape, SystemTypeOK, OperatorTypeOK, ClusterTypeOK, TypeOK, api, vars, cluster

LEMMA CheckIgniterShape ==
    ASSUME Shape, NEW l \in Locations, CheckIgniter(l)
    PROVE  Shape'
<1>1. ctl' \in [Locations -> Locals] /\ \A k \in Locations : Reports(ctl'[k])
  <2>1. ctl[l] \in Locals /\ "failed" \in OperatorStatuses
    BY DEF Shape, SystemTypeOK, OperatorTypeOK, OperatorStatuses
  <2> QED
    BY <2>1, PutNextType, DecideType, CtlShape DEF CheckIgniter
<1>2. UNCHANGED <<api, cluster, igniter, queued, due, faults>>
  BY DEF CheckIgniter
<1> QED
  BY <1>1, <1>2
  DEF Shape, SystemTypeOK, OperatorTypeOK, ClusterTypeOK, TypeOK, api, vars, cluster

LEMMA ReconcileShape ==
    ASSUME Shape, NEW l \in Locations, Reconcile(l)
    PROVE  Shape'
  BY GetShape, DeleteJobShape, SuspendShape, CreateJobShape, SyncShape, PutJobShape,
     IgniteShape, CheckIgniterShape DEF Reconcile

--------------------------------------------------------------------------------
\* So do the steps of the igniter, the cluster, the queue and the users.
LEMMA IgniterShape ==
    ASSUME Shape, NEW l \in Locations, IgniterStep(l)
    PROVE  Shape'
<1>1. igniter' \in [Locations -> IgniterStates] /\ kjob' \in [Locations -> Phases]
  BY DEF IgniterStep, LightUp, PodsResumed, PatchFails, SetJob, Phases, cluster,
         IgniterStates, Shape, SystemTypeOK, OperatorTypeOK, ClusterTypeOK
<1>2. faults' \in 0..MaxFaults
  BY FaultType
  DEF IgniterStep, LightUp, PodsResumed, PatchFails, Shape, SystemTypeOK, OperatorTypeOK
<1>3. UNCHANGED <<api, cache, secret, ctl, queued, due>>
  BY DEF IgniterStep, LightUp, PodsResumed, PatchFails, cluster
<1> QED
  BY <1>1, <1>2, <1>3
  DEF Shape, SystemTypeOK, OperatorTypeOK, ClusterTypeOK, TypeOK, api, vars

LEMMA ClusterShape ==
    ASSUME Shape, NEW l \in Locations, ClusterStep(l)
    PROVE  Shape'
<1>1. kjob' \in [Locations -> Phases] /\ secret' \in [Locations -> BOOLEAN]
  BY DEF ClusterStep, PodsStart, PodsReady, PodsEnd, PodsSucceed, JobWithoutPods, NothingToRun,
         DeadlinePasses, PodsFail,
         JobFails, JobGoes, JobExpires, SetJob, Phases, Shape, SystemTypeOK, ClusterTypeOK
<1>2. UNCHANGED <<api, cache, operator, due>>
  BY DEF ClusterStep, PodsStart, PodsReady, PodsEnd, PodsSucceed, JobWithoutPods, NothingToRun,
         DeadlinePasses, PodsFail,
         JobFails, JobGoes, JobExpires, OnlyCluster
<1>3. faults' \in 0..MaxFaults
  BY FaultType DEF ClusterStep, PodsStart, PodsEnd, JobWithoutPods, DeadlinePasses, PodsFail, JobGoes,
                   OnlyCluster, Shape, SystemTypeOK, OperatorTypeOK
<1> QED
  BY <1>1, <1>2, <1>3
  DEF operator, Shape, SystemTypeOK, OperatorTypeOK, ClusterTypeOK,
      TypeOK, api, vars

LEMMA QueueShape ==
    ASSUME Shape, NEW l \in Locations, Poll(l) \/ JobEvent(l) \/ Resync(l)
    PROVE  Shape'
<1>1. queued' \in [Locations -> BOOLEAN] /\ cache' \in [Locations -> Phases]
  BY DEF Poll, JobEvent, Informed, Resync, Enqueue, cluster, Shape, SystemTypeOK,
         OperatorTypeOK, ClusterTypeOK
<1>2. UNCHANGED <<api, kjob, secret, ctl, igniter, due, faults>>
  BY DEF Poll, JobEvent, Informed, Resync, cluster
<1> QED
  BY <1>1, <1>2
  DEF Shape, SystemTypeOK, OperatorTypeOK, ClusterTypeOK, TypeOK, api, vars

LEMMA RestartShape ==
    ASSUME Shape, NEW l \in Locations, Restart(l)
    PROVE  Shape'
<1>1. /\ ctl' \in [Locations -> Locals]
      /\ \A k \in Locations : Reports(ctl'[k])
  BY RestType, CtlShape DEF Restart
<1>2. igniter' \in [Locations -> IgniterStates] /\ kjob' \in [Locations -> Phases]
  BY RemoveIgniterType DEF Restart, Shape
<1>3. cache' \in [Locations -> Phases] /\ queued' \in [Locations -> BOOLEAN]
  BY <1>2 DEF Restart, Shape, SystemTypeOK, OperatorTypeOK, ClusterTypeOK
<1>4. faults' \in 0..MaxFaults
  BY FaultType DEF Restart, Shape, SystemTypeOK, OperatorTypeOK
<1>5. UNCHANGED <<api, secret, due>>
  BY DEF Restart
<1> QED
  BY <1>1, <1>2, <1>3, <1>4, <1>5
  DEF Shape, SystemTypeOK, OperatorTypeOK, ClusterTypeOK, TypeOK, api, vars

LEMMA UserShape ==
    ASSUME Shape, UserStep
    PROVE  Shape'
<1>1. TypeOK'
  BY StepType DEF UserStep, Shape, SystemTypeOK
<1>2. UNCHANGED <<cluster, operator, due, faults>>
  BY DEF UserStep
<1> QED
  BY <1>1, <1>2
  DEF Shape, SystemTypeOK, OperatorTypeOK, ClusterTypeOK, cluster, operator

LEMMA ShapeInvariant == System => []Shape
<1>1. SystemInit => Shape
  <2> SUFFICES ASSUME SystemInit PROVE Shape
    OBVIOUS
  <2>1. TypeOK /\ ClusterTypeOK
    BY DEF SystemInit, Init, ClusterInit, TypeOK, ClusterTypeOK, Status, Phases
  <2>2. ctl \in [Locations -> Locals] /\ \A l \in Locations : Reports(ctl[l])
    BY RestType DEF SystemInit, OperatorInit
  <2>3. igniter \in [Locations -> IgniterStates]
    BY DEF SystemInit, OperatorInit, IgniterStates
  <2>4. queued \in [Locations -> BOOLEAN] /\ due \in BOOLEAN
    BY DEF SystemInit, OperatorInit
  <2>5. faults \in 0..MaxFaults
    BY ReconcilerAssumption DEF SystemInit, OperatorInit
  <2> QED
    BY <2>1, <2>2, <2>3, <2>4, <2>5 DEF Shape, SystemTypeOK, OperatorTypeOK
<1>2. Shape /\ [SystemNext]_system => Shape'
  <2> SUFFICES ASSUME Shape, [SystemNext]_system PROVE Shape'
    OBVIOUS
  <2>1. CASE UserStep
    BY <2>1, UserShape
  <2>2. CASE StartTimePasses
    BY <2>2 DEF StartTimePasses, Shape, SystemTypeOK, OperatorTypeOK, ClusterTypeOK,
                TypeOK, api, vars, cluster, operator
  <2>3. ASSUME NEW l \in Locations,
               \/ Reconcile(l)
               \/ IgniterStep(l)
               \/ ClusterStep(l)
               \/ Poll(l)
               \/ JobEvent(l)
               \/ Resync(l)
               \/ Restart(l)
        PROVE  Shape'
    BY <2>3, ReconcileShape, IgniterShape, ClusterShape, QueueShape, RestartShape
  <2>4. CASE UNCHANGED system
    BY <2>4 DEF system, Shape, SystemTypeOK, OperatorTypeOK, ClusterTypeOK, TypeOK,
                api, vars, cluster, operator
  <2> QED
    BY <2>1, <2>2, <2>3, <2>4 DEF SystemNext
<1> QED
  BY <1>1, <1>2, PTL DEF System

(***************************************************************************)
(* Every variable of the system has its type: a reconcile that is resumed  *)
(* after any of its writes has a next step and a status to report.         *)
(***************************************************************************)
THEOREM SystemTypeCorrect == System => []SystemTypeOK
<1>1. Shape => SystemTypeOK
  BY DEF Shape
<1> QED
  BY <1>1, ShapeInvariant, PTL

--------------------------------------------------------------------------------
(***************************************************************************)
(* The operators only send what JobsAPI allows for.                        *)
(***************************************************************************)
Complete == Regular /\ OperatorStatuses \subseteq ClientStatuses

(***************************************************************************)
(* The web app, as users and operators work with it, keeps its promise:    *)
(* every step of the system is a request of JobsAPI or does not touch it.  *)
(* What JobsAPI guarantees therefore holds for the system.                 *)
(***************************************************************************)
THEOREM SystemImplementsAPI ==
    ASSUME Complete PROVE System => Spec
<1>1. SystemInit => Init
  BY DEF SystemInit
<1>2. Shape /\ [SystemNext]_system => [Next]_vars
  <2> SUFFICES ASSUME Shape, [SystemNext]_system PROVE [Next]_vars
    OBVIOUS
  <2>1. CASE UserStep
    BY <2>1 DEF UserStep, Next
  <2>2. CASE StartTimePasses
    BY <2>2 DEF StartTimePasses, api
  <2>3. ASSUME NEW l \in Locations, Reconcile(l) PROVE [Next]_vars
    <3>1. CASE PutJob(l)
      BY <3>1, PutIsOperators DEF Complete, Next, api
    <3>2. CASE ~PutJob(l)
      BY <2>3, <3>2 DEF Reconcile, Get, DeleteJob, Suspend, CreateJob, SyncJobObjects,
                        Ignite, CheckIgniter, api
    <3> QED
      BY <3>1, <3>2
  <2>4. ASSUME NEW l \in Locations, IgniterStep(l) PROVE [Next]_vars
    BY <2>4 DEF IgniterStep, LightUp, PodsResumed, PatchFails, api
  <2>5. ASSUME NEW l \in Locations,
               ClusterStep(l)
        PROVE  [Next]_vars
    BY <2>5 DEF ClusterStep, PodsStart, PodsEnd, JobWithoutPods, DeadlinePasses, PodsFail, JobGoes, OnlyCluster, api
  <2>6. ASSUME NEW l \in Locations,
               Poll(l) \/ JobEvent(l) \/ Resync(l) \/ Restart(l)
        PROVE  [Next]_vars
    BY <2>6 DEF Poll, JobEvent, Resync, Restart, api
  <2>7. CASE UNCHANGED system
    BY <2>7 DEF system, api
  <2> QED
    BY <2>1, <2>2, <2>3, <2>4, <2>5, <2>6, <2>7 DEF SystemNext
<1> QED
  BY <1>1, <1>2, ShapeInvariant, PTL DEF System, Spec

(***************************************************************************)
(* An operator knows of a start time, has an igniter or has resumed pods   *)
(* only when the start time is set.                                        *)
(***************************************************************************)
StartKnown ==
    \A l \in Locations :
        ctl[l].start \/ igniter[l] # "none" \/ kjob[l] \in Loading => started

\* A start time is never taken back.
LEMMA StartStays == TypeOK /\ [Next]_vars /\ started => started'
  BY DEF Next, Put, Start, Cancel, Delete, Add, vars

\* A reconcile learns of a start time from the web app only.
LEMMA BranchStart ==
    ASSUME NEW c \in Locals
    PROVE  /\ Decide(c) \in Locals /\ Branch(c) \in Locals
           /\ Decide(c).start => c.start
           /\ Branch(c).start => c.start
<1>1. Decide(c).start => c.start
  <2>1. Decide(c) \in {PutNext(c, "failed"), PutNext(c, "queued"),
                       PutNext(c, "ready"), [c EXCEPT !.pc = "ignite"],
                       PutNext(c, "completed"), Rest}
    BY DEF Decide
  <2>2. \A s : PutNext(c, s).start = c.start
    BY DEF PutNext, Locals
  <2>3. [c EXCEPT !.pc = "ignite"].start = c.start /\ Rest.start = FALSE
    BY DEF Rest, Locals
  <2> QED
    BY <2>1, <2>2, <2>3
<1>2. Branch(c) \in {Rest, [c EXCEPT !.pc = "suspend"], [c EXCEPT !.pc = "create"],
                     PutNext(c, "failed"), Decide(c)}
  BY DEF Branch
<1>3. /\ [c EXCEPT !.pc = "suspend"].start = c.start
      /\ [c EXCEPT !.pc = "create"].start = c.start
      /\ PutNext(c, "failed").start = c.start
      /\ Rest.start = FALSE
  BY DEF Rest, PutNext, Locals
<1> QED
  BY <1>1, <1>2, <1>3, DecideType, BranchType

\* Removing an igniter resumes pods only if it was lit.
LEMMA RemoveIgniterKnown ==
    ASSUME Shape, StartKnown, NEW l \in Locations, RemoveIgniter(l)
    PROVE  \A k \in Locations :
              igniter'[k] # "none" \/ kjob'[k] \in Loading => started
<1>1. \A k \in Locations : igniter'[k] # "none" => igniter[k] # "none"
  BY DEF RemoveIgniter, Shape, SystemTypeOK, OperatorTypeOK
<1>2. \A k \in Locations : kjob'[k] \in Loading => kjob[k] \in Loading \/ started
  BY DEF RemoveIgniter, SetJob, StartKnown, Shape, SystemTypeOK, ClusterTypeOK,
         OperatorTypeOK, IgniterStates
<1> QED
  BY <1>1, <1>2 DEF StartKnown

LEMMA ReconcileKnown ==
    ASSUME Shape, StartKnown, started => started', NEW l \in Locations, Reconcile(l)
    PROVE  StartKnown'
<1> USE DEF Shape, SystemTypeOK, OperatorTypeOK, ClusterTypeOK
<1>1. CASE Get(l)
  <2> DEFINE c == ReadJob(l)
  <2>1. c \in Locals /\ c.start = started
    BY DEF ReadJob, TypeOK, Locals, Rest, Labels, Status, All
  <2>2. UNCHANGED started
    BY <1>1 DEF Get, api, vars
  <2>3. \A k \in Locations : ctl'[k].start => started
    <3>1. CASE ctl' = [ctl EXCEPT ![l].pc = "delete"]
      BY <3>1 DEF StartKnown, Locals
    <3>2. CASE ctl' = ctl
      BY <3>2 DEF StartKnown
    <3>3. CASE ctl' = [ctl EXCEPT ![l] = Branch(c)]
      <4> HIDE DEF c
      <4> QED
        BY <2>1, <3>3, BranchStart DEF StartKnown
    <3> QED
      BY <1>1, <3>1, <3>2, <3>3 DEF Get
  <2>4. \A k \in Locations : igniter'[k] # "none" \/ kjob'[k] \in Loading => started
    <3>1. CASE RemoveIgniter(l)
      BY <3>1, RemoveIgniterKnown
    <3>2. CASE UNCHANGED <<kjob, igniter>>
      BY <3>2 DEF StartKnown
    <3> QED
      BY <1>1, <3>1, <3>2 DEF Get
  <2> QED
    BY <2>2, <2>3, <2>4 DEF StartKnown
<1>2. CASE DeleteJob(l)
  BY <1>2 DEF DeleteJob, End, Retry, Rest, SetJob, Loading, StartKnown, api, vars
<1>3. CASE Suspend(l)
  <2>1. UNCHANGED started /\ \A k \in Locations : ctl'[k].start => started
    BY <1>3 DEF Suspend, End, Retry, Rest, StartKnown, api, vars
  <2>2. \A k \in Locations : igniter'[k] # "none" \/ kjob'[k] \in Loading => started
    <3>1. CASE RemoveIgniter(l)
      BY <3>1, RemoveIgniterKnown
    <3>2. CASE SetJob(l, "suspended") /\ igniter' = [igniter EXCEPT ![l] = "none"]
      BY <3>2 DEF SetJob, Loading, StartKnown
    <3> QED
      BY <1>3, <3>1, <3>2 DEF Suspend
  <2> QED
    BY <2>1, <2>2 DEF StartKnown
<1>4. CASE CreateJob(l)
  <2>1. UNCHANGED <<started, igniter>>
    BY <1>4 DEF CreateJob, api, vars
  <2>2. \A k \in Locations : kjob'[k] \in Loading => started
    BY <1>4 DEF CreateJob, SetJob, NewJob, Loading, StartKnown
  <2>3. \A k \in Locations : ctl'[k].start = ctl[k].start
    <3>1. CASE ctl' = [ctl EXCEPT ![l].pc = "sync", ![l].obj = NewJob(l)]
      BY <3>1 DEF Locals
    <3>2. CASE ctl' = [ctl EXCEPT ![l] = PutNext(ctl[l], "failed")]
      BY <3>2 DEF PutNext, Locals
    <3> QED
      BY <1>4, <3>1, <3>2 DEF CreateJob
  <2> QED
    BY <2>1, <2>2, <2>3 DEF StartKnown
<1>5. CASE SyncJobObjects(l)
  <2>1. UNCHANGED <<started, igniter, kjob>>
    BY <1>5 DEF SyncJobObjects, api, vars
  <2>2. \A k \in Locations : ctl'[k].start => started
    BY <1>5, BranchStart DEF SyncJobObjects, Retry, Rest, StartKnown
  <2> QED
    BY <2>1, <2>2 DEF StartKnown
<1>6. CASE PutJob(l)
  <2>1. UNCHANGED <<igniter, kjob>>
    BY <1>6 DEF PutJob, cluster
  <2>2. CASE Answered(l)
    <3> DEFINE c == [ctl[l] EXCEPT !.status = ctl[l].want, !.start = started',
                                  !.ready = \A k \in rows : status'[k] = "ready"]
    <3>1. started' \in BOOLEAN
      BY <1>6, PutJobShape DEF TypeOK
    <3>2. c \in Locals /\ c.start = started'
      BY <1>6, <3>1, PutIsOperators DEF Locals, Status, OperatorStatuses
    <3>3. \/ ctl' = [ctl EXCEPT ![l] = Rest]
          \/ ctl' = [ctl EXCEPT ![l] = [c EXCEPT !.pc = "check igniter"]]
          \/ ctl' = [ctl EXCEPT ![l] = Decide(c)]
      BY <2>2 DEF Answered
    <3>4. [c EXCEPT !.pc = "check igniter"].start = started' /\ Rest.start = FALSE
      BY <3>2 DEF Locals, Rest
    <3> HIDE DEF c
    <3>5. \A k \in Locations : ctl'[k].start => started'
      BY <3>2, <3>3, <3>4, BranchStart DEF StartKnown
    <3> QED
      BY <2>1, <3>5 DEF StartKnown
  <2>3. CASE Unanswered(l)
    <3>1. CASE ctl' = [ctl EXCEPT ![l] = Rest]
      BY <2>1, <3>1 DEF Rest, StartKnown
    <3>2. CASE ctl' = [ctl EXCEPT ![l].pc = "check igniter", ![l].status = "running"]
      <4>1. \A k \in Locations : ctl'[k].start = ctl[k].start
        BY <3>2 DEF Locals
      <4> QED
        BY <2>1, <4>1 DEF StartKnown
    <3> QED
      BY <2>3, <3>1, <3>2 DEF Unanswered, End, Retry
  <2> QED
    BY <1>6, <2>2, <2>3 DEF PutJob
<1>7. CASE Ignite(l)
  <2>1. UNCHANGED <<started, kjob>>
    BY <1>7 DEF Ignite, api, vars, cluster
  <2>2. \A k \in Locations : ctl'[k].start => ctl[k].start
    <3>1. \A s : PutNext(ctl[l], s).start = ctl[l].start
      BY DEF PutNext, Locals
    <3>2. \/ ctl' = [ctl EXCEPT ![l] = Rest]
          \/ \E s \in {"failed", "running"} : ctl' = [ctl EXCEPT ![l] = PutNext(ctl[l], s)]
      BY <1>7 DEF Ignite, End, Retry, IgniterStates
    <3> QED
      BY <3>1, <3>2 DEF Rest
  <2>3. \A k \in Locations : igniter'[k] # "none" => igniter[k] # "none" \/ ctl[k].start
    BY <1>7 DEF Ignite, IgniterStates
  <2> QED
    BY <2>1, <2>2, <2>3 DEF StartKnown
<1>8. CASE CheckIgniter(l)
  <2>1. UNCHANGED <<started, kjob, igniter>>
    BY <1>8 DEF CheckIgniter, api, vars, cluster
  <2>2. PutNext(ctl[l], "failed").start = ctl[l].start
    BY DEF PutNext, Locals
  <2>3. \A k \in Locations : ctl'[k].start => started
    BY <1>8, <2>2, BranchStart DEF CheckIgniter, StartKnown
  <2> QED
    BY <2>1, <2>3 DEF StartKnown
<1> QED
  BY <1>1, <1>2, <1>3, <1>4, <1>5, <1>6, <1>7, <1>8 DEF Reconcile

LEMMA RestKnown ==
    ASSUME Shape, StartKnown, started => started', NEW l \in Locations,
           \/ IgniterStep(l)
           \/ ClusterStep(l)
           \/ Poll(l) \/ JobEvent(l) \/ Resync(l) \/ Restart(l)
    PROVE  StartKnown'
<1> USE DEF Shape, SystemTypeOK, OperatorTypeOK, ClusterTypeOK
<1>1. CASE IgniterStep(l)
  <2>1. UNCHANGED <<started, ctl>>
    BY <1>1 DEF IgniterStep, LightUp, PodsResumed, PatchFails, api, vars
  <2>2. \A k \in Locations : igniter'[k] # "none" => igniter[k] # "none"
    BY <1>1 DEF IgniterStep, LightUp, PodsResumed, PatchFails
  <2>3. \A k \in Locations : kjob'[k] \in Loading => kjob[k] \in Loading \/ igniter[k] # "none"
    BY <1>1 DEF IgniterStep, LightUp, PodsResumed, PatchFails, SetJob, cluster
  <2> QED
    BY <2>1, <2>2, <2>3 DEF StartKnown
<1>2. CASE ClusterStep(l)
  <2>1. UNCHANGED <<started, ctl, igniter>>
    BY <1>2 DEF ClusterStep, PodsStart, PodsEnd, JobWithoutPods, DeadlinePasses, PodsFail, JobGoes, OnlyCluster, operator, api, vars
  <2>2. \A k \in Locations : kjob'[k] \in Loading => kjob[k] \in Loading
    BY <1>2 DEF ClusterStep, PodsStart, PodsReady, PodsEnd, PodsSucceed, JobWithoutPods, NothingToRun,
         DeadlinePasses, PodsFail,
         JobFails, JobGoes, JobExpires, SetJob, Loading
  <2> QED
    BY <2>1, <2>2 DEF StartKnown
<1>3. CASE Poll(l) \/ JobEvent(l) \/ Resync(l)
  BY <1>3 DEF Poll, JobEvent, Informed, Resync, cluster, api, vars, StartKnown
<1>4. CASE Restart(l)
  <2>1. UNCHANGED started /\ \A k \in Locations : ctl'[k].start => started
    BY <1>4 DEF Restart, Rest, StartKnown, api, vars
  <2>2. \A k \in Locations : igniter'[k] # "none" \/ kjob'[k] \in Loading => started
    BY <1>4, RemoveIgniterKnown DEF Restart
  <2> QED
    BY <2>1, <2>2 DEF StartKnown
<1> QED
  BY <1>1, <1>2, <1>3, <1>4

LEMMA StartKnownInvariant ==
    ASSUME Complete PROVE System => []StartKnown
<1>1. SystemInit => StartKnown
  BY DEF SystemInit, OperatorInit, ClusterInit, StartKnown, Rest, Loading
<1>2. Shape /\ [Next]_vars /\ StartKnown /\ [SystemNext]_system => StartKnown'
  <2> SUFFICES ASSUME Shape, [Next]_vars, StartKnown, [SystemNext]_system
               PROVE  StartKnown'
    OBVIOUS
  <2>1. started => started'
    BY StartStays DEF Shape, SystemTypeOK
  <2>2. CASE UserStep \/ StartTimePasses \/ UNCHANGED system
    BY <2>1, <2>2 DEF UserStep, StartTimePasses, system, cluster, operator, StartKnown
  <2>3. ASSUME NEW l \in Locations, Reconcile(l) PROVE StartKnown'
    BY <2>1, <2>3, ReconcileKnown
  <2>4. ASSUME NEW l \in Locations,
               \/ IgniterStep(l)
               \/ ClusterStep(l)
               \/ Poll(l) \/ JobEvent(l) \/ Resync(l) \/ Restart(l)
        PROVE  StartKnown'
    BY <2>1, <2>4, RestKnown
  <2> QED
    BY <2>2, <2>3, <2>4 DEF SystemNext
<1> QED
  BY <1>1, <1>2, ShapeInvariant, SystemImplementsAPI, PTL DEF System, Spec

(***************************************************************************)
(* The barrier in the clusters: no location generates load while another   *)
(* one of the run has yet to get ready.  Pods are resumed by an igniter,   *)
(* an igniter needs a start time, and JobsAPI only sets one when every     *)
(* location is ready; crashes, lost answers and stale reads do not help.   *)
(***************************************************************************)
THEOREM NoLoadBeforeBarrierAlways ==
    ASSUME Complete PROVE System => []NoLoadBeforeBarrier
<1>1. StartKnown /\ BarrierHeld => NoLoadBeforeBarrier
  BY DEF StartKnown, BarrierHeld, NoLoadBeforeBarrier
<1>2. System => []BarrierHeld
  BY SystemImplementsAPI, BarrierHeldAlways DEF Complete
<1> QED
  BY <1>1, <1>2, StartKnownInvariant, PTL

--------------------------------------------------------------------------------
(***************************************************************************)
(* A completed job has succeeded.  Operators judge the Job by a copy that  *)
(* may be as old as their informer is behind; what makes that safe is that *)
(* a Job which has been seen to succeed never runs again, because nobody   *)
(* creates a Job for a location that was part of the barrier.              *)
(***************************************************************************)
\* The job will never be completed.
Dead(l) == l \notin rows \/ status[l] \in {"canceled", "failed"}

ShownSucceeded(l) == cache[l] = "succeeded" \/ ctl[l].obj = "succeeded"

\* Pods that succeeded had been resumed.
SuccessAfterStart(l) == ShownSucceeded(l) \/ kjob[l] = "succeeded" => started

\* Only the Job of an empty location has no pods to wait for.
PodsAsChosen(l) ==
    IF l \in Empty
    THEN kjob[l] \notin HasPods
    ELSE {kjob[l], cache[l], ctl[l].obj} \cap WithoutPods = {}

\* What a reconcile is about to write still makes sense.
Justified(l) ==
    /\ At(l, "create") => Dead(l) \/ status[l] = "pending"
    /\ At(l, "suspend") => Dead(l)
    /\ At(l, "put") /\ ctl[l].want = "completed"
          => ctl[l].obj \in {"succeeded"} \cup WithoutPods

\* What was seen to succeed does not run again.
SuccessStays(l) == ShownSucceeded(l) => kjob[l] \in {"succeeded", "absent"} \/ Dead(l)

CompletedIdle(l) == l \in rows /\ status[l] = "completed" => kjob[l] \notin HasPods

Truthful(l) ==
    /\ SuccessAfterStart(l)
    /\ PodsAsChosen(l)
    /\ Justified(l)
    /\ SuccessStays(l)
    /\ CompletedIdle(l)

--------------------------------------------------------------------------------
(***************************************************************************)
(* What a step of the system can do to one location.                       *)
(***************************************************************************)
KjobMoves(l) ==
    \/ kjob'[l] \in {kjob[l], "absent"}
    \/ kjob[l] \in HasPods /\ kjob'[l] \in AllPodsReady \cup {"failed"}
    \/ kjob[l] = "running" /\ kjob'[l] = "succeeded"
    \/ kjob[l] = "bare" /\ kjob'[l] = "complete"
    \/ At(l, "suspend") /\ kjob'[l] = "suspended"
    \/ At(l, "create") /\ kjob'[l] = NewJob(l)

CacheMoves(l) == cache'[l] \in {cache[l], kjob'[l]}

\* What a reconcile that goes on knows, and why it will create or suspend.
CtlMoves(l) ==
    \/ ctl'[l] = ctl[l]
    \/ /\ \/ ctl'[l].obj \in {ctl[l].obj, cache[l], "absent"}
          \/ At(l, "create") /\ ctl'[l].obj = NewJob(l)
       /\ ctl'[l].pc = "create" => status[l] = "pending" /\ At(l, "rest")
       /\ ctl'[l].pc = "suspend" => status[l] = "canceled" /\ At(l, "rest")
       /\ ctl'[l].pc = "put" /\ ctl'[l].want = "completed"
             => ctl'[l].obj \in {"succeeded"} \cup WithoutPods

LocalMoves(l) == KjobMoves(l) /\ CacheMoves(l) /\ CtlMoves(l)

\* The web app's side of it.
StatusMoves(l) ==
    /\ rows' \subseteq rows
    /\ started => started'
    /\ \/ status'[l] \in {status[l], "canceled"}
       \/ /\ At(l, "put")
          /\ status'[l] = ctl[l].want
          /\ ctl[l].want \in OperatorStatuses
          /\ Accepts(status[l], ctl[l].want)
          /\ l \in rows

\* Who was given up stays so.
LEMMA DeadStays ==
    ASSUME NEW l \in Locations, StatusMoves(l), Dead(l)
    PROVE  Dead(l)'
  BY DEF StatusMoves, Dead, Accepts, Transitions, OperatorStatuses, Status

LEMMA TruthKept ==
    ASSUME Shape, Shape', NEW l \in Locations, Truthful(l), StartKnown, BarrierHeld,
           LocalMoves(l), StatusMoves(l)
    PROVE  Truthful(l)'
<1>0. Dead(l) => Dead(l)'
  BY DeadStays
<1>1. NewJob(l) \in {"bare", "created"} /\ (NewJob(l) = "bare" <=> l \in Empty)
  BY DEF NewJob
<1>2. started => started'
  BY DEF StatusMoves
<1>3. SuccessAfterStart(l)'
  <2>1. kjob'[l] = "succeeded" => started
    BY <1>1 DEF LocalMoves, KjobMoves, Truthful, SuccessAfterStart, StartKnown, Loading, AllPodsReady
  <2>2. cache'[l] = "succeeded" => started
    BY <2>1 DEF LocalMoves, CacheMoves, Truthful, SuccessAfterStart, ShownSucceeded
  <2>3. ctl'[l].obj = "succeeded" => started
    BY <1>1 DEF LocalMoves, CtlMoves, Truthful, SuccessAfterStart, ShownSucceeded
  <2> QED
    BY <1>2, <2>1, <2>2, <2>3 DEF SuccessAfterStart, ShownSucceeded
<1>4. PodsAsChosen(l)'
  <2>1. CASE l \in Empty
    BY <1>1, <2>1 DEF LocalMoves, KjobMoves, Truthful, PodsAsChosen, HasPods, AllPodsReady
  <2>2. CASE l \notin Empty
    <3>1. kjob'[l] \notin WithoutPods
      BY <1>1, <2>2 DEF LocalMoves, KjobMoves, Truthful, PodsAsChosen, WithoutPods, AllPodsReady
    <3>2. cache'[l] \notin WithoutPods
      BY <2>2, <3>1 DEF LocalMoves, CacheMoves, Truthful, PodsAsChosen
    <3>3. ctl'[l].obj \notin WithoutPods
      BY <1>1, <2>2 DEF LocalMoves, CtlMoves, Truthful, PodsAsChosen, WithoutPods
    <3> QED
      BY <2>2, <3>1, <3>2, <3>3 DEF PodsAsChosen
  <2> QED
    BY <2>1, <2>2
<1>5. Justified(l)'
  <2>1. ctl'[l].pc = "create" => Dead(l)' \/ status'[l] = "pending"
    BY <1>0 DEF LocalMoves, CtlMoves, StatusMoves, Truthful, Justified, At, Dead
  <2>2. ctl'[l].pc = "suspend" => Dead(l)'
    BY <1>0 DEF LocalMoves, CtlMoves, StatusMoves, Truthful, Justified, At, Dead
  <2>3. ctl'[l].pc = "put" /\ ctl'[l].want = "completed"
          => ctl'[l].obj \in {"succeeded"} \cup WithoutPods
    BY DEF LocalMoves, CtlMoves, Truthful, Justified, At
  <2> QED
    BY <2>1, <2>2, <2>3 DEF Justified, At
<1>6. SuccessStays(l)'
  <2>1. ASSUME ShownSucceeded(l)
        PROVE  kjob'[l] \in {"succeeded", "absent"} \/ Dead(l)'
    <3>1. kjob[l] \in {"succeeded", "absent"} \/ Dead(l)
      BY <2>1 DEF Truthful, SuccessStays
    <3>2. At(l, "create") => Dead(l)
      BY <2>1 DEF Truthful, SuccessAfterStart, Justified, BarrierHeld, Dead
    <3>3. At(l, "suspend") => Dead(l)
      BY DEF Truthful, Justified
    <3> QED
      BY <1>0, <3>1, <3>2, <3>3 DEF LocalMoves, KjobMoves, HasPods, AllPodsReady
  <2>2. cache'[l] = "succeeded" => ShownSucceeded(l) \/ kjob'[l] = "succeeded"
    BY DEF LocalMoves, CacheMoves, ShownSucceeded
  <2>3. ctl'[l].obj = "succeeded" => ShownSucceeded(l)
    BY <1>1 DEF LocalMoves, CtlMoves, ShownSucceeded
  <2> QED
    BY <2>1, <2>2, <2>3 DEF SuccessStays, ShownSucceeded
<1>7. CompletedIdle(l)'
  <2> SUFFICES ASSUME l \in rows', status'[l] = "completed" PROVE kjob'[l] \notin HasPods
    BY DEF CompletedIdle
  <2>1. l \in rows
    BY DEF StatusMoves
  <2>2. CASE status[l] = "completed"
    <3>1. kjob[l] \notin HasPods
      BY <2>1, <2>2 DEF Truthful, CompletedIdle
    <3>2. ~At(l, "create")
      BY <2>1, <2>2 DEF Truthful, Justified, Dead
    <3> QED
      BY <3>1, <3>2 DEF LocalMoves, KjobMoves, HasPods, AllPodsReady
  <2>3. CASE status[l] # "completed"
    <3>1. At(l, "put") /\ ctl[l].want = "completed" /\ status[l] = "running"
      BY <2>3 DEF StatusMoves, Accepts, Transitions
    <3>2. ~Dead(l)
      BY <2>1, <3>1 DEF Dead
    <3>3. ~At(l, "create")
      BY <3>1 DEF At
    <3>4. kjob[l] \notin HasPods
      BY <3>1, <3>2 DEF Truthful, Justified, SuccessStays, ShownSucceeded, PodsAsChosen, HasPods,
                        AllPodsReady, WithoutPods
    <3> QED
      BY <3>3, <3>4 DEF LocalMoves, KjobMoves, HasPods, AllPodsReady
  <2> QED
    BY <2>2, <2>3
<1> QED
  BY <1>3, <1>4, <1>5, <1>6, <1>7 DEF Truthful

--------------------------------------------------------------------------------
\* A decision keeps the Job as it was read, and only a Job that has succeeded,
\* or had nothing to do, completes.
Judged(c) ==
    c.pc = "put" /\ c.want = "completed" => c.obj \in {"succeeded"} \cup WithoutPods

LEMMA DecideJudges ==
    ASSUME NEW c \in Locals
    PROVE  /\ Decide(c).obj \in {c.obj, "absent"}
           /\ Decide(c).pc \notin {"create", "suspend"}
           /\ Judged(Decide(c))
<1>1. ASSUME NEW s
      PROVE  PutNext(c, s).obj = c.obj /\ PutNext(c, s).pc = "put" /\ PutNext(c, s).want = s
  BY DEF PutNext, Locals
<1>2. [c EXCEPT !.pc = "ignite"].obj = c.obj /\ [c EXCEPT !.pc = "ignite"].pc = "ignite"
  BY DEF Locals
<1>3. Rest.obj = "absent" /\ Rest.pc = "rest"
  BY DEF Rest
<1>4. CASE Decide(c) = PutNext(c, "completed") /\ c.obj \in {"succeeded"} \cup WithoutPods
  BY <1>1, <1>4 DEF Judged
<1>5. CASE \E s \in {"failed", "queued", "ready"} : Decide(c) = PutNext(c, s)
  BY <1>1, <1>5 DEF Judged
<1>6. CASE Decide(c) \in {[c EXCEPT !.pc = "ignite"], Rest}
  BY <1>2, <1>3, <1>6 DEF Judged
<1> QED
  BY <1>4, <1>5, <1>6 DEF Decide

LEMMA BranchJudges ==
    ASSUME NEW c \in Locals
    PROVE  /\ Branch(c).obj \in {c.obj, "absent"}
           /\ Branch(c).pc = "create" => c.status = "pending"
           /\ Branch(c).pc = "suspend" => c.status = "canceled"
           /\ Judged(Branch(c))
<1>1. /\ PutNext(c, "failed").obj = c.obj /\ PutNext(c, "failed").pc = "put"
      /\ PutNext(c, "failed").want = "failed"
  BY DEF PutNext, Locals
<1>2. ASSUME NEW p \in Labels
      PROVE  [c EXCEPT !.pc = p].obj = c.obj /\ [c EXCEPT !.pc = p].pc = p
  BY DEF Locals
<1>3. Rest.obj = "absent" /\ Rest.pc = "rest"
  BY DEF Rest
<1>4. {"create", "suspend"} \subseteq Labels
  BY DEF Labels
<1>5. CASE Branch(c) = [c EXCEPT !.pc = "create"] /\ c.status = "pending"
  BY <1>2, <1>4, <1>5 DEF Judged
<1>6. CASE Branch(c) = [c EXCEPT !.pc = "suspend"] /\ c.status = "canceled"
  BY <1>2, <1>4, <1>6 DEF Judged
<1>7. CASE Branch(c) \in {Rest, PutNext(c, "failed")}
  BY <1>1, <1>3, <1>7 DEF Judged
<1>8. CASE Branch(c) = Decide(c)
  BY <1>8, DecideJudges
<1> QED
  BY <1>5, <1>6, <1>7, <1>8 DEF Branch

\* The locals of the reconcile at l become c, and nobody else's change.
LEMMA CtlSet ==
    ASSUME Shape, NEW l \in Locations, NEW c, ctl' = [ctl EXCEPT ![l] = c],
           \/ c.obj \in {ctl[l].obj, cache[l], "absent"}
           \/ At(l, "create") /\ c.obj = NewJob(l),
           c.pc = "create" => status[l] = "pending" /\ At(l, "rest"),
           c.pc = "suspend" => status[l] = "canceled" /\ At(l, "rest"),
           Judged(c)
    PROVE  CtlMoves(l) /\ \A k \in Locations \ {l} : ctl'[k] = ctl[k]
  BY DEF Shape, SystemTypeOK, OperatorTypeOK, CtlMoves, Judged

LEMMA CtlEnds ==
    ASSUME Shape, NEW l \in Locations, End(l) \/ Retry(l)
    PROVE  CtlMoves(l) /\ \A k \in Locations \ {l} : ctl'[k] = ctl[k]
<1>1. Rest.obj = "absent" /\ Rest.pc = "rest" /\ Judged(Rest)
  BY DEF Rest, Judged
<1> QED
  BY <1>1, CtlSet DEF End, Retry

LEMMA CtlStays ==
    ASSUME NEW l, UNCHANGED ctl
    PROVE  CtlMoves(l) /\ \A k \in Locations \ {l} : ctl'[k] = ctl[k]
  BY DEF CtlMoves

\* The Job of l becomes something, and nobody else's does.
LEMMA KjobSet ==
    ASSUME Shape, NEW l \in Locations, NEW phase, SetJob(l, phase)
    PROVE  kjob'[l] = phase /\ \A k \in Locations \ {l} : kjob'[k] = kjob[k]
  BY DEF SetJob, Shape, SystemTypeOK, ClusterTypeOK

LEMMA KjobRemoved ==
    ASSUME Shape, NEW l \in Locations, RemoveIgniter(l)
    PROVE  KjobMoves(l) /\ \A k \in Locations \ {l} : kjob'[k] = kjob[k]
  BY KjobSet DEF RemoveIgniter, KjobMoves, HasPods, AllPodsReady

LEMMA KjobStays ==
    ASSUME NEW l, UNCHANGED kjob
    PROVE  KjobMoves(l) /\ \A k \in Locations \ {l} : kjob'[k] = kjob[k]
  BY DEF KjobMoves

--------------------------------------------------------------------------------
\* The steps of one location, and what they leave alone.
Moves(l) ==
    /\ LocalMoves(l)
    /\ \A k \in Locations \ {l} : UNCHANGED <<kjob[k], cache[k], ctl[k]>>

LEMMA GetMoves ==
    ASSUME Shape, NEW l \in Locations, Get(l)
    PROVE  Moves(l)
<1> DEFINE c == ReadJob(l)
<1>1. c \in Locals /\ c.status = status[l] /\ c.obj = cache[l]
  BY DEF ReadJob, Shape, SystemTypeOK, TypeOK, ClusterTypeOK, Locals, Rest, Labels, Status, All
<1>2. CtlMoves(l) /\ \A k \in Locations \ {l} : ctl'[k] = ctl[k]
  <2>1. CASE ctl' = [ctl EXCEPT ![l].pc = "delete"]
    <3> DEFINE d == [ctl[l] EXCEPT !.pc = "delete"]
    <3>1. d.obj = ctl[l].obj /\ d.pc = "delete" /\ ctl' = [ctl EXCEPT ![l] = d]
      BY <2>1 DEF Shape, SystemTypeOK, OperatorTypeOK, Locals
    <3> HIDE DEF d
    <3> QED
      BY <3>1, CtlSet DEF Judged
  <2>2. CASE ctl' = ctl
    BY <2>2, CtlStays
  <2>3. CASE ctl' = [ctl EXCEPT ![l] = Branch(c)]
    <3>1. At(l, "rest")
      BY DEF Get
    <3> HIDE DEF c
    <3> QED
      BY <1>1, <2>3, <3>1, BranchJudges, CtlSet
  <2> QED
    BY <2>1, <2>2, <2>3 DEF Get
<1>3. KjobMoves(l) /\ \A k \in Locations \ {l} : kjob'[k] = kjob[k]
  BY KjobRemoved, KjobStays DEF Get
<1>4. UNCHANGED cache
  BY DEF Get
<1> QED
  BY <1>2, <1>3, <1>4 DEF Moves, LocalMoves, CacheMoves

LEMMA DeleteJobMoves ==
    ASSUME Shape, NEW l \in Locations, DeleteJob(l)
    PROVE  Moves(l)
<1>1. CtlMoves(l) /\ \A k \in Locations \ {l} : ctl'[k] = ctl[k]
  BY CtlEnds DEF DeleteJob
<1>2. KjobMoves(l) /\ \A k \in Locations \ {l} : kjob'[k] = kjob[k]
  <2>1. CASE SetJob(l, "absent")
    BY <2>1, KjobSet DEF KjobMoves
  <2> QED
    BY <2>1, KjobStays DEF DeleteJob
<1>3. UNCHANGED cache
  BY DEF DeleteJob
<1> QED
  BY <1>1, <1>2, <1>3 DEF Moves, LocalMoves, CacheMoves

LEMMA SuspendMoves ==
    ASSUME Shape, NEW l \in Locations, Suspend(l)
    PROVE  Moves(l)
<1>1. CtlMoves(l) /\ \A k \in Locations \ {l} : ctl'[k] = ctl[k]
  BY CtlEnds DEF Suspend
<1>2. KjobMoves(l) /\ \A k \in Locations \ {l} : kjob'[k] = kjob[k]
  <2>1. CASE SetJob(l, "suspended")
    BY <2>1, KjobSet DEF KjobMoves, Suspend
  <2> QED
    BY <2>1, KjobRemoved DEF Suspend
<1>3. UNCHANGED cache
  BY DEF Suspend
<1> QED
  BY <1>1, <1>2, <1>3 DEF Moves, LocalMoves, CacheMoves

LEMMA CreateJobMoves ==
    ASSUME Shape, NEW l \in Locations, CreateJob(l)
    PROVE  Moves(l)
<1>1. ctl[l] \in Locals /\ At(l, "create")
  BY DEF Shape, SystemTypeOK, OperatorTypeOK, CreateJob
<1>2. CtlMoves(l) /\ \A k \in Locations \ {l} : ctl'[k] = ctl[k]
  <2>1. CASE ctl' = [ctl EXCEPT ![l].pc = "sync", ![l].obj = NewJob(l)]
    <3> DEFINE d == [ctl[l] EXCEPT !.pc = "sync", !.obj = NewJob(l)]
    <3>1. d.obj = NewJob(l) /\ d.pc = "sync" /\ ctl' = [ctl EXCEPT ![l] = d]
      BY <1>1, <2>1 DEF Locals
    <3> HIDE DEF d
    <3> QED
      BY <1>1, <3>1, CtlSet DEF Judged
  <2>2. CASE ctl' = [ctl EXCEPT ![l] = PutNext(ctl[l], "failed")]
    <3> DEFINE d == PutNext(ctl[l], "failed")
    <3>1. d.obj = ctl[l].obj /\ d.pc = "put" /\ d.want = "failed"
      BY <1>1 DEF PutNext, Locals
    <3> HIDE DEF d
    <3> QED
      BY <2>2, <3>1, CtlSet DEF d, Judged
  <2> QED
    BY <2>1, <2>2 DEF CreateJob
<1>3. KjobMoves(l) /\ \A k \in Locations \ {l} : kjob'[k] = kjob[k]
  <2>1. CASE SetJob(l, NewJob(l))
    BY <1>1, <2>1, KjobSet DEF KjobMoves
  <2> QED
    BY <2>1, KjobStays DEF CreateJob
<1>4. UNCHANGED cache
  BY DEF CreateJob
<1> QED
  BY <1>2, <1>3, <1>4 DEF Moves, LocalMoves, CacheMoves

LEMMA SyncMoves ==
    ASSUME Shape, NEW l \in Locations, SyncJobObjects(l)
    PROVE  Moves(l)
<1>1. ctl[l] \in Locals
  BY DEF Shape, SystemTypeOK, OperatorTypeOK
<1>2. CtlMoves(l) /\ \A k \in Locations \ {l} : ctl'[k] = ctl[k]
  <2>1. CASE ctl' = [ctl EXCEPT ![l] = Decide(ctl[l])]
    BY <1>1, <2>1, DecideJudges, CtlSet
  <2> QED
    BY <2>1, CtlEnds DEF SyncJobObjects
<1>3. UNCHANGED <<kjob, cache>>
  BY DEF SyncJobObjects
<1> QED
  BY <1>2, <1>3, KjobStays DEF Moves, LocalMoves, CacheMoves

LEMMA PutJobMoves ==
    ASSUME Shape, Shape', NEW l \in Locations, PutJob(l)
    PROVE  Moves(l)
<1>1. ctl[l] \in Locals /\ ctl[l].want \in OperatorStatuses /\ started' \in BOOLEAN
  BY PutIsOperators DEF Shape, SystemTypeOK, OperatorTypeOK, TypeOK
<1>2. CtlMoves(l) /\ \A k \in Locations \ {l} : ctl'[k] = ctl[k]
  <2>1. CASE Answered(l)
    <3> DEFINE c == [ctl[l] EXCEPT !.status = ctl[l].want, !.start = started',
                                  !.ready = \A k \in rows : status'[k] = "ready"]
    <3>1. c \in Locals /\ c.obj = ctl[l].obj
      BY <1>1 DEF Locals, Status, OperatorStatuses
    <3>2. \/ ctl' = [ctl EXCEPT ![l] = Rest]
          \/ ctl' = [ctl EXCEPT ![l] = [c EXCEPT !.pc = "check igniter"]]
          \/ ctl' = [ctl EXCEPT ![l] = Decide(c)]
      BY <2>1 DEF Answered
    <3> HIDE DEF c
    <3>3. /\ [c EXCEPT !.pc = "check igniter"].obj = c.obj
          /\ [c EXCEPT !.pc = "check igniter"].pc = "check igniter"
          /\ Rest.obj = "absent" /\ Rest.pc = "rest"
      BY <3>1 DEF Locals, Rest
    <3>4. Judged([c EXCEPT !.pc = "check igniter"]) /\ Judged(Rest)
      BY <3>3 DEF Judged
    <3> QED
      BY <3>1, <3>2, <3>3, <3>4, DecideJudges, CtlSet
  <2>2. CASE ctl' = [ctl EXCEPT ![l].pc = "check igniter", ![l].status = "running"]
    <3> DEFINE d == [ctl[l] EXCEPT !.pc = "check igniter", !.status = "running"]
    <3>1. d.obj = ctl[l].obj /\ d.pc = "check igniter" /\ ctl' = [ctl EXCEPT ![l] = d]
      BY <1>1, <2>2 DEF Locals
    <3> HIDE DEF d
    <3> QED
      BY <3>1, CtlSet DEF Judged
  <2>3. CASE End(l) \/ Retry(l)
    BY <2>3, CtlEnds
  <2> QED
    BY <2>1, <2>2, <2>3 DEF PutJob, Unanswered
<1>3. UNCHANGED <<kjob, cache>>
  BY DEF PutJob, cluster
<1> QED
  BY <1>2, <1>3, KjobStays DEF Moves, LocalMoves, CacheMoves

LEMMA IgniteMoves ==
    ASSUME Shape, NEW l \in Locations, Ignite(l) \/ CheckIgniter(l)
    PROVE  Moves(l)
<1>1. ctl[l] \in Locals /\ igniter[l] \in IgniterStates
  BY DEF Shape, SystemTypeOK, OperatorTypeOK
<1>2. ASSUME NEW s \in {"failed", "running"}, ctl' = [ctl EXCEPT ![l] = PutNext(ctl[l], s)]
      PROVE  CtlMoves(l) /\ \A k \in Locations \ {l} : ctl'[k] = ctl[k]
  <2> DEFINE d == PutNext(ctl[l], s)
  <2>1. d.obj = ctl[l].obj /\ d.pc = "put" /\ d.want = s
    BY <1>1 DEF PutNext, Locals
  <2> HIDE DEF d
  <2> QED
    BY <1>2, <2>1, CtlSet DEF d, Judged
<1>3. CtlMoves(l) /\ \A k \in Locations \ {l} : ctl'[k] = ctl[k]
  <2>1. CASE Ignite(l)
    <3>1. \/ End(l) \/ Retry(l)
          \/ \E s \in {"failed", "running"} : ctl' = [ctl EXCEPT ![l] = PutNext(ctl[l], s)]
      BY <1>1, <2>1 DEF Ignite, IgniterStates
    <3> QED
      BY <1>2, <3>1, CtlEnds
  <2>2. CASE CheckIgniter(l)
    <3>1. \/ ctl' = [ctl EXCEPT ![l] = PutNext(ctl[l], "failed")]
          \/ ctl' = [ctl EXCEPT ![l] = Decide(ctl[l])]
      BY <2>2 DEF CheckIgniter
    <3> QED
      BY <1>1, <1>2, <3>1, DecideJudges, CtlSet
  <2> QED
    BY <2>1, <2>2
<1>4. UNCHANGED <<kjob, cache>>
  BY DEF Ignite, CheckIgniter, cluster
<1> QED
  BY <1>3, <1>4, KjobStays DEF Moves, LocalMoves, CacheMoves

LEMMA IgniterMoves ==
    ASSUME Shape, NEW l \in Locations, IgniterStep(l)
    PROVE  Moves(l)
<1>1. KjobMoves(l) /\ \A k \in Locations \ {l} : kjob'[k] = kjob[k]
  <2>1. CASE kjob[l] \in AllPodsReady /\ SetJob(l, "running")
    BY <2>1, KjobSet DEF KjobMoves, HasPods, AllPodsReady
  <2>2. CASE kjob' = [kjob EXCEPT ![l] = IF @ = "ready" THEN "partial" ELSE @]
    BY <2>2 DEF Shape, SystemTypeOK, ClusterTypeOK, KjobMoves, HasPods, AllPodsReady
  <2> QED
    BY <2>1, <2>2, KjobStays DEF IgniterStep, LightUp, PodsResumed, PatchFails, cluster
<1>2. UNCHANGED <<ctl, cache>>
  BY DEF IgniterStep, LightUp, PodsResumed, PatchFails, cluster
<1> QED
  BY <1>1, <1>2, CtlStays DEF Moves, LocalMoves, CacheMoves

LEMMA ClusterMoves ==
    ASSUME Shape, NEW l \in Locations, ClusterStep(l)
    PROVE  Moves(l)
<1>1. \E phase : /\ SetJob(l, phase)
                 /\ \/ phase = "absent"
                    \/ kjob[l] \in HasPods /\ phase \in {"ready", "failed"}
                    \/ kjob[l] = "running" /\ phase = "succeeded"
                    \/ kjob[l] = "bare" /\ phase = "complete"
  BY DEF ClusterStep, PodsStart, PodsReady, PodsEnd, PodsSucceed, JobWithoutPods, NothingToRun,
         DeadlinePasses, PodsFail, JobFails, JobGoes, JobExpires, HasPods
<1>2. KjobMoves(l) /\ \A k \in Locations \ {l} : kjob'[k] = kjob[k]
  BY <1>1, KjobSet DEF KjobMoves, AllPodsReady
<1>3. UNCHANGED <<ctl, cache>>
  BY DEF ClusterStep, PodsStart, PodsReady, PodsEnd, PodsSucceed, JobWithoutPods, NothingToRun,
         DeadlinePasses, PodsFail, JobFails, JobGoes, JobExpires, OnlyCluster, operator
<1> QED
  BY <1>2, <1>3, CtlStays DEF Moves, LocalMoves, CacheMoves

LEMMA QueueMoves ==
    ASSUME Shape, NEW l \in Locations, Poll(l) \/ JobEvent(l) \/ Resync(l)
    PROVE  Moves(l)
<1>1. UNCHANGED <<ctl, kjob>>
  BY DEF Poll, JobEvent, Resync, Informed, cluster
<1>2. CacheMoves(l) /\ \A k \in Locations \ {l} : cache'[k] = cache[k]
  BY DEF Poll, JobEvent, Resync, Informed, cluster, CacheMoves, Shape, SystemTypeOK, ClusterTypeOK
<1> QED
  BY <1>1, <1>2, CtlStays, KjobStays DEF Moves, LocalMoves

LEMMA RestartMoves ==
    ASSUME Shape, NEW l \in Locations, Restart(l)
    PROVE  Moves(l)
<1>1. CtlMoves(l) /\ \A k \in Locations \ {l} : ctl'[k] = ctl[k]
  <2>1. Rest.obj = "absent" /\ Rest.pc = "rest" /\ Judged(Rest)
    BY DEF Rest, Judged
  <2> QED
    BY <2>1, CtlSet DEF Restart
<1>2. KjobMoves(l) /\ \A k \in Locations \ {l} : kjob'[k] = kjob[k]
  BY KjobRemoved DEF Restart
<1>3. CacheMoves(l) /\ \A k \in Locations \ {l} : cache'[k] = cache[k]
  BY DEF Restart, CacheMoves, Shape, SystemTypeOK, ClusterTypeOK
<1> QED
  BY <1>1, <1>2, <1>3 DEF Moves, LocalMoves

--------------------------------------------------------------------------------
LEMMA PutMoves ==
    ASSUME Shape, NEW k \in Locations, PutJob(k), NEW l \in Locations
    PROVE  StatusMoves(l)
<1>1. ctl[k].want \in OperatorStatuses /\ At(k, "put")
  BY PutIsOperators DEF PutJob
<1>2. CASE Put(k, ctl[k].want)
  <2> DEFINE st == [status EXCEPT ![k] = ctl[k].want]
  <2>1. k \in rows /\ Accepts(status[k], ctl[k].want) /\ (started => started') /\ rows' = rows
    BY <1>2 DEF Put, Visible
  <2>2. st[k] = ctl[k].want /\ (k # l => st[l] = status[l])
    BY DEF Shape, SystemTypeOK, TypeOK
  <2>3. status' = st \/ (ctl[k].want = "failed" /\ status' = StopOthers(st))
    BY <1>2 DEF Put, Saved
  <2> HIDE DEF st
  <2>4. status'[l] = st[l] \/ (status'[l] = "canceled" /\ st[l] # "failed")
    BY <2>3 DEF StopOthers, SparedByFailure
  <2>5. CASE k = l
    <3>1. status'[l] = ctl[l].want \/ status'[l] = "canceled"
      BY <2>2, <2>4, <2>5
    <3> QED
      BY <1>1, <2>1, <2>5, <3>1 DEF StatusMoves
  <2>6. CASE k # l
    BY <2>1, <2>2, <2>4, <2>6 DEF StatusMoves
  <2> QED
    BY <2>5, <2>6
<1>3. CASE UNCHANGED api
  BY <1>3 DEF api, vars, StatusMoves
<1> QED
  BY <1>2, <1>3, PutIsOperators

LEMMA UserMoves ==
    ASSUME UserStep, NEW l \in Locations
    PROVE  StatusMoves(l)
  BY DEF UserStep, Start, Cancel, CancelActive, Delete, StatusMoves

\* What a step of the system can do to the job of a location.
LEMMA StepMoves ==
    ASSUME Shape, Shape', [SystemNext]_system, NEW l \in Locations
    PROVE  LocalMoves(l) /\ StatusMoves(l)
<1>1. ASSUME NEW k \in Locations, Moves(k) PROVE LocalMoves(l)
  BY <1>1 DEF Moves, LocalMoves, KjobMoves, CacheMoves, CtlMoves
<1>2. ASSUME UNCHANGED <<cluster, operator>> PROVE LocalMoves(l)
  BY <1>2 DEF cluster, operator, LocalMoves, KjobMoves, CacheMoves, CtlMoves
<1>3. ASSUME UNCHANGED api PROVE StatusMoves(l)
  BY <1>3 DEF api, vars, StatusMoves
<1>4. CASE UserStep
  <2>1. UNCHANGED <<cluster, operator>>
    BY <1>4 DEF UserStep
  <2> QED
    BY <1>2, <1>4, <2>1, UserMoves
<1>5. CASE StartTimePasses
  <2>1. UNCHANGED <<api, cluster, operator>>
    BY <1>5 DEF StartTimePasses
  <2> QED
    BY <1>2, <1>3, <2>1
<1>6. CASE UNCHANGED system
  <2>1. UNCHANGED <<api, cluster, operator>>
    BY <1>6 DEF system
  <2> QED
    BY <1>2, <1>3, <2>1
<1>7. ASSUME NEW k \in Locations, PutJob(k) PROVE LocalMoves(l) /\ StatusMoves(l)
  BY <1>1, <1>7, PutJobMoves, PutMoves
<1>8. ASSUME NEW k \in Locations, Reconcile(k), ~PutJob(k)
      PROVE  LocalMoves(l) /\ StatusMoves(l)
  <2>1. Moves(k)
    BY <1>8, GetMoves, DeleteJobMoves, SuspendMoves, CreateJobMoves, SyncMoves,
       IgniteMoves DEF Reconcile
  <2>2. UNCHANGED api
    BY <1>8 DEF Reconcile, Get, DeleteJob, Suspend, CreateJob, SyncJobObjects, Ignite, CheckIgniter
  <2> QED
    BY <1>1, <1>3, <2>1, <2>2
<1>9. ASSUME NEW k \in Locations, IgniterStep(k) \/ ClusterStep(k)
      PROVE  LocalMoves(l) /\ StatusMoves(l)
  <2>1. UNCHANGED api
    BY <1>9 DEF IgniterStep, LightUp, PodsResumed, PatchFails, ClusterStep, PodsStart, PodsEnd,
                JobWithoutPods, DeadlinePasses, PodsFail, JobGoes, OnlyCluster
  <2> QED
    BY <1>1, <1>3, <1>9, <2>1, IgniterMoves, ClusterMoves
<1>10. ASSUME NEW k \in Locations, Poll(k) \/ JobEvent(k) \/ Resync(k) \/ Restart(k)
       PROVE  LocalMoves(l) /\ StatusMoves(l)
  <2>1. UNCHANGED api
    BY <1>10 DEF Poll, JobEvent, Resync, Restart
  <2> QED
    BY <1>1, <1>3, <1>10, <2>1, QueueMoves, RestartMoves
<1> QED
  BY <1>4, <1>5, <1>6, <1>7, <1>8, <1>9, <1>10 DEF SystemNext

Truth == \A l \in Locations : Truthful(l)

LEMMA TruthInvariant ==
    ASSUME Complete PROVE System => []Truth
<1>1. SystemInit => Truth
  <2> SUFFICES ASSUME SystemInit, NEW l \in Locations PROVE Truthful(l)
    BY DEF Truth
  <2> QED
    BY DEF SystemInit, Init, ClusterInit, OperatorInit, Rest, At, Truthful, SuccessAfterStart,
           ShownSucceeded, PodsAsChosen, HasPods, AllPodsReady, WithoutPods, Justified,
           SuccessStays, CompletedIdle
<1>2. Shape /\ Shape' /\ StartKnown /\ BarrierHeld /\ Truth /\ [SystemNext]_system => Truth'
  <2> SUFFICES ASSUME Shape, Shape', StartKnown, BarrierHeld, Truth, [SystemNext]_system,
                      NEW l \in Locations
               PROVE  Truthful(l)'
    BY DEF Truth
  <2>1. Truthful(l) /\ LocalMoves(l) /\ StatusMoves(l)
    BY StepMoves DEF Truth
  <2> QED
    BY <2>1, TruthKept
<1>3. System => []BarrierHeld
  BY SystemImplementsAPI, BarrierHeldAlways DEF Complete
<1> QED
  BY <1>1, <1>2, <1>3, ShapeInvariant, StartKnownInvariant, PTL DEF System

(***************************************************************************)
(* A job is reported completed only when its pods have succeeded, however  *)
(* old the copy of the Job is that its operator judges by: nobody runs a   *)
(* Job again that was seen to succeed.                                     *)
(***************************************************************************)
THEOREM CompletedMeansSucceededAlways ==
    ASSUME Complete PROVE System => CompletedMeansSucceeded
<1> DEFINE A == \A l \in rows : status[l] # "completed" /\ status'[l] = "completed"
                    => l \in Empty \/ kjob[l] \in {"succeeded", "absent"}
<1>1. Shape /\ Shape' /\ Truth /\ [SystemNext]_system => [A]_system
  <2> SUFFICES ASSUME Shape, Shape', Truth, [SystemNext]_system,
                      NEW l \in rows, status[l] # "completed", status'[l] = "completed"
               PROVE  l \in Empty \/ kjob[l] \in {"succeeded", "absent"}
    OBVIOUS
  <2>1. l \in Locations
    BY DEF Shape, SystemTypeOK, TypeOK
  <2>2. Truthful(l) /\ StatusMoves(l)
    BY <2>1, StepMoves DEF Truth
  <2>3. At(l, "put") /\ ctl[l].want = "completed" /\ status[l] = "running"
    BY <2>2 DEF StatusMoves, Accepts, Transitions
  <2>4. ~Dead(l)
    BY <2>3 DEF Dead
  <2> QED
    BY <2>2, <2>3, <2>4 DEF Truthful, Justified, SuccessStays, ShownSucceeded, PodsAsChosen,
                            WithoutPods
<1> QED
  BY <1>1, TruthInvariant, ShapeInvariant, PTL DEF System, CompletedMeansSucceeded

(***************************************************************************)
(* A run that the dashboard ticks as completed has no pod left anywhere.   *)
(* (admin.py:completed)                                                    *)
(***************************************************************************)
THEOREM ShownCompletedMeansIdleAlways ==
    ASSUME Complete PROVE System => []ShownCompletedMeansIdle
<1>1. Shape /\ Truth => ShownCompletedMeansIdle
  <2> SUFFICES ASSUME Shape, Truth, CompletedColumn(draft, Statuses) = "yes", NEW l \in rows
               PROVE  kjob[l] \notin HasPods
    BY DEF ShownCompletedMeansIdle
  <2>1. Statuses \subseteq {"completed"}
    BY DEF CompletedColumn, Shape, SystemTypeOK, TypeOK
  <2>2. status[l] = "completed" /\ l \in Locations
    BY <2>1 DEF Statuses, Shape, SystemTypeOK, TypeOK
  <2> QED
    BY <2>2 DEF Truth, Truthful, CompletedIdle
<1> QED
  BY <1>1, TruthInvariant, ShapeInvariant, PTL
================================================================================
