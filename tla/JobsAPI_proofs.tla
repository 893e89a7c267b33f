----------------------------- MODULE JobsAPI_proofs ----------------------------
(***************************************************************************)
(* The invariants of JobsAPI, for any locations.  Together they are        *)
(* inductive: each one that speaks of the jobs needs the type of status    *)
(* only, but the same case distinction over the transitions settles all.   *)
(***************************************************************************)
EXTENDS JobsAPI, TLAPS

\* What Put, Cancel and the deletion do to the jobs keeps their type.
LEMMA SavedType ==
    ASSUME TypeOK, NEW l \in Locations, NEW s \in Status
    PROVE  Saved(l, s) \in [Locations -> Status]
  BY DEF TypeOK, Saved, StopOthers, Status, SparedByFailure

\* Each request keeps the types, a PUT for every status there is.
LEMMA StepType ==
    ASSUME TypeOK,
           \/ \E l \in Locations, s \in Status : Put(l, s)
           \/ Start
           \/ Cancel
           \/ Delete
           \/ \E l \in Locations : Add(l)
           \/ UNCHANGED vars
    PROVE  TypeOK'
<1>1. ASSUME NEW l \in Locations, NEW s \in Status, Put(l, s)
      PROVE  TypeOK'
  <2>1. Saved(l, s) \in [Locations -> Status]
    BY SavedType
  <2>2. started' \in BOOLEAN /\ completed' \in BOOLEAN
    BY <1>1 DEF Put
  <2> QED
    BY <1>1, <2>1, <2>2 DEF TypeOK, Put
<1>2. CASE Start
  BY <1>2 DEF Start, TypeOK
<1>3. CASE Cancel
  BY <1>3 DEF Cancel, CancelActive, TypeOK, Status
<1>4. CASE Delete
  BY <1>4 DEF Delete, TypeOK
<1>5. ASSUME NEW l \in Locations, Add(l)
      PROVE  TypeOK'
  BY <1>5 DEF Add, TypeOK, Status
<1>6. CASE UNCHANGED vars
  BY <1>6 DEF vars, TypeOK
<1> QED
  BY <1>1, <1>2, <1>3, <1>4, <1>5, <1>6

(***************************************************************************)
(* Every variable has its type in every reachable state of the promise,    *)
(* for any locations, statuses and requests.                               *)
(***************************************************************************)
THEOREM TypeCorrect == Spec => []TypeOK
<1>1. Init => TypeOK
  BY DEF Init, TypeOK, Status
<1>2. TypeOK /\ [Next]_vars => TypeOK'
  BY StepType, JobsAssumption DEF Next
<1> QED
  BY <1>1, <1>2, PTL DEF Spec

--------------------------------------------------------------------------------
(***************************************************************************)
(* The invariants about the jobs hold for the requests the system makes:  *)
(* operators report what OperatorStatuses says, and nobody adds a location *)
(* to a run that was started.  (A PUT of "pending" by hand retries a       *)
(* failed job behind the barrier, and so does a location that is added.)   *)
(***************************************************************************)
Regular == ClientStatuses \subseteq OperatorStatuses /\ "add" \notin Requests

\* The jobs of a failed run, and those of its canceled siblings, are final.
LEMMA StoppedAreFinal ==
    ASSUME NEW st \in [Locations -> Status], rows \subseteq Locations
    PROVE  \A l \in rows : StopOthers(st)[l] \in Final
  BY DEF StopOthers, SparedByFailure, Final, Status

(***************************************************************************)
(* A failure ends the run: as soon as one job has failed, no job of the    *)
(* run is active, and none becomes active again.                           *)
(***************************************************************************)
THEOREM FailureStopsRunAlways ==
    ASSUME Regular PROVE Spec => []FailureStopsRun
<1>1. Init => FailureStopsRun
  BY DEF Init, FailureStopsRun
<1>2. TypeOK /\ FailureStopsRun /\ [Next]_vars => FailureStopsRun'
  <2> SUFFICES ASSUME TypeOK, FailureStopsRun, [Next]_vars
               PROVE  FailureStopsRun'
    OBVIOUS
  <2>1. ASSUME NEW l \in Locations, NEW s \in ClientStatuses, Put(l, s)
        PROVE  FailureStopsRun'
    <3>1. CASE s = "failed"
      <4> DEFINE st == [status EXCEPT ![l] = s]
      <4>1. st \in [Locations -> Status] /\ status' = StopOthers(st) /\ rows' = rows
        BY <2>1, <3>1 DEF Put, Saved, TypeOK, Status
      <4>2. \A k \in rows : StopOthers(st)[k] \in Final
        BY <4>1, StoppedAreFinal DEF TypeOK
      <4> QED
        BY <4>1, <4>2 DEF FailureStopsRun
    <3>2. CASE s # "failed"
      <4>1. status' = [status EXCEPT ![l] = s] /\ rows' = rows
        BY <2>1, <3>2 DEF Put, Saved
      <4>2. l \in rows /\ Accepts(status[l], s) /\ s \in OperatorStatuses
        BY <2>1 DEF Put, Visible, Regular
      <4>3. status[l] \in Final => s = status[l]
        BY <4>2, <3>2 DEF Accepts, Transitions, Final, OperatorStatuses
      <4> QED
        BY <4>1, <4>2, <4>3, <3>2 DEF FailureStopsRun, TypeOK, Final
    <3> QED
      BY <3>1, <3>2
  <2>2. CASE Start
    BY <2>2 DEF Start, FailureStopsRun
  <2>3. CASE Cancel
    BY <2>3 DEF Cancel, Cancellable, CancelActive, FailureStopsRun, TypeOK, Final
  <2>4. CASE Delete
    BY <2>4 DEF Delete, FailureStopsRun
  <2>5. CASE UNCHANGED vars
    BY <2>5 DEF vars, FailureStopsRun
  <2> QED
    BY <2>1, <2>2, <2>3, <2>4, <2>5 DEF Next, Regular
<1> QED
  BY <1>1, <1>2, TypeCorrect, PTL DEF Spec

(***************************************************************************)
(* The barrier holds: a run has a start time only when no job of it is     *)
(* still pending or queued, and no job falls behind the barrier later on.  *)
(***************************************************************************)
THEOREM BarrierHeldAlways ==
    ASSUME Regular PROVE Spec => []BarrierHeld
<1>1. Init => BarrierHeld
  BY DEF Init, BarrierHeld
<1>2. TypeOK /\ BarrierHeld /\ [Next]_vars => BarrierHeld'
  <2> SUFFICES ASSUME TypeOK, BarrierHeld, [Next]_vars
               PROVE  BarrierHeld'
    OBVIOUS
  <2>1. ASSUME NEW l \in Locations, NEW s \in ClientStatuses, Put(l, s)
        PROVE  BarrierHeld'
    <3>1. CASE s = "ready" /\ All(status', "ready")
      BY <2>1, <3>1 DEF Put, All, BarrierHeld
    <3>2. CASE ~(s = "ready" /\ All(status', "ready"))
      <4>1. started' = started /\ rows' = rows /\ status' = Saved(l, s)
        BY <2>1, <3>2 DEF Put, TypeOK
      <4>2. l \in rows /\ Accepts(status[l], s) /\ s \in OperatorStatuses
        BY <2>1 DEF Put, Visible, Regular
      <4>3. s \in {"pending", "queued"} => status[l] \in {"pending", "queued"}
        BY <4>2 DEF Accepts, Transitions, OperatorStatuses
      <4>4. \A k \in rows : status'[k] \in {"pending", "queued"}
                              => status[k] \in {"pending", "queued"}
        BY <4>1, <4>2, <4>3 DEF Saved, StopOthers, TypeOK
      <4> QED
        BY <4>1, <4>4 DEF BarrierHeld
    <3> QED
      BY <3>1, <3>2
  <2>2. CASE Start
    BY <2>2 DEF Start, BarrierHeld
  <2>3. CASE Cancel
    BY <2>3 DEF Cancel, CancelActive, BarrierHeld, TypeOK
  <2>4. CASE Delete
    BY <2>4 DEF Delete, BarrierHeld
  <2>5. CASE UNCHANGED vars
    BY <2>5 DEF vars, BarrierHeld
  <2> QED
    BY <2>1, <2>2, <2>3, <2>4, <2>5 DEF Next, Regular
<1> QED
  BY <1>1, <1>2, TypeCorrect, PTL DEF Spec

(***************************************************************************)
(* The end is final: a run has an end time only when its jobs completed,   *)
(* and afterwards nothing but a late failure changes them.                 *)
(***************************************************************************)
THEOREM EndIsFinalAlways ==
    ASSUME Regular PROVE Spec => []EndIsFinal
<1>1. Init => EndIsFinal
  BY DEF Init, EndIsFinal
<1>2. TypeOK /\ EndIsFinal /\ [Next]_vars => EndIsFinal'
  <2> SUFFICES ASSUME TypeOK, EndIsFinal, [Next]_vars
               PROVE  EndIsFinal'
    OBVIOUS
  <2>1. ASSUME NEW l \in Locations, NEW s \in ClientStatuses, Put(l, s)
        PROVE  EndIsFinal'
    <3>1. CASE s = "completed" /\ All(status', "completed")
      BY <2>1, <3>1 DEF Put, All, EndIsFinal
    <3>2. CASE ~(s = "completed" /\ All(status', "completed"))
      <4>1. completed' = completed /\ rows' = rows /\ status' = Saved(l, s)
        BY <2>1, <3>2 DEF Put, TypeOK
      <4>2. l \in rows /\ Accepts(status[l], s) /\ s \in OperatorStatuses
        BY <2>1 DEF Put, Visible, Regular
      <4>3. status[l] \in {"completed", "failed"} => s \in {"completed", "failed"}
        BY <4>2 DEF Accepts, Transitions, OperatorStatuses
      <4>4. \A k \in rows : status[k] \in {"completed", "failed"}
                              => status'[k] \in {"completed", "failed"}
        BY <4>1, <4>2, <4>3 DEF Saved, StopOthers, SparedByFailure, TypeOK
      <4> QED
        BY <4>1, <4>4 DEF EndIsFinal
    <3> QED
      BY <3>1, <3>2
  <2>2. CASE Start
    BY <2>2 DEF Start, EndIsFinal
  <2>3. CASE Cancel
    BY <2>3 DEF Cancel, CancelActive, Final, EndIsFinal, TypeOK
  <2>4. CASE Delete
    BY <2>4 DEF Delete, EndIsFinal
  <2>5. CASE UNCHANGED vars
    BY <2>5 DEF vars, EndIsFinal
  <2> QED
    BY <2>1, <2>2, <2>3, <2>4, <2>5 DEF Next, Regular
<1> QED
  BY <1>1, <1>2, TypeCorrect, PTL DEF Spec

================================================================================
