------------------------- MODULE OperatorProcess_proofs ------------------------
(***************************************************************************)
(* Whether a location that is alive is shown as online, for any grace      *)
(* period, boot time, handler time and number of pings lost in a row.      *)
(*                                                                         *)
(* The argument is a budget.  The stamp of a location, the time until the  *)
(* next ping is posted, and a gap for every ping that may still be lost    *)
(* are together no more than Oldest.  Every tick moves one unit from the   *)
(* time until the next ping to the age of the stamp; every ping that is    *)
(* lost moves one gap from the losses that are left to the time until the  *)
(* next ping.  While handlers have yet to save a stamp, the row's stamp is *)
(* measured against theirs.                                                *)
(***************************************************************************)
EXTENDS OperatorProcess, SequenceTheorems, FiniteSetTheorems, TLAPS

--------------------------------------------------------------------------------
(***************************************************************************)
(* The budget.                                                             *)
(***************************************************************************)
\* The ticks from one ping to the next: one, or until the next process runs.
Gap == IF Grace + BootTime = 0 THEN 1 ELSE Grace + BootTime

\* The ticks until the pinger has to ping, at most.
Wait ==
    IF proc = "up" THEN IF due THEN 0 ELSE Gap
    ELSE IF proc = "stopping" THEN left + BootTime ELSE left

\* The ticks that pings which are lost from now on can add.
Losses == (MaxMissed - missed) * Gap

\* The age that a stamp reaches before a later one arrives, at most.
Oldest == HandlerTime + (MaxMissed + 1) * Gap

Clock ==
    /\ due => proc = "up"
    /\ proc = "stopping" => left \in 0..Grace
    /\ proc = "down" => left \in 0..BootTime
    /\ ~known => lastPing = Never

Seen == installed /\ lastPing # Never

Fresh ==
    /\ Seen /\ saves = {} => lastPing + Wait + Losses <= Oldest
    /\ Seen /\ saves # {} => \E age \in saves : lastPing <= Oldest + age

PingsTyped == ProcessTypeOK /\ PingTypeOK

Budget == PingsTyped /\ Clock /\ Fresh

LEMMA Constants ==
    /\ Grace \in Nat /\ BootTime \in Nat /\ HandlerTime \in Nat
    /\ MaxMissed \in Nat /\ OnlineFor \in Nat /\ MaxRestarts \in Nat
    /\ Never \notin Nat /\ HandlerTime <= OnlineFor
    /\ Gap \in Nat /\ Gap >= 1 /\ Gap >= Grace + BootTime
<1>1. /\ Grace \in Nat /\ BootTime \in Nat /\ HandlerTime \in Nat
      /\ MaxMissed \in Nat /\ OnlineFor \in Nat /\ MaxRestarts \in Nat
      /\ Never \notin Nat /\ HandlerTime <= OnlineFor
  BY ProcessAssumption, PingAssumption
<1> QED
  BY <1>1 DEF Gap

LEMMA OldestIs ==
    /\ MaxMissed * Gap \in Nat
    /\ Oldest = HandlerTime + MaxMissed * Gap + Gap
    /\ Oldest \in Nat /\ Oldest >= HandlerTime
<1>1. \A m, g \in Nat : m * g \in Nat /\ (m + 1) * g = m * g + g
  OBVIOUS
<1>2. MaxMissed * Gap \in Nat /\ (MaxMissed + 1) * Gap = MaxMissed * Gap + Gap
  BY <1>1, Constants
<1> QED
  BY <1>2, Constants DEF Oldest

LEMMA OldestIsNat == Oldest \in Nat /\ Oldest >= HandlerTime
  BY OldestIs

\* What the losses that are left amount to, before and after a step.
LEMMA LossesOf ==
    ASSUME PingsTyped
    PROVE  /\ Losses \in Nat
           /\ missed' = missed => Losses' = Losses
           /\ missed' = 0 => Losses' = MaxMissed * Gap
           /\ missed < MaxMissed /\ missed' = missed + 1
                 => Losses' \in Nat /\ Losses' + Gap = Losses
<1>1. missed \in Nat /\ missed <= MaxMissed /\ MaxMissed - missed \in Nat
  BY Constants DEF PingsTyped, PingTypeOK
<1>2. \A n, g \in Nat : n * g \in Nat
  OBVIOUS
<1>3. Losses \in Nat
  BY <1>1, <1>2, Constants DEF Losses
<1>4. missed' = missed => Losses' = Losses
  BY DEF Losses, Gap
<1>5. missed' = 0 => Losses' = MaxMissed * Gap
  <2>1. Losses' = (MaxMissed - missed') * Gap
    BY DEF Losses, Gap
  <2>2. MaxMissed - 0 = MaxMissed
    BY Constants
  <2> QED
    BY <2>1, <2>2
<1>6. ASSUME missed < MaxMissed, missed' = missed + 1
      PROVE  Losses' \in Nat /\ Losses' + Gap = Losses
  <2>1. Losses' = (MaxMissed - (missed + 1)) * Gap
    BY <1>6 DEF Losses, Gap
  <2>2. PICK n \in Nat : MaxMissed - (missed + 1) = n /\ MaxMissed - missed = n + 1
    BY <1>1, <1>6, Constants, MaxMissed - (missed + 1) \in Nat
  <2>3. \A g \in Nat : n * g \in Nat /\ (n + 1) * g = n * g + g
    OBVIOUS
  <2> QED
    BY <2>1, <2>2, <2>3, Constants DEF Losses
<1> QED
  BY <1>3, <1>4, <1>5, <1>6

LEMMA WaitIsNat ==
    ASSUME PingsTyped, Clock
    PROVE  Wait \in Nat
  BY Constants DEF PingsTyped, ProcessTypeOK, PingTypeOK, Clock, Wait

--------------------------------------------------------------------------------
(***************************************************************************)
(* Types.                                                                  *)
(***************************************************************************)
LEMMA TypedInit ==
    ASSUME Init
    PROVE  PingsTyped
  BY Constants DEF Init, ProcessInit, PingInit, PingsTyped, ProcessTypeOK, PingTypeOK

LEMMA TypedNext ==
    ASSUME PingsTyped, [Next]_vars
    PROVE  PingsTyped'
<1> USE DEF PingsTyped, ProcessTypeOK, PingTypeOK
<1>0. ASSUME MissesPing
      PROVE  PingTypeOK'
  <2>1. missed' \in 0..MaxMissed
    BY <1>0, Constants DEF MissesPing
  <2> QED
    BY <1>0, <2>1 DEF MissesPing
<1>1. CASE Stop
  <2>1. ProcessTypeOK'
    BY <1>1, Constants DEF Stop, Terminate
  <2> QED
    BY <1>0, <1>1, <2>1 DEF Stop
<1>2. CASE Killed
  <2>1. ProcessTypeOK'
    BY <1>2, Constants DEF Killed, Crash, Gone
  <2> QED
    BY <1>0, <1>2, <2>1 DEF Killed
<1>3. CASE Uninstall /\ UNCHANGED <<api, delivery, pings>>
  BY <1>3 DEF Uninstall, pings
<1>4. CASE Exit
  BY <1>4, Constants DEF Exit, Gone, pings
<1>5. CASE StartProcess
  BY <1>5, Constants DEF StartProcess, Boot
<1>6. CASE Tick
  <2>1. proc' = proc /\ restarts' = restarts /\ installed' = installed
        /\ known' = known /\ missed' = missed /\ due' \in BOOLEAN
    BY <1>6 DEF Tick, AgePings
  <2>2. left' \in 0..Grace \cup 0..BootTime
    BY <1>6, Constants DEF Tick, PassTime
  <2>3. lastPing' \in Ages \cup {Never}
    BY <1>6, Constants DEF Tick, AgePings, Older, Ages
  <2>4. saves' \subseteq 0..HandlerTime
    BY <1>6, Constants DEF Tick, AgePings, InTime
  <2> QED
    BY <2>1, <2>2, <2>3, <2>4
<1>7. CASE Users
  BY <1>7 DEF Users, process, pings, DeleteLocation, AddTestLocation
<1>8. CASE Deliver
  BY <1>8 DEF Deliver, HandOver, Alone, process, pings
<1>9. CASE PingStep
  <2>0. ProcessTypeOK'
    BY <1>9 DEF PingStep, process
  <2>1. CASE PingArrives
    <3>1. saves' \subseteq 0..HandlerTime
      BY <2>1, Constants DEF PingArrives
    <3> QED
      BY <2>0, <2>1, <3>1 DEF PingArrives
  <2>2. CASE PingUnknown
    BY <2>0, <2>2 DEF PingUnknown
  <2>3. CASE PingLost
    <3>1. missed' \in 0..MaxMissed
      BY <2>3, Constants DEF PingLost
    <3> QED
      BY <2>0, <2>3, <3>1 DEF PingLost
  <2>4. ASSUME NEW age \in saves, SaveStamp(age)
        PROVE  PingsTyped'
    <3>1. age \in 0..HandlerTime /\ age \in Nat
      BY Constants
    <3>2. saves' \subseteq 0..HandlerTime /\ missed' \in 0..MaxMissed
      BY <2>4, Constants DEF SaveStamp
    <3>3. lastPing' \in Ages \cup {Never}
      BY <2>4, <3>1, Constants DEF SaveStamp, Ages
    <3> QED
      BY <2>0, <2>4, <3>2, <3>3 DEF SaveStamp
  <2> QED
    BY <1>9, <2>1, <2>2, <2>3, <2>4 DEF PingStep
<1>10. CASE UNCHANGED vars
  BY <1>10 DEF vars, process, pings
<1> QED
  BY <1>1, <1>2, <1>3, <1>4, <1>5, <1>6, <1>7, <1>8, <1>9, <1>10 DEF Next, Manager

LEMMA ClockInit ==
    ASSUME Init
    PROVE  Clock
  BY DEF Init, ProcessInit, PingInit, Clock

LEMMA ClockNext ==
    ASSUME PingsTyped, Clock, [Next]_vars
    PROVE  Clock'
<1> USE DEF Clock
<1>1. CASE Stop
  BY <1>1, Constants DEF Stop, Terminate, MissesPing
<1>2. CASE Killed
  BY <1>2, Constants DEF Killed, Crash, Gone, MissesPing
<1>3. CASE Uninstall /\ UNCHANGED <<api, delivery, pings>>
  BY <1>3 DEF Uninstall, pings
<1>4. CASE Exit
  BY <1>4, Constants DEF Exit, Gone, pings
<1>5. CASE StartProcess
  BY <1>5 DEF StartProcess, Boot
<1>6. CASE Tick
  <2>1. due' => proc' = "up"
    BY <1>6 DEF Tick, AgePings
  <2>2. proc' = proc /\ (left \in Nat => left' \in Nat /\ left' <= left)
    BY <1>6 DEF Tick, PassTime
  <2>3. ~known' => lastPing' = Never
    BY <1>6 DEF Tick, AgePings, Older
  <2> QED
    BY <2>1, <2>2, <2>3, Constants
<1>7. CASE Users
  BY <1>7 DEF Users, process, pings, DeleteLocation, AddTestLocation
<1>8. CASE Deliver
  BY <1>8 DEF Deliver, HandOver, Alone, process, pings
<1>9. CASE PingStep
  BY <1>9 DEF PingStep, PingArrives, PingUnknown, PingLost, SaveStamp, process
<1>10. CASE UNCHANGED vars
  BY <1>10 DEF vars, process, pings
<1> QED
  BY <1>1, <1>2, <1>3, <1>4, <1>5, <1>6, <1>7, <1>8, <1>9, <1>10 DEF Next, Manager

--------------------------------------------------------------------------------
(***************************************************************************)
(* The budget is never exceeded.                                           *)
(***************************************************************************)
LEMMA FreshInit ==
    ASSUME Init
    PROVE  Fresh
  BY DEF Init, PingInit, Fresh, Seen

\* A step of others than the pinger, the handlers and the clock keeps the
\* budget when it takes no more from the losses than it adds to the wait.
LEMMA FreshWhenSpent ==
    ASSUME PingsTyped, Clock, Fresh, PingsTyped', Clock',
           lastPing' = lastPing, saves' = saves, Seen' => Seen,
           Seen => Wait' + Losses' <= Wait + Losses
    PROVE  Fresh'
<1>1. Oldest' = Oldest
  BY DEF Oldest, Gap
<1>2. Wait \in Nat /\ Losses \in Nat
  BY WaitIsNat, LossesOf
<1>3. Wait' \in Nat
  <2>1. Gap' = Gap
    BY DEF Gap
  <2>2. proc' = "stopping" => left' \in Nat
    BY Constants DEF Clock
  <2>3. proc' = "down" => left' \in Nat
    BY Constants DEF Clock
  <2>4. proc' \in {"up", "stopping", "down"}
    BY DEF PingsTyped, ProcessTypeOK
  <2> QED
    BY <2>1, <2>2, <2>3, <2>4, Constants DEF Wait
<1>4. Losses' \in Nat
  <2>1. MaxMissed - missed' \in Nat
    <3>1. missed' \in 0..MaxMissed
      BY DEF PingsTyped, PingTypeOK
    <3>2. \A m \in 0..MaxMissed : MaxMissed - m \in Nat
      BY Constants
    <3> QED
      BY <3>1, <3>2
  <2>2. \A n, g \in Nat : n * g \in Nat
    OBVIOUS
  <2> QED
    BY <2>1, <2>2, Constants DEF Losses, Gap
<1>5. Seen => lastPing \in Nat
  BY DEF Seen, PingsTyped, PingTypeOK, Ages
<1>6. ASSUME Seen', saves' = {}
      PROVE  lastPing' + Wait' + Losses' <= Oldest'
  <2>1. Seen /\ lastPing + Wait + Losses <= Oldest
    BY <1>6 DEF Fresh
  <2>2. \A p, w, l, v, k, o \in Nat : p + w + l <= o /\ v + k <= w + l => p + v + k <= o
    OBVIOUS
  <2>3. lastPing \in Nat /\ Wait' + Losses' <= Wait + Losses
    BY <2>1, <1>5
  <2>4. lastPing + Wait' + Losses' <= Oldest
    BY <2>1, <2>2, <2>3, <1>2, <1>3, <1>4, OldestIsNat
  <2> QED
    BY <2>4, <1>1
<1>7. ASSUME Seen', saves' # {}
      PROVE  \E age \in saves' : lastPing' <= Oldest' + age
  BY <1>1, <1>7 DEF Fresh
<1> QED
  BY <1>6, <1>7 DEF Fresh

\* Time passes: the stamps and what the row is measured against get older.
LEMMA FreshTick ==
    ASSUME PingsTyped, Clock, Fresh, Tick
    PROVE  Fresh'
<1>1. Oldest' = Oldest /\ Losses' = Losses /\ proc' = proc /\ installed' = installed
  BY LossesOf DEF Oldest, Gap, Tick, AgePings
<1> SUFFICES ASSUME Seen'
             PROVE  /\ saves' = {} => lastPing' + Wait' + Losses <= Oldest
                    /\ saves' # {} => \E age \in saves' : lastPing' <= Oldest + age
  BY <1>1 DEF Fresh
<1>2. lastPing # Never /\ lastPing \in Nat /\ lastPing' \in Nat /\ lastPing' <= lastPing + 1
  BY Constants DEF Tick, AgePings, Older, Seen, PingsTyped, PingTypeOK, Ages
<1>3. Seen
  BY <1>1, <1>2 DEF Seen
<1>4. CASE saves = {}
  <2>1. saves' = {}
    BY <1>4 DEF Tick, AgePings
  <2>2. Wait' \in Nat /\ Wait' + 1 <= Wait
    <3>1. CASE proc = "up"
      <4>1. due' = TRUE /\ ~due
        BY <3>1 DEF Tick, AgePings, PingsTyped, PingTypeOK
      <4> QED
        BY <1>1, <3>1, <4>1, Constants DEF Wait
    <3>2. CASE proc = "stopping"
      <4>1. left \in Nat /\ left # 0
        BY <3>2, Constants DEF Tick, OnTime, Exits, Clock
      <4>2. left' = left - 1
        BY <4>1 DEF Tick, PassTime
      <4> QED
        BY <1>1, <3>2, <4>1, <4>2, Constants DEF Wait
    <3>3. CASE proc = "down"
      <4>1. left \in Nat /\ left # 0
        BY <1>3, <3>3, Constants DEF Tick, OnTime, Clock, Seen
      <4>2. left' = left - 1
        BY <4>1 DEF Tick, PassTime
      <4> QED
        BY <1>1, <3>3, <4>1, <4>2 DEF Wait
    <3> QED
      BY <3>1, <3>2, <3>3 DEF PingsTyped, ProcessTypeOK
  <2>3. lastPing + Wait + Losses <= Oldest
    BY <1>3, <1>4 DEF Fresh
  <2> QED
    BY <1>2, <2>1, <2>2, <2>3, WaitIsNat, LossesOf, OldestIsNat
<1>5. CASE saves # {}
  <2>1. PICK age \in saves : lastPing <= Oldest + age
    BY <1>3, <1>5 DEF Fresh
  <2>2. age \in Nat /\ age + 1 \in saves'
    BY Constants DEF PingsTyped, PingTypeOK, Tick, AgePings
  <2>3. lastPing' <= Oldest + (age + 1)
    BY <1>2, <2>1, <2>2, OldestIsNat
  <2> QED
    BY <2>2, <2>3
<1> QED
  BY <1>4, <1>5

\* A stamp is saved: it is no older than a handler gets.
LEMMA FreshSave ==
    ASSUME PingsTyped, Clock, NEW age \in saves, SaveStamp(age), UNCHANGED process
    PROVE  Fresh'
<1>1. Oldest' = Oldest /\ Losses' = MaxMissed * Gap /\ Wait' = Wait
  BY LossesOf DEF Oldest, Gap, SaveStamp, Wait, process
<1>2. lastPing' = age /\ age \in Nat /\ age <= HandlerTime
  BY Constants DEF SaveStamp, PingsTyped, PingTypeOK
<1>3. Wait <= Gap /\ Wait \in Nat
  BY WaitIsNat, Constants DEF Wait, Clock, PingsTyped, ProcessTypeOK
<1>4. lastPing' + Wait' + Losses' <= Oldest'
  BY <1>1, <1>2, <1>3, Constants, OldestIs
<1>5. ASSUME NEW other \in saves'
      PROVE  lastPing' <= Oldest' + other
  <2>1. other \in Nat
    BY Constants DEF SaveStamp, PingsTyped, PingTypeOK
  <2> QED
    BY <1>1, <1>2, <2>1, Constants, OldestIsNat
<1> QED
  BY <1>4, <1>5 DEF Fresh

LEMMA FreshNext ==
    ASSUME PingsTyped, Clock, Fresh, [Next]_vars
    PROVE  Fresh'
<1>0. PingsTyped' /\ Clock' /\ Gap' = Gap
  BY TypedNext, ClockNext DEF Gap
<1>1. CASE Stop
  <2>1. /\ lastPing' = lastPing /\ saves' = saves /\ installed' = installed
        /\ Wait' = Grace + BootTime
    BY <1>0, <1>1 DEF Stop, Terminate, MissesPing, Wait
  <2>2. proc = "up"
    BY <1>1 DEF Stop, Terminate
  <2>3. ASSUME Seen
        PROVE  Wait' + Losses' <= Wait + Losses
    <3>1. CASE due
      <4>1. missed < MaxMissed /\ missed' = missed + 1
        BY <1>1, <2>3, <3>1 DEF Stop, MissesPing, Seen
      <4>2. Wait = 0
        BY <2>2, <3>1 DEF Wait
      <4> QED
        BY <2>1, <4>1, <4>2, LossesOf, Constants
    <3>2. CASE ~due
      <4>1. missed' = missed
        BY <1>1, <3>2 DEF Stop, MissesPing
      <4>2. Wait = Gap
        BY <2>2, <3>2 DEF Wait
      <4> QED
        BY <2>1, <4>1, <4>2, LossesOf, Constants
    <3> QED
      BY <3>1, <3>2
  <2> QED
    BY <1>0, <2>1, <2>3, FreshWhenSpent DEF Seen
<1>2. CASE Killed
  <2>1. /\ lastPing' = lastPing /\ saves' = saves /\ installed' = installed
        /\ Wait' = BootTime
    BY <1>2 DEF Killed, Crash, Gone, MissesPing, Wait
  <2>3. ASSUME Seen
        PROVE  Wait' + Losses' <= Wait + Losses
    <3>1. CASE due
      <4>1. missed < MaxMissed /\ missed' = missed + 1
        BY <1>2, <2>3, <3>1 DEF Killed, MissesPing, Seen
      <4> QED
        BY <2>1, <4>1, WaitIsNat, LossesOf, Constants
    <3>2. CASE ~due
      <4>1. missed' = missed
        BY <1>2, <3>2 DEF Killed, MissesPing
      <4>2. BootTime <= Wait
        BY <1>2, <3>2, Constants
        DEF Killed, Crash, Wait, Clock, PingsTyped, ProcessTypeOK
      <4> QED
        BY <2>1, <4>1, <4>2, WaitIsNat, LossesOf, Constants
    <3> QED
      BY <3>1, <3>2
  <2> QED
    BY <1>0, <2>1, <2>3, FreshWhenSpent DEF Seen
<1>3. CASE Uninstall /\ UNCHANGED <<api, delivery, pings>>
  BY <1>3 DEF Uninstall, Fresh, Seen
<1>4. CASE Exit
  <2>1. /\ lastPing' = lastPing /\ saves' = saves /\ installed' = installed
        /\ missed' = missed /\ Wait' = BootTime
    BY <1>4 DEF Exit, Gone, pings, Wait
  <2>2. BootTime <= Wait
    BY <1>4, Constants DEF Exit, Clock, Wait
  <2>3. Wait' + Losses' <= Wait + Losses
    BY <2>1, <2>2, WaitIsNat, LossesOf, Constants
  <2> QED
    BY <1>0, <2>1, <2>3, FreshWhenSpent DEF Seen
<1>5. CASE StartProcess
  <2>1. /\ lastPing' = lastPing /\ saves' = saves /\ installed' = installed
        /\ missed' = missed /\ Wait' = 0
    BY <1>5 DEF StartProcess, Boot, Wait
  <2>2. Wait' + Losses' <= Wait + Losses
    BY <2>1, WaitIsNat, LossesOf
  <2> QED
    BY <1>0, <2>1, <2>2, FreshWhenSpent DEF Seen
<1>6. CASE Tick
  BY <1>6, FreshTick
<1>7. CASE Users
  <2>1. CASE DeleteLocation
    BY <2>1 DEF DeleteLocation, Fresh, Seen
  <2>2. CASE UNCHANGED <<process, lastPing, saves, due, missed>>
    BY <2>2 DEF process, Fresh, Seen, Wait, Losses, Oldest, Gap
  <2> QED
    BY <1>7, <2>1, <2>2 DEF Users, pings, AddTestLocation
<1>8. CASE Deliver
  BY <1>8 DEF Deliver, HandOver, Alone, process, pings, Fresh, Seen, Wait, Losses, Oldest, Gap
<1>9. CASE PingStep
  <2>0. UNCHANGED process /\ Oldest' = Oldest /\ Wait \in Nat
    BY <1>9, WaitIsNat DEF PingStep, Oldest, Gap
  <2>1. CASE PingArrives
    <3>1. /\ lastPing' = lastPing /\ installed' = installed
          /\ saves' = saves \cup {0} /\ missed' = missed /\ Wait = 0
      BY <2>0, <2>1 DEF PingArrives, process, Wait
    <3>2. ASSUME Seen'
          PROVE  \E age \in saves' : lastPing' <= Oldest' + age
      <4>1. CASE saves = {}
        <5>1. lastPing + Wait + Losses <= Oldest /\ lastPing \in Nat
          BY <3>1, <3>2, <4>1 DEF Fresh, Seen, PingsTyped, PingTypeOK, Ages
        <5>2. lastPing <= Oldest + 0
          BY <3>1, <5>1, LossesOf, OldestIsNat
        <5> QED
          BY <2>0, <3>1, <5>2
      <4>2. CASE saves # {}
        BY <2>0, <3>1, <3>2, <4>2 DEF Fresh, Seen
      <4> QED
        BY <4>1, <4>2
    <3> QED
      BY <3>1, <3>2 DEF Fresh
  <2>2. CASE PingUnknown
    <3>1. lastPing' = Never
      BY <2>2 DEF PingUnknown, Clock
    <3> QED
      BY <3>1 DEF Fresh, Seen
  <2>3. CASE PingLost
    <3>1. /\ lastPing' = lastPing /\ saves' = saves /\ installed' = installed
          /\ missed < MaxMissed /\ missed' = missed + 1 /\ Wait = 0 /\ Wait' = Gap
      BY <1>0, <2>0, <2>3 DEF PingLost, process, Wait
    <3>2. Wait' + Losses' <= Wait + Losses
      BY <3>1, LossesOf, Constants
    <3> QED
      BY <1>0, <3>1, <3>2, FreshWhenSpent DEF Seen
  <2>4. ASSUME NEW age \in saves, SaveStamp(age)
        PROVE  Fresh'
    BY <2>0, <2>4, FreshSave
  <2> QED
    BY <1>9, <2>1, <2>2, <2>3, <2>4 DEF PingStep
<1>10. CASE UNCHANGED vars
  BY <1>10 DEF vars, process, pings, Fresh, Seen, Wait, Losses, Oldest, Gap
<1> QED
  BY <1>1, <1>2, <1>3, <1>4, <1>5, <1>6, <1>7, <1>8, <1>9, <1>10 DEF Next, Manager

LEMMA BudgetAlways == Spec => []Budget
<1>1. Init => Budget
  BY TypedInit, ClockInit, FreshInit DEF Budget
<1>2. Budget /\ [Next]_vars => Budget'
  BY TypedNext, ClockNext, FreshNext DEF Budget
<1> QED
  BY <1>1, <1>2, PTL DEF Spec

--------------------------------------------------------------------------------
(***************************************************************************)
(* A live location is not shown as offline once it has been seen, when its *)
(* stamps go stale later than two handlers take, one after the other, and  *)
(* the pings that may be lost in a row leave out, each of them as long as  *)
(* a process takes to be replaced.  The status of a location in models.py, *)
(* the pinger of ping.go and the manager's grace period are that far apart *)
(* (five minutes, half a minute, half a minute).                           *)
(***************************************************************************)
THEOREM LiveShownOnlineAlways ==
    ASSUME 2 * HandlerTime + (MaxMissed + 1) * Gap < OnlineFor
    PROVE  Spec => []LiveShownOnline
<1>1. Oldest + HandlerTime < OnlineFor
  <2>1. (MaxMissed + 1) * Gap = MaxMissed * Gap + Gap
    BY Constants, \A m, g \in Nat : (m + 1) * g = m * g + g
  <2> QED
    BY <2>1, OldestIs, Constants
<1>2. Budget => LiveShownOnline
  <2> SUFFICES ASSUME Budget, Seen
               PROVE  lastPing < OnlineFor
    BY DEF LiveShownOnline, Online, Seen
  <2>1. lastPing \in Nat
    BY DEF Budget, PingsTyped, PingTypeOK, Seen, Ages
  <2>2. CASE saves = {}
    <3>1. lastPing + Wait + Losses <= Oldest
      BY <2>2 DEF Budget, Fresh
    <3>2. Wait \in Nat /\ Losses \in Nat
      BY WaitIsNat, LossesOf DEF Budget
    <3> QED
      BY <1>1, <2>1, <3>1, <3>2, OldestIsNat, Constants
  <2>3. CASE saves # {}
    <3>1. PICK age \in saves : lastPing <= Oldest + age
      BY <2>3 DEF Budget, Fresh
    <3>2. age \in Nat /\ age <= HandlerTime
      BY Constants DEF Budget, PingsTyped, PingTypeOK
    <3> QED
      BY <1>1, <2>1, <3>1, <3>2, OldestIsNat, Constants
  <2> QED
    BY <2>2, <2>3
<1> QED
  BY <1>2, BudgetAlways, PTL

--------------------------------------------------------------------------------
(***************************************************************************)
(* What is on its way to the worker.                                       *)
(***************************************************************************)
LEMMA SetToSeqOf ==
    ASSUME NEW S, IsFiniteSet(S)
    PROVE  SetToSeq(S) \in Seq(S)
<1>1. Cardinality(S) \in Nat /\ ExistsBijection(1..Cardinality(S), S)
  BY FS_CardinalityType
<1>2. PICK f \in Bijection(1..Cardinality(S), S) : TRUE
  BY <1>1 DEF ExistsBijection
<1>3. f \in [1..Cardinality(S) -> S] /\ IsInjective(f)
  BY <1>2, Zenon DEF Bijection, Injection
<1>4. SetToSeq(S) \in [1..Cardinality(S) -> S]
  BY <1>3, Zenon DEF SetToSeq
<1> QED
  BY <1>1, <1>4

\* What a List hands over: every job that is listed, with its listing.
LEMMA ListedItems ==
    ASSUME IsFiniteSet(Jobs), WorkerTypeOK
    PROVE  SetToSeq({[job |-> j, listing |-> api[j]] : j \in Listed}) \in Seq(Items)
<1> DEFINE T == {[job |-> j, listing |-> api[j]] : j \in Listed}
           f == [j \in Listed |-> [job |-> j, listing |-> api[j]]]
<1>1. IsFiniteSet(Listed)
  BY FS_Subset DEF Listed
<1>2. f \in Surjection(Listed, T)
  BY DEF Surjection
<1>3. IsFiniteSet(T)
  BY <1>1, <1>2, FS_Surjection
<1>4. T \subseteq Items
  BY DEF Listed, Items, WorkerTypeOK, Listings
<1>5. SetToSeq(T) \in Seq(T)
  BY <1>3, SetToSeqOf
<1> HIDE DEF T
<1>6. Seq(T) \subseteq Seq(Items)
  BY <1>4
<1> QED
  BY <1>5, <1>6 DEF T

LEMMA WorkerTyped ==
    ASSUME IsFiniteSet(Jobs), WorkerTypeOK, [Next]_vars
    PROVE  WorkerTypeOK'
<1> USE DEF WorkerTypeOK
<1>1. <<>> \in Seq(Items)
  OBVIOUS
<1>2. CASE Forgotten /\ UNCHANGED api
  BY <1>1, <1>2 DEF Forgotten
<1>3. CASE UNCHANGED <<api, delivery>>
  BY <1>3 DEF delivery
<1>4. CASE Users
  BY <1>4 DEF Users, delivery, JobAppears, JobEnds, JobDeleted, Listings
<1>5. CASE Deliver
  <2>0. api' = api
    BY <1>5 DEF Deliver, HandOver, Alone
  <2>1. CASE Receive
    <3>1. watch' \in Seq(Items) /\ Head(watch) \in Items
      BY <2>1, HeadTailProperties DEF Receive
    <3>2. worker' \in {Selecting} \cup Jobs
      BY <2>1, <3>1 DEF Receive, Items
    <3> QED
      BY <2>0, <2>1, <3>1, <3>2 DEF Receive
  <2>2. CASE \E j \in Jobs : Send(j)
    BY <2>0, <2>2 DEF Send
  <2>3. CASE List
    BY <2>0, <2>3, ListedItems DEF List
  <2>4. CASE SourceStarts \/ SourceStops \/ WorkerReturns
    BY <2>0, <2>4 DEF SourceStarts, SourceStops, WorkerReturns
  <2> QED
    BY <1>5, <2>1, <2>2, <2>3, <2>4 DEF Deliver, HandOver
<1> QED
  BY <1>2, <1>3, <1>4, <1>5
  DEF Next, Manager, Stop, Killed, Exit, StartProcess, Tick, PingStep, vars

(***************************************************************************)
(* Every variable of an operator's process, its worker, its pinger and of  *)
(* the stamps that the web app keeps of them has its type, for any finite  *)
(* set of jobs.                                                            *)
(***************************************************************************)
THEOREM TypeCorrect ==
    ASSUME IsFiniteSet(Jobs)
    PROVE  Spec => []TypeOK
<1>1. Init => TypeOK
  <2>1. Init => WorkerTypeOK
    BY DEF Init, WorkerInit, DeliveryInit, WorkerTypeOK
  <2> QED
    BY <2>1, TypedInit DEF TypeOK, PingsTyped
<1>2. TypeOK /\ [Next]_vars => TypeOK'
  BY TypedNext, WorkerTyped DEF TypeOK, PingsTyped
<1> QED
  BY <1>1, <1>2, PTL DEF Spec
================================================================================
