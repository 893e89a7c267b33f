----------------------------- MODULE OperatorProcess ---------------------------
(***************************************************************************)
(* The process of an operator with its worker, its pinger and the          *)
(* controller's source, next to the web app that lists jobs to it and      *)
(* takes its pings: delivery and liveness across restarts.                 *)
(***************************************************************************)
EXTENDS Worker, Ping

vars == <<process, api, delivery, pings>>

Init == ProcessInit /\ WorkerInit /\ PingInit

\* Mutant of Exits: a manager that waits for its runnables for ever.
ExitsWhenReturned == source = "stopped" /\ worker = Returned

\* The manager returns when its runnables have, or after the grace period.
Exits == (source = "stopped" /\ worker = Returned) \/ left = 0

\* The memory of a process that is gone.
Forgotten ==
    /\ watch' = <<>>
    /\ worker' = Selecting
    /\ source' = "off"

Exit ==
    /\ proc = "stopping"
    /\ Exits
    /\ Gone
    /\ Forgotten
    /\ UNCHANGED <<restarts, api, pings>>

(***************************************************************************)
(* A process that ends before it has posted the ping that is due misses    *)
(* it; while the operator is installed, no more than MaxMissed in a row    *)
(* are.                                                                    *)
(***************************************************************************)
MissesPing ==
    /\ IF due /\ installed THEN missed < MaxMissed /\ missed' = missed + 1
       ELSE UNCHANGED missed
    /\ due' = FALSE
    /\ UNCHANGED <<known, lastPing, saves>>

Stop == Terminate /\ MissesPing /\ UNCHANGED <<api, delivery>>

Killed == Crash /\ Forgotten /\ MissesPing /\ UNCHANGED api

\* The pinger pings as soon as it is started.
StartProcess ==
    /\ Boot
    /\ due' = TRUE
    /\ UNCHANGED <<api, delivery, known, lastPing, saves, missed>>

Manager ==
    \/ Stop
    \/ Killed
    \/ Uninstall /\ UNCHANGED <<api, delivery, pings>>
    \/ Exit
    \/ StartProcess

(***************************************************************************)
(* A tick of half a minute.  Nobody is late: a process that may end at the *)
(* end of its grace period does, and the next one runs after BootTime.     *)
(***************************************************************************)
OnTime ==
    /\ proc = "stopping" /\ left = 0 => ~Exits
    /\ proc = "down" /\ left = 0 => ~installed

Tick ==
    /\ OnTime
    /\ PassTime
    /\ AgePings
    /\ UNCHANGED <<proc, restarts, installed, api, delivery>>

Users ==
    \/ /\ \E j \in Jobs : JobAppears(j) \/ JobEnds(j) \/ JobDeleted(j)
       /\ UNCHANGED <<process, delivery, pings>>
    \/ /\ DeleteLocation \/ AddTestLocation
       /\ UNCHANGED <<process, api, delivery>>

Alone == UNCHANGED <<process, api, pings>>

HandOver == (Receive \/ \E j \in Jobs : Send(j)) /\ Alone

Deliver ==
    \/ HandOver
    \/ (List \/ SourceStarts \/ SourceStops \/ WorkerReturns) /\ Alone

PingStep ==
    /\ PingArrives \/ PingUnknown \/ PingLost \/ \E age \in saves : SaveStamp(age)
    /\ UNCHANGED <<process, api, delivery>>

Next ==
    \/ Manager
    \/ Tick
    \/ Users
    \/ Deliver
    \/ PingStep

(***************************************************************************)
(* Goroutines that can take a step do, time passes, a process that may     *)
(* end does, Kubernetes starts the next one and removes an uninstalled     *)
(* one.  A List that could succeed does at some time.  Nobody has to make  *)
(* a request.                                                              *)
(***************************************************************************)
Spec ==
    /\ Init /\ [][Next]_vars
    /\ WF_vars(Tick)
    /\ WF_vars(Exit)
    /\ WF_vars(StartProcess)
    /\ WF_vars(~installed /\ Stop)
    /\ WF_vars(PingStep)
    /\ WF_vars(List /\ Alone)
    /\ WF_vars(HandOver)
    /\ WF_vars(SourceStarts /\ Alone)

--------------------------------------------------------------------------------
TypeOK == ProcessTypeOK /\ WorkerTypeOK /\ PingTypeOK

(***************************************************************************)
(* A live location is not shown as offline once it has been seen: not when *)
(* its operator is replaced or crashes, also if the worker is stuck in its *)
(* send and the manager waits for it, not when pings get lost, and not     *)
(* when a slow handler puts an older stamp over a newer one.               *)
(* (models.py:staus, ping.go:Start, worker.go:Start)                       *)
(***************************************************************************)
LiveShownOnline == installed /\ lastPing # Never => Online(lastPing)

(***************************************************************************)
(* A location whose operator was removed is shown as offline in the end,   *)
(* and stays so: no handler that is late, and no process that is slow to   *)
(* end, brings it back.  (models.py:staus, views.py:create)                *)
(***************************************************************************)
DeadShownOffline == ~installed ~> []~Online(lastPing)

(***************************************************************************)
(* A job that stays active is put into the work queue again and again,     *)
(* also when the process is replaced while the worker is stuck in its      *)
(* send, unless the operator is removed.  But as long as the web app lists *)
(* a job that the operator cannot decode, even one that is over, nobody    *)
(* has to be told of any.  (uncached.go:Watch, worker.go:Start)            *)
(***************************************************************************)
Expected(j) == api[j] = "active" /\ installed /\ Decodable

ActiveJobsArrive ==
    \A j \in Jobs \ Malformed :
        []<>~Expected(j) \/ []<><<Send(j)>>_vars

================================================================================
