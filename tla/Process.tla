--------------------------------- MODULE Process -------------------------------
(***************************************************************************)
(* The process of the operator of one location: the manager, which runs    *)
(* the worker, the pinger and the controller's source, and the Deployment  *)
(* that starts the next process when this one is gone (its strategy is     *)
(* Recreate).  Worker and Ping say what the runnables do; OperatorProcess  *)
(* puts them together.                                                     *)
(***************************************************************************)
EXTENDS Naturals

CONSTANTS
    Grace,       \* ticks for which a manager that stops waits for its runnables
    BootTime,    \* ticks until the next process runs
    MaxRestarts  \* bound on the processes that end

ASSUME ProcessAssumption ==
    /\ Grace \in Nat
    /\ BootTime \in Nat
    /\ MaxRestarts \in Nat

VARIABLES
    proc,       \* "up", "stopping" or "down"
    left,       \* ticks left of the grace period, or until the next process runs
    restarts,   \* the processes that have ended or are about to
    installed   \* the operator is installed

process == <<proc, left, restarts, installed>>

ProcessInit ==
    /\ proc = "up"
    /\ left = 0
    /\ restarts = 0
    /\ installed = TRUE

ProcessTypeOK ==
    /\ proc \in {"up", "stopping", "down"}
    /\ left \in 0..Grace \cup 0..BootTime
    /\ restarts \in 0..MaxRestarts
    /\ installed \in BOOLEAN

\* SIGTERM: the pod is replaced, or the operator is being removed.
Terminate ==
    /\ proc = "up"
    /\ \/ ~installed /\ UNCHANGED restarts
       \/ restarts < MaxRestarts /\ restarts' = restarts + 1
    /\ proc' = "stopping"
    /\ left' = Grace
    /\ UNCHANGED installed

\* The process is gone; what it had in memory goes with it.
Gone ==
    /\ proc' = "down"
    /\ left' = BootTime
    /\ UNCHANGED installed

Crash ==
    /\ proc # "down"
    /\ restarts < MaxRestarts
    /\ restarts' = restarts + 1
    /\ Gone

Boot ==
    /\ proc = "down"
    /\ installed
    /\ proc' = "up"
    /\ left' = 0
    /\ UNCHANGED <<restarts, installed>>

Uninstall ==
    /\ installed
    /\ installed' = FALSE
    /\ UNCHANGED <<proc, left, restarts>>

PassTime == left' = IF left > 0 THEN left - 1 ELSE 0

================================================================================
