--------------------------------- MODULE Worker --------------------------------
(***************************************************************************)
(* How the operator finds out about its jobs.  The goroutine of Watch      *)
(* lists the jobs of the location and hands them one by one to the worker, *)
(* which hands those that are neither completed nor failed to the          *)
(* controller's source, which puts them into the work queue.  Both         *)
(* channels are unbuffered: sender and receiver wait for each other.       *)
(*                                                                         *)
(* The goroutine of Watch is not a runnable of the manager and nothing     *)
(* stops it (StopCh is never set); it ends with the process.               *)
(***************************************************************************)
EXTENDS Process, Sequences, SequencesExt

CONSTANTS
    Jobs,      \* the names of test runs
    Malformed  \* those whose node selector or deadline cannot be decoded

ASSUME WorkerAssumption == Malformed \subseteq Jobs

VARIABLES
    api,     \* what the web app lists of each job
    watch,   \* what the goroutine of Watch has yet to hand over
    worker,  \* the worker, and the job it is handing over
    source   \* "off", "on" or "stopped"

delivery == <<watch, worker, source>>

(***************************************************************************)
(* A job is "over" when it is completed or failed, and listed until its    *)
(* run is deleted.  Canceled jobs are passed on like active ones.          *)
(***************************************************************************)
Listings == {"absent", "active", "over"}
Listed == {j \in Jobs : api[j] # "absent"}
Items == [job : Jobs, listing : {"active", "over"}]

Selecting == "select"
Returned == "returned"

DeliveryInit ==
    /\ watch = <<>>
    /\ worker = Selecting
    /\ source = "off"

WorkerInit ==
    /\ api \in [Jobs -> Listings]
    /\ DeliveryInit

WorkerTypeOK ==
    /\ api \in [Jobs -> Listings]
    /\ watch \in Seq(Items)
    /\ worker \in {Selecting, Returned} \cup Jobs
    /\ source \in {"off", "on", "stopped"}

--------------------------------------------------------------------------------
\* Users and operators move the jobs; a name is free again after a deletion.
JobEnds(j) ==
    /\ api[j] = "active"
    /\ api' = [api EXCEPT ![j] = "over"]

JobDeleted(j) ==
    /\ api[j] # "absent"
    /\ api' = [api EXCEPT ![j] = "absent"]

JobAppears(j) ==
    /\ api[j] = "absent"
    /\ api' = [api EXCEPT ![j] = "active"]

\* The answer to a List is decoded as a whole, the jobs that are over included.
Decodable == Listed \cap Malformed = {}

(***************************************************************************)
(* A List that succeeds.  One that fails, for the network or for a job     *)
(* that cannot be decoded, yields nothing.                                 *)
(***************************************************************************)
List ==
    /\ proc # "down"
    /\ watch = <<>>
    /\ Decodable
    /\ watch' = SetToSeq({[job |-> j, listing |-> api[j]] : j \in Listed})
    /\ UNCHANGED <<worker, source>>

\* The worker's select receives a job and asks the filter.
Receive ==
    /\ proc # "down"
    /\ worker = Selecting
    /\ watch # <<>>
    /\ watch' = Tail(watch)
    /\ worker' = IF Head(watch).listing = "active" THEN Head(watch).job ELSE Selecting
    /\ UNCHANGED source

(***************************************************************************)
(* w.C <- event: the worker waits for the source, and for nothing else.    *)
(* The source puts the job into the controller's work queue.               *)
(***************************************************************************)
Send(j) ==
    /\ proc # "down"
    /\ worker = j
    /\ source = "on"
    /\ worker' = Selecting
    /\ UNCHANGED <<watch, source>>

\* The controller starts its source when the caches have synced.
SourceStarts ==
    /\ proc = "up"
    /\ source = "off"
    /\ source' = "on"
    /\ UNCHANGED <<watch, worker>>

(***************************************************************************)
(* The manager cancels the context: the source and the worker return, in   *)
(* any order, the worker only from its select.                             *)
(***************************************************************************)
SourceStops ==
    /\ proc = "stopping"
    /\ source # "stopped"
    /\ source' = "stopped"
    /\ UNCHANGED <<watch, worker>>

WorkerReturns ==
    /\ proc = "stopping"
    /\ worker = Selecting
    /\ worker' = Returned
    /\ UNCHANGED <<watch, source>>

================================================================================
