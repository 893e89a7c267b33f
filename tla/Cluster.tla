-------------------------------- MODULE Cluster --------------------------------
(***************************************************************************)
(* The Kubernetes cluster of each location, as the k6-operator sees it:    *)
(* the batch/v1 Job of the test run with its pods, the Secret the pods     *)
(* mount, and the informer's copy of the Job that the controller-runtime   *)
(* client reads.  None of this is code of the repository; it is modelled   *)
(* from how testrun_controller.go creates, reads and judges these objects. *)
(***************************************************************************)
EXTENDS TestLocations

CONSTANTS
    HasDeadline,  \* the test run has a job_deadline
    TestEnds,     \* k6 comes to the end of the test by itself
    Empty         \* the locations that were chosen with no workers

ASSUME ClusterAssumption == Empty \subseteq Locations

(***************************************************************************)
(* The phases of a Job.  Its pods start k6 paused: they are ready when k6  *)
(* answers its readiness probe, and generate load once they were ignited.  *)
(* A Job of an empty location has no pods: it is "bare" until the Job      *)
(* controller has seen that it is "complete".                              *)
(***************************************************************************)
Phases == {"absent", "created", "ready", "partial", "running",
           "succeeded", "failed", "suspended", "bare", "complete"}

\* Status.Ready equals the number of segments.
AllPodsReady == {"ready", "partial", "running"}

\* Status.Active is not zero.
HasPods == {"created"} \cup AllPodsReady

\* No pod is active, and as many have succeeded as there are segments.
WithoutPods == {"bare", "complete"}

\* k6 is executing the test in some pod.
Loading == {"partial", "running"}

VARIABLES
    kjob,    \* the Job of each location
    cache,   \* the informer's copy of it
    secret   \* the telegraf Secret exists

cluster == <<kjob, cache, secret>>

ClusterTypeOK ==
    /\ kjob \in [Locations -> Phases]
    /\ cache \in [Locations -> Phases]
    /\ secret \in [Locations -> BOOLEAN]

ClusterInit ==
    /\ kjob = [l \in Locations |-> "absent"]
    /\ cache = [l \in Locations |-> "absent"]
    /\ secret = [l \in Locations |-> FALSE]

SetJob(l, phase) == kjob' = [kjob EXCEPT ![l] = phase]

\* Pods that cannot mount their Secret never get ready.
PodsReady(l) ==
    /\ kjob[l] = "created"
    /\ secret[l]
    /\ SetJob(l, "ready")
    /\ UNCHANGED <<cache, secret>>

PodsSucceed(l) ==
    /\ kjob[l] = "running"
    /\ SetJob(l, "succeeded")
    /\ UNCHANGED <<cache, secret>>

\* The Job controller is done with a Job of no completions at once.
NothingToRun(l) ==
    /\ kjob[l] = "bare"
    /\ SetJob(l, "complete")
    /\ UNCHANGED <<cache, secret>>

\* A pod fails or the deadline passes: with backoffLimit 0 the Job fails.
JobFails(l) ==
    /\ kjob[l] \in HasPods
    /\ SetJob(l, "failed")
    /\ UNCHANGED <<cache, secret>>

\* ttlSecondsAfterFinished: the Job is removed an hour after its end, which is
\* long after the informer was told of the end.
JobExpires(l) ==
    /\ kjob[l] \in {"succeeded", "failed", "complete"}
    /\ cache[l] = kjob[l]
    /\ SetJob(l, "absent")
    /\ secret' = [secret EXCEPT ![l] = FALSE]
    /\ UNCHANGED cache

\* A watch event reaches the informer.
Informed(l) ==
    /\ cache[l] # kjob[l]
    /\ cache' = [cache EXCEPT ![l] = kjob[l]]
    /\ UNCHANGED <<kjob, secret>>

================================================================================
