-------------------------------- MODULE Segments -------------------------------
(***************************************************************************)
(* How the load of a test run is divided among its worker pods.  k6 takes  *)
(* the borders of all segments (--execution-segment-sequence) and the      *)
(* segment of the pod (--execution-segment).  The web app computes both    *)
(* from the rows of the run, each time an operator reads its job, with     *)
(* three queries of their own: the sequence, the workers of the rows       *)
(* before, the workers of all rows.  The operator puts what it was told    *)
(* into the Job it creates, and nobody ever tells a pod again.             *)
(*                                                                         *)
(* This module has the rows and the queries; TestRunForm has the rest of   *)
(* the form in which the rows are edited, and the specification of both.   *)
(***************************************************************************)
EXTENDS TestLocations, Integers, FiniteSets, SequencesExt

CONSTANT MaxWorkers  \* bound on num_workers, a small integer in the database

ASSUME SegmentsAssumption == MaxWorkers \in Nat

VARIABLES
    draft,  \* TestRun.draft
    jobs,   \* the TestRunLocation rows in the order of their primary keys
    told,   \* what each operator has read of its job
    grown   \* the locations whose operator was told of workers that were
            \* added between its own queries; nothing in the code records it

segments == <<draft, jobs, told, grown>>

(***************************************************************************)
(* A border is a fraction, as k6 reads it: <<numerator, denominator>>.     *)
(***************************************************************************)
Zero == <<0, 1>>
One == <<1, 1>>
Below(a, b) == a[1] * b[2] < b[1] * a[2]
Same(a, b) == a[1] * b[2] = b[1] * a[2]

\* The workers of the first 0, 1, 2... rows.
WorkersUpTo(js) ==
    LET sum[n \in 0 .. Len(js)] == IF n = 0 THEN 0 ELSE sum[n - 1] + js[n].workers
    IN  sum

WorkersOf(js) == WorkersUpTo(js)[Len(js)]

\* Mutant of Borders: the first border is skipped.
BordersFromTwo(workers) ==
    <<Zero>> \o [idx \in 1 .. workers - 2 |-> <<idx + 1, workers>>] \o <<One>>

\* TestRun.segments
Borders(workers) ==
    <<Zero>> \o [idx \in 1 .. workers - 1 |-> <<idx, workers>>] \o <<One>>

\* get_segment_part
SegmentPart(index, total) ==
    IF index = 0 THEN Zero ELSE IF index = total THEN One ELSE <<index, total>>

Chosen == {jobs[i].location : i \in DOMAIN jobs}

RowOf(l) == CHOOSE i \in DOMAIN jobs : jobs[i].location = l

\* Mutants of Before: all rows count from the first worker; the row's own
\* workers are counted; the rows with a larger key are.
BeforeNothing(l) == 0
BeforeInclusive(l) == WorkersUpTo(jobs)[RowOf(l)]
BeforeAfter(l) == WorkersOf(jobs) - WorkersUpTo(jobs)[RowOf(l)]

\* The workers of the rows with a smaller primary key.
Before(l) == WorkersUpTo(jobs)[RowOf(l) - 1]

(***************************************************************************)
(* What an operator has read so far: the sequence, then the number of      *)
(* workers before its own, then the number of all workers.                 *)
(***************************************************************************)
Nothing == [step |-> "sequence", sequence |-> <<>>, start |-> 0, total |-> 0]

Reading(l, step) == told[l].step = step

\* The segments and segment ids of the pods of a Job, by completion index.
AssignedSegments(l) ==
    LET start == told[l].start
        total == told[l].total
    IN  [i \in 1 .. jobs[RowOf(l)].workers |->
            [from |-> SegmentPart(start + i - 1, total),
             to |-> SegmentPart(start + i, total),
             id |-> start + i]]

--------------------------------------------------------------------------------
SegmentsInit ==
    /\ draft = TRUE
    /\ jobs = <<>>
    /\ told = [l \in Locations |-> Nothing]
    /\ grown = {}

\* Mutant of Add: a location can be chosen twice.
AddAgain(l, n) ==
    /\ Len(jobs) < Cardinality(Locations)
    /\ jobs' = Append(jobs, [location |-> l, workers |-> n])
    /\ UNCHANGED <<draft, told, grown>>

\* The form offers the locations that have no row yet, and takes no other.
Available == Locations \ Chosen

\* The operators that have read the sequence and not yet the total.
Interrupted == {k \in Locations : Reading(k, "start") \/ Reading(k, "total")}

\* New locations are taken of a draft and of a run that has started.
Add(l, n) ==
    /\ l \in Available
    /\ jobs' = Append(jobs, [location |-> l, workers |-> n])
    /\ grown' = IF n = 0 THEN grown ELSE grown \cup Interrupted
    /\ UNCHANGED <<draft, told>>

\* The rows of a draft can be changed and removed.
Change(l, n) ==
    /\ draft
    /\ l \in Chosen
    /\ jobs' = [jobs EXCEPT ![RowOf(l)].workers = n]
    /\ UNCHANGED <<draft, told, grown>>

RemoveRow(l) ==
    /\ draft
    /\ l \in Chosen
    /\ jobs' = RemoveAt(jobs, RowOf(l))
    /\ UNCHANGED <<draft, told, grown>>

(***************************************************************************)
(* The GET of a job by the reconcile that creates its Job, query by query. *)
(***************************************************************************)
ReadSequence(l) ==
    /\ ~draft
    /\ l \in Chosen
    /\ Reading(l, "sequence")
    /\ told' = [told EXCEPT ![l].step = "start",
                            ![l].sequence = Borders(WorkersOf(jobs))]
    /\ UNCHANGED <<draft, jobs, grown>>

ReadStart(l) ==
    /\ Reading(l, "start")
    /\ told' = [told EXCEPT ![l].step = "total", ![l].start = Before(l)]
    /\ UNCHANGED <<draft, jobs, grown>>

ReadTotal(l) ==
    /\ Reading(l, "total")
    /\ told' = [told EXCEPT ![l].step = "job", ![l].total = WorkersOf(jobs)]
    /\ UNCHANGED <<draft, jobs, grown>>

--------------------------------------------------------------------------------
TotalBound == MaxWorkers * Cardinality(Locations)

(***************************************************************************)
(* Types; a location has at most one row.                                  *)
(***************************************************************************)
SegmentsTypeOK ==
    /\ draft \in BOOLEAN
    /\ jobs \in Seq([location : Locations, workers : 0..MaxWorkers])
    /\ Len(jobs) = Cardinality(Chosen)
    /\ \A l \in Locations :
          /\ told[l].step \in {"sequence", "start", "total", "job"}
          /\ told[l].sequence \in {<<>>} \cup {Borders(w) : w \in 0..TotalBound}
          /\ told[l].start \in 0..TotalBound
          /\ told[l].total \in 0..TotalBound
    /\ grown \subseteq Locations

\* The pods that exist: those of the locations whose Job was created.
WithJob == {l \in Locations : Reading(l, "job")}
PodsOf(L) == {p \in L \X (1..MaxWorkers) : p[2] <= jobs[RowOf(p[1])].workers}
Segment(pod) == AssignedSegments(pod[1])[pod[2]]

(***************************************************************************)
(* The locations whose sequence is still that of the run: all of them,     *)
(* unless workers were added after they had read it.                       *)
(***************************************************************************)
UpToDate == {l \in WithJob : told[l].sequence = Borders(WorkersOf(jobs))}

(***************************************************************************)
(* No part of the load is generated twice: the segments of two pods do not *)
(* overlap, although different operators computed them at different times. *)
(* (models.py:assigned_segments)                                           *)
(***************************************************************************)
NoOverlap ==
    \A p, q \in PodsOf(UpToDate) :
        \/ p = q
        \/ ~Below(Segment(p).from, Segment(q).to)
        \/ ~Below(Segment(q).from, Segment(p).to)

(***************************************************************************)
(* Together the pods generate all of the load: once every location has its *)
(* Job, and none was added after another had read the run, each stretch    *)
(* between neighbouring borders belongs to a pod, however the workers are  *)
(* split and with locations that have none.                                *)
(* (models.py:segments, assigned_segments)                                 *)
(***************************************************************************)
AllCovered ==
    UpToDate = Chosen =>
        \A i \in 1 .. WorkersOf(jobs) :
            \E p \in PodsOf(Chosen) :
                /\ Same(Segment(p).from, <<i - 1, WorkersOf(jobs)>>)
                /\ Same(Segment(p).to, <<i, WorkersOf(jobs)>>)

\* The borders of the pod's segment are neighbours in the sequence it was given.
InSequence(pod) ==
    LET sequence == told[pod[1]].sequence
    IN  \E i \in 1 .. Len(sequence) - 1 :
            /\ Same(Segment(pod).from, sequence[i])
            /\ Same(Segment(pod).to, sequence[i + 1])

(***************************************************************************)
(* k6 refuses a segment that is not in its sequence.  The sequence and the *)
(* total come from different queries of one GET, and a location can be     *)
(* added between them: then the segments are finer than the sequence, as   *)
(* 0:1/2 is for the sequence 0, 1.  This is what happens to a Job, then    *)
(* and only then, and to all of its pods alike: a Job whose operator was   *)
(* told of workers between its queries has no pod that k6 accepts, and     *)
(* every other Job, whatever is added before or after, has no other.       *)
(* (models.py:segments, assigned_segments)                                 *)
(***************************************************************************)
SegmentInSequence ==
    \A p \in PodsOf(WithJob) : InSequence(p) <=> p[1] \notin grown

(***************************************************************************)
(* segment_number, the tag by which the metrics of two pods of a run are   *)
(* told apart, is unique, also when locations are added to a live run      *)
(* between the reads of two operators.  (models.py:assigned_segments)      *)
(***************************************************************************)
NumbersUnique ==
    \A p, q \in PodsOf(WithJob) : Segment(p).id = Segment(q).id => p = q

================================================================================
