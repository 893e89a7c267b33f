----------------------------- MODULE Dashboard_proofs --------------------------
(***************************************************************************)
(* The status column of the list of test runs never steps back, for any    *)
(* locations.  The argument: no job ever moves to an earlier stage, and    *)
(* the column shows a failed or canceled job if there is one and else the  *)
(* job that is furthest behind.                                            *)
(***************************************************************************)
EXTENDS OrderlyApe_proofs

LEMMA StageOf ==
    /\ Stage["draft"] = 0 /\ Stage["pending"] = 1 /\ Stage["queued"] = 2
    /\ Stage["ready"] = 3 /\ Stage["running"] = 4 /\ Stage["completed"] = 5
    /\ Stage["canceled"] = 6 /\ Stage["failed"] = 7
  BY DEF Stage

LEMMA RankOf ==
    /\ DisplayRank["failed"] = 1 /\ DisplayRank["canceled"] = 2
    /\ DisplayRank["pending"] = 3 /\ DisplayRank["queued"] = 4
    /\ DisplayRank["ready"] = 5 /\ DisplayRank["running"] = 6
    /\ DisplayRank["completed"] = 7
  BY DEF DisplayRank

\* The display looks for failed and canceled first and then goes by stage.
LEMMA RankAndStage ==
    ASSUME NEW s \in Status, NEW t \in Status
    PROVE  /\ DisplayRank[s] \in 1..7 /\ Stage[s] \in 1..7
           /\ DisplayRank[s] <= DisplayRank[t] /\ s \notin {"failed", "canceled"}
                 => Stage[s] <= Stage[t]
           /\ DisplayRank[s] <= DisplayRank[t] /\ t = "failed" => s = "failed"
           /\ DisplayRank[s] <= DisplayRank[t] /\ t = "canceled"
                 => s \in {"failed", "canceled"}
           /\ Stage[s] <= Stage[t] /\ s = "failed" => t = "failed"
           /\ Stage[s] <= Stage[t] /\ s = "canceled" => t \in {"failed", "canceled"}
  BY StageOf, RankOf DEF Status

\* The column shows the first status in the order of the display.
LEMMA ShownIsFirst ==
    ASSUME NEW S \in SUBSET Status, S # {}
    PROVE  /\ StatusColumn(FALSE, S) \in S
           /\ \A t \in S : DisplayRank[StatusColumn(FALSE, S)] <= DisplayRank[t]
<1>1. \E s \in S : \A t \in S : DisplayRank[s] <= DisplayRank[t]
  <2>1. CASE "failed" \in S
    BY <2>1, RankOf, RankAndStage
  <2>2. CASE "failed" \notin S /\ "canceled" \in S
    BY <2>2, RankOf DEF Status
  <2>3. CASE S \cap {"failed", "canceled"} = {} /\ "pending" \in S
    BY <2>3, RankOf DEF Status
  <2>4. CASE S \cap {"failed", "canceled", "pending"} = {} /\ "queued" \in S
    BY <2>4, RankOf DEF Status
  <2>5. CASE S \cap {"failed", "canceled", "pending", "queued"} = {} /\ "ready" \in S
    BY <2>5, RankOf DEF Status
  <2>6. CASE S \subseteq {"running", "completed"} /\ "running" \in S
    BY <2>6, RankOf
  <2>7. CASE S = {"completed"}
    BY <2>7, RankOf
  <2> QED
    BY <2>1, <2>2, <2>3, <2>4, <2>5, <2>6, <2>7 DEF Status
<1> QED
  BY <1>1 DEF StatusColumn

(***************************************************************************)
(* If each job moves on, so does the run.                                  *)
(***************************************************************************)
LEMMA ShownFollowsJobs ==
    ASSUME NEW S \in SUBSET Status, NEW T \in SUBSET Status, S # {}, T # {},
           \A s \in S : \E t \in T : Stage[s] <= Stage[t],
           \A t \in T : \E s \in S : Stage[s] <= Stage[t]
    PROVE  Stage[StatusColumn(FALSE, S)] <= Stage[StatusColumn(FALSE, T)]
<1> DEFINE s == StatusColumn(FALSE, S)
           t == StatusColumn(FALSE, T)
<1> SUFFICES Stage[s] <= Stage[t]
  OBVIOUS
<1>1. s \in S /\ \A x \in S : DisplayRank[s] <= DisplayRank[x]
  BY ShownIsFirst
<1>2. t \in T /\ \A x \in T : DisplayRank[t] <= DisplayRank[x]
  BY ShownIsFirst
<1> HIDE DEF s, t
<1>3. CASE s \in {"failed", "canceled"}
  <2>1. PICK x \in T : Stage[s] <= Stage[x]
    BY <1>1
  <2>2. x \in {"failed", "canceled"} /\ (s = "failed" => x = "failed")
    BY <1>1, <2>1, <1>3, RankAndStage
  <2>3. DisplayRank[t] <= DisplayRank[x] /\ t \in Status /\ x \in Status
    BY <1>2
  <2>4. t \in {"failed", "canceled"} /\ (s = "failed" => t = "failed")
    BY <2>2, <2>3, RankAndStage
  <2> QED
    BY <2>4, <1>3, StageOf
<1>4. CASE s \notin {"failed", "canceled"}
  <2>1. PICK x \in S : Stage[x] <= Stage[t]
    BY <1>2
  <2>2. Stage[s] <= Stage[x]
    <3>1. DisplayRank[s] <= DisplayRank[x] /\ s \in Status /\ x \in Status
      BY <1>1, <2>1
    <3> QED
      BY <1>4, <3>1, RankAndStage
  <2>3. Stage[s] \in 1..7 /\ Stage[x] \in 1..7 /\ Stage[t] \in 1..7
    BY <1>1, <1>2, <2>1, RankAndStage
  <2> QED
    BY <2>1, <2>2, <2>3
<1> QED
  BY <1>3, <1>4

\* No request moves a job back.
LEMMA JobsMoveOn ==
    ASSUME Regular, TypeOK, [Next]_vars, exists'
    PROVE  /\ rows' = rows
           /\ draft' = draft \/ (draft /\ ~draft')
           /\ \A l \in rows : Stage[status[l]] <= Stage[status'[l]]
<1>1. ASSUME NEW l \in Locations, NEW s \in ClientStatuses, Put(l, s)
      PROVE  \A k \in rows : Stage[status[k]] <= Stage[status'[k]]
  <2>1. Accepts(status[l], s) /\ s \in OperatorStatuses /\ l \in rows
        /\ status' = Saved(l, s)
    BY <1>1 DEF Put, Regular, Visible
  <2>2. Stage[status[l]] <= Stage[s]
    BY <2>1, StageOf DEF Accepts, Transitions, OperatorStatuses, TypeOK, Status
  <2>3. CASE s = "failed"
    <3>1. \A k \in rows : \/ status'[k] = status[k]
                          \/ status'[k] = "failed"
                          \/ status'[k] = "canceled" /\ status[k] # "failed"
      BY <2>1, <2>3 DEF Saved, StopOthers, SparedByFailure, TypeOK
    <3> QED
      BY <3>1, StageOf DEF TypeOK, Status
  <2>4. CASE s # "failed"
    <3>1. status' = [status EXCEPT ![l] = s]
      BY <2>1, <2>4 DEF Saved
    <3> QED
      BY <3>1, <2>2, StageOf DEF TypeOK, Status
  <2> QED
    BY <2>3, <2>4
<1>2. ASSUME Cancel
      PROVE  \A k \in rows : Stage[status[k]] <= Stage[status'[k]]
  BY <1>2, StageOf DEF Cancel, CancelActive, Final, TypeOK, Status
<1>3. ASSUME UNCHANGED status
      PROVE  \A k \in rows : Stage[status[k]] <= Stage[status'[k]]
  BY <1>3, StageOf DEF TypeOK, Status
<1>4. Start \/ UNCHANGED vars => UNCHANGED status
  BY DEF Start, vars
<1>5. rows' = rows /\ (draft' = draft \/ (draft /\ ~draft'))
  <2>1. ~Delete /\ ~(\E l \in Locations : "add" \in Requests /\ Add(l))
    BY DEF Delete, Regular
  <2> QED
    BY <2>1 DEF Next, Put, Start, Cancel, vars
<1> QED
  BY <1>1, <1>2, <1>3, <1>4, <1>5 DEF Next, Delete, Regular

LEMMA ShownStep ==
    ASSUME Regular, TypeOK, TypeOK', [Next]_vars, exists'
    PROVE  Stage[Shown] <= Stage[Shown']
<1>1. Statuses \in SUBSET Status /\ Statuses' \in SUBSET Status
  BY DEF Statuses, TypeOK
<1>2. /\ rows' = rows
      /\ draft' = draft \/ (draft /\ ~draft')
      /\ \A l \in rows : Stage[status[l]] <= Stage[status'[l]]
  BY JobsMoveOn
<1>3. ~draft' => Shown' \in Status
  <2>1. Statuses' # {} => StatusColumn(FALSE, Statuses') \in Statuses'
    BY <1>1, ShownIsFirst
  <2>2. Statuses' = {} => StatusColumn(FALSE, Statuses') = "completed"
    BY DEF StatusColumn
  <2>3. ~draft' => Shown' = StatusColumn(FALSE, Statuses')
    BY DEF Shown, TypeOK
  <2> QED
    BY <1>1, <2>1, <2>2, <2>3 DEF Status
<1>4. CASE draft
  <2>1. Shown = "draft" /\ (Shown' = "draft" \/ Shown' \in Status)
    BY <1>2, <1>3, <1>4 DEF Shown, StatusColumn
  <2> QED
    BY <2>1, StageOf DEF Status
<1>5. CASE ~draft /\ rows = {}
  BY <1>2, <1>5, StageOf DEF Shown, StatusColumn, Statuses
<1>6. CASE ~draft /\ rows # {}
  <2>1. Statuses # {} /\ Statuses' # {}
    BY <1>2, <1>6 DEF Statuses
  <2>2. /\ \A s \in Statuses : \E t \in Statuses' : Stage[s] <= Stage[t]
        /\ \A t \in Statuses' : \E s \in Statuses : Stage[s] <= Stage[t]
    BY <1>2 DEF Statuses
  <2>3. Shown = StatusColumn(FALSE, Statuses) /\ Shown' = StatusColumn(FALSE, Statuses')
    BY <1>2, <1>6 DEF Shown, TypeOK
  <2> QED
    BY <1>1, <2>1, <2>2, <2>3, ShownFollowsJobs
<1> QED
  BY <1>4, <1>5, <1>6

(***************************************************************************)
(* Who has seen a run start, fail or complete in the list does not see it  *)
(* wait again, whatever order the locations report in, for any locations.  *)
(* (admin.py:status)                                                       *)
(***************************************************************************)
THEOREM ShownNeverGoesBackAlways ==
    ASSUME Complete PROVE System => ShownNeverGoesBack
<1>1. TypeOK /\ TypeOK' /\ [Next]_vars
        => [exists' => Stage[Shown] <= Stage[Shown']]_system
  BY ShownStep DEF Complete
<1> QED
  BY <1>1, SystemImplementsAPI, TypeCorrect, PTL DEF Spec, ShownNeverGoesBack

================================================================================
