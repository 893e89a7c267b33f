----------------------------- MODULE Segments_proofs ---------------------------
(***************************************************************************)
(* The division of the load, for any locations and any numbers of workers: *)
(* the segments of the pods cover all of the load and do not overlap, k6   *)
(* accepts them, and their numbers tell the pods apart.                    *)
(*                                                                         *)
(* The sums of workers are a recursive function of the number of rows, so  *)
(* what they compute is proved by induction over the natural numbers.  Two *)
(* facts about the rows carry the rest.  A row never changes once the run  *)
(* was started, and new rows come behind it: the workers before a row stay *)
(* as many as its operator was told.  And workers are only added: an       *)
(* operator whose sequence is still that of the run was told, by a later   *)
(* query, of the same number of workers.                                   *)
(***************************************************************************)
EXTENDS TestRunForm_proofs, SequenceTheorems, FiniteSetTheorems

--------------------------------------------------------------------------------
(***************************************************************************)
(* Induction over the natural numbers, from the least element of a set.    *)
(***************************************************************************)
LEMMA Least ==
    ASSUME NEW T \in SUBSET Nat, T # {}
    PROVE  \E n \in T : \A m \in T : n <= m
<1> DEFINE R == OpToRel(<, Nat)
<1>1. \E n \in T : \A m \in T : ~ (<<m, n>> \in R)
  BY NatLessThanWellFounded, WFMin
<1>2. \A m, n \in Nat : <<m, n>> \in R <=> m < n
  BY DEF OpToRel
<1> HIDE DEF R
<1>3. PICK n \in T : \A m \in T : ~ (<<m, n>> \in R)
  BY <1>1
<1>4. ASSUME NEW m \in T
      PROVE  n <= m
  <2>1. m \in Nat /\ n \in Nat /\ ~ (m < n)
    BY <1>2, <1>3
  <2> QED
    BY <2>1
<1> QED
  BY <1>4

\* A set that holds zero and with each number the next one holds them all.
LEMMA Induct ==
    ASSUME NEW T \in SUBSET Nat, 0 \in T, \A n \in Nat : n \in T => n + 1 \in T
    PROVE  T = Nat
<1> SUFFICES ASSUME T # Nat PROVE FALSE
  OBVIOUS
<1>1. PICK n \in Nat \ T : \A m \in Nat \ T : n <= m
  BY Least
<1>2. n # 0 /\ n - 1 \in Nat
  OBVIOUS
<1>3. n - 1 \in T
  BY <1>1, <1>2
<1> QED
  BY <1>2, <1>3, n = (n - 1) + 1

--------------------------------------------------------------------------------
(***************************************************************************)
(* The sums of workers.                                                    *)
(***************************************************************************)
Rows == [location : Locations, workers : 0..MaxWorkers]

\* A function that sums up the workers of the first rows.
Sums(js, n, f) == f = [i \in 0..n |-> IF i = 0 THEN 0 ELSE f[i - 1] + js[i].workers]

\* There is such a function for any number of rows.
LEMMA SumsExist ==
    ASSUME NEW js
    PROVE  \A n \in Nat : \E f : Sums(js, n, f)
<1> DEFINE T == {n \in Nat : \E f : Sums(js, n, f)}
<1>1. 0 \in T
  <2> DEFINE f == [i \in 0..0 |-> 0]
  <2>1. Sums(js, 0, f)
    BY DEF Sums
  <2> QED
    BY <2>1
<1>2. ASSUME NEW n \in Nat, n \in T
      PROVE  n + 1 \in T
  <2>1. PICK f : Sums(js, n, f)
    BY <1>2
  <2> DEFINE g == [i \in 0..(n + 1) |-> IF i <= n THEN f[i] ELSE f[n] + js[i].workers]
  <2>2. \A i \in 0..(n + 1) : g[i] = IF i = 0 THEN 0 ELSE g[i - 1] + js[i].workers
    <3> SUFFICES ASSUME NEW i \in 0..(n + 1)
                 PROVE  g[i] = IF i = 0 THEN 0 ELSE g[i - 1] + js[i].workers
      OBVIOUS
    <3>1. CASE i <= n
      <4>1. f[i] = IF i = 0 THEN 0 ELSE f[i - 1] + js[i].workers
        BY <2>1, <3>1 DEF Sums
      <4>2. g[i] = f[i] /\ (i # 0 => g[i - 1] = f[i - 1])
        BY <3>1
      <4> QED
        BY <4>1, <4>2
    <3>2. CASE i = n + 1
      <4>1. g[i] = f[n] + js[i].workers /\ g[i - 1] = f[n]
        BY <3>2
      <4> QED
        BY <3>2, <4>1
    <3> QED
      BY <3>1, <3>2
  <2>3. g = [i \in 0..(n + 1) |-> g[i]]
    OBVIOUS
  <2> HIDE DEF g
  <2>4. Sums(js, n + 1, g)
    BY <2>2, <2>3 DEF Sums
  <2> QED
    BY <2>4
<1> HIDE DEF T
<1>3. T = Nat
  BY <1>1, <1>2, Induct DEF T
<1> QED
  BY <1>3 DEF T

\* The recursive function of Segments is one.
LEMMA WorkersUpToSums ==
    ASSUME NEW js \in Seq(Rows)
    PROVE  Sums(js, Len(js), WorkersUpTo(js))
<1>1. Len(js) \in Nat
  BY LenProperties
<1>2. WorkersUpTo(js) =
          CHOOSE f : f = [i \in 0..Len(js) |-> IF i = 0 THEN 0 ELSE f[i - 1] + js[i].workers]
  BY DEF WorkersUpTo
<1> QED
  BY <1>1, <1>2, SumsExist DEF Sums

\* Each row adds its workers.
LEMMA WorkersUpToStep ==
    ASSUME NEW js \in Seq(Rows)
    PROVE  /\ WorkersUpTo(js)[0] = 0
           /\ \A n \in 1..Len(js) : WorkersUpTo(js)[n] = WorkersUpTo(js)[n - 1] + js[n].workers
<1>1. Len(js) \in Nat
  BY LenProperties
<1> QED
  BY <1>1, WorkersUpToSums DEF Sums

\* A row has a location and as many workers as the database can hold.
LEMMA RowWorkers ==
    ASSUME NEW js \in Seq(Rows), NEW n \in 1..Len(js)
    PROVE  /\ js[n] \in Rows
           /\ js[n].location \in Locations
           /\ js[n].workers \in 0..MaxWorkers /\ js[n].workers \in Nat
<1>1. js[n] \in Rows
  BY ElementOfSeq
<1> QED
  BY <1>1, SegmentsAssumption DEF Rows

\* The sums are natural numbers.
LEMMA WorkersUpToType ==
    ASSUME NEW js \in Seq(Rows)
    PROVE  \A n \in 0..Len(js) : WorkersUpTo(js)[n] \in Nat
<1> DEFINE T == {n \in Nat : n <= Len(js) => WorkersUpTo(js)[n] \in Nat}
<1>1. Len(js) \in Nat
  BY LenProperties
<1>2. 0 \in T
  BY WorkersUpToStep
<1>3. ASSUME NEW n \in Nat, n \in T
      PROVE  n + 1 \in T
  <2> SUFFICES ASSUME n + 1 <= Len(js) PROVE WorkersUpTo(js)[n + 1] \in Nat
    OBVIOUS
  <2>1. n + 1 \in 1..Len(js) /\ (n + 1) - 1 = n /\ WorkersUpTo(js)[n] \in Nat
    BY <1>1, <1>3
  <2>2. WorkersUpTo(js)[n + 1] = WorkersUpTo(js)[n] + js[n + 1].workers
    BY <2>1, WorkersUpToStep
  <2> QED
    BY <2>1, <2>2, RowWorkers
<1> HIDE DEF T
<1>4. T = Nat
  BY <1>2, <1>3, Induct DEF T
<1> QED
  BY <1>1, <1>4 DEF T

\* The sums grow with the rows.
LEMMA WorkersUpToGrows ==
    ASSUME NEW js \in Seq(Rows), NEW m \in 0..Len(js), NEW n \in m..Len(js)
    PROVE  WorkersUpTo(js)[m] <= WorkersUpTo(js)[n]
<1> DEFINE T == {k \in Nat : m + k <= Len(js) => WorkersUpTo(js)[m] <= WorkersUpTo(js)[m + k]}
<1>1. Len(js) \in Nat /\ m \in Nat
  BY LenProperties
<1>2. 0 \in T
  BY <1>1, WorkersUpToType
<1>3. ASSUME NEW k \in Nat, k \in T
      PROVE  k + 1 \in T
  <2> DEFINE i == m + (k + 1)
  <2> SUFFICES ASSUME i <= Len(js)
               PROVE  WorkersUpTo(js)[m] <= WorkersUpTo(js)[i]
    OBVIOUS
  <2>1. i \in 1..Len(js) /\ i - 1 = m + k /\ WorkersUpTo(js)[m] <= WorkersUpTo(js)[m + k]
    BY <1>1, <1>3
  <2>2. WorkersUpTo(js)[i] = WorkersUpTo(js)[m + k] + js[i].workers
    BY <2>1, WorkersUpToStep
  <2>3. WorkersUpTo(js)[m] \in Nat /\ WorkersUpTo(js)[m + k] \in Nat /\ js[i].workers \in Nat
    BY <1>1, <2>1, WorkersUpToType, RowWorkers
  <2> HIDE DEF i
  <2> QED
    BY <2>1, <2>2, <2>3
<1> HIDE DEF T
<1>4. T = Nat
  BY <1>2, <1>3, Induct DEF T
<1>5. n - m \in Nat /\ m + (n - m) = n /\ n <= Len(js)
  BY <1>1
<1> QED
  BY <1>4, <1>5 DEF T

\* No more than MaxWorkers for each row.
LEMMA WorkersUpToBound ==
    ASSUME NEW js \in Seq(Rows)
    PROVE  \A n \in 0..Len(js) : WorkersUpTo(js)[n] <= MaxWorkers * n
<1> DEFINE T == {n \in Nat : n <= Len(js) => WorkersUpTo(js)[n] <= MaxWorkers * n}
<1>1. Len(js) \in Nat /\ MaxWorkers \in Nat
  BY LenProperties, SegmentsAssumption
<1>2. 0 \in T
  BY <1>1, WorkersUpToStep
<1>3. ASSUME NEW n \in Nat, n \in T
      PROVE  n + 1 \in T
  <2> SUFFICES ASSUME n + 1 <= Len(js)
               PROVE  WorkersUpTo(js)[n + 1] <= MaxWorkers * (n + 1)
    OBVIOUS
  <2>1. n + 1 \in 1..Len(js) /\ (n + 1) - 1 = n /\ WorkersUpTo(js)[n] <= MaxWorkers * n
    BY <1>1, <1>3
  <2>2. WorkersUpTo(js)[n + 1] = WorkersUpTo(js)[n] + js[n + 1].workers
    BY <2>1, WorkersUpToStep
  <2>3. WorkersUpTo(js)[n] \in Nat /\ js[n + 1].workers \in 0..MaxWorkers
    BY <1>1, <2>1, WorkersUpToType, RowWorkers
  <2>4. MaxWorkers * (n + 1) = MaxWorkers * n + MaxWorkers /\ MaxWorkers * n \in Nat
    BY <1>1
  <2> QED
    BY <1>1, <2>1, <2>2, <2>3, <2>4
<1> HIDE DEF T
<1>4. T = Nat
  BY <1>2, <1>3, Induct DEF T
<1> QED
  BY <1>1, <1>4 DEF T

\* A row that is appended does not change the sums before it.
LEMMA AppendUpTo ==
    ASSUME NEW js \in Seq(Rows), NEW row \in Rows
    PROVE  \A n \in 0..Len(js) : WorkersUpTo(Append(js, row))[n] = WorkersUpTo(js)[n]
<1> DEFINE more == Append(js, row)
           T == {n \in Nat : n <= Len(js) => WorkersUpTo(more)[n] = WorkersUpTo(js)[n]}
<1>1. Len(js) \in Nat /\ more \in Seq(Rows) /\ Len(more) = Len(js) + 1
      /\ \A n \in 1..Len(js) : more[n] = js[n]
  BY LenProperties, AppendProperties
<1> HIDE DEF more
<1>2. 0 \in T
  BY <1>1, WorkersUpToStep
<1>3. ASSUME NEW n \in Nat, n \in T
      PROVE  n + 1 \in T
  <2> SUFFICES ASSUME n + 1 <= Len(js)
               PROVE  WorkersUpTo(more)[n + 1] = WorkersUpTo(js)[n + 1]
    OBVIOUS
  <2>1. /\ n + 1 \in 1..Len(js) /\ n + 1 \in 1..Len(more) /\ (n + 1) - 1 = n
        /\ WorkersUpTo(more)[n] = WorkersUpTo(js)[n]
    BY <1>1, <1>3
  <2>2. WorkersUpTo(js)[n + 1] = WorkersUpTo(js)[n] + js[n + 1].workers
    BY <2>1, WorkersUpToStep
  <2>3. WorkersUpTo(more)[n + 1] = WorkersUpTo(more)[n] + more[n + 1].workers
    BY <1>1, <2>1, WorkersUpToStep
  <2> QED
    BY <1>1, <2>1, <2>2, <2>3
<1> HIDE DEF T
<1>4. T = Nat
  BY <1>2, <1>3, Induct DEF T
<1> QED
  BY <1>1, <1>4 DEF T, more

--------------------------------------------------------------------------------
(***************************************************************************)
(* Borders and segments.                                                   *)
(***************************************************************************)
LEMMA BordersAt ==
    ASSUME NEW w \in Nat, w > 0
    PROVE  /\ Len(Borders(w)) = w + 1
           /\ \A x \in 0..w : Borders(w)[x + 1] = SegmentPart(x, w)
<1> DEFINE inner == [idx \in 1 .. w - 1 |-> <<idx, w>>]
           F == Nat \X Nat
<1>1. inner \in Seq(F) /\ Len(inner) = w - 1
  <2>1. inner \in [1 .. w - 1 -> F] /\ w - 1 \in Nat
    OBVIOUS
  <2> HIDE DEF inner
  <2>2. inner \in Seq(F)
    BY <2>1
  <2> QED
    BY <2>1, <2>2, LenProperties
<1>2. <<Zero>> \in Seq(F) /\ <<One>> \in Seq(F) /\ Len(<<Zero>>) = 1 /\ Len(<<One>>) = 1
      /\ <<Zero>>[1] = Zero /\ <<One>>[1] = One
  BY DEF Zero, One
<1>3. \A i \in 1 .. w - 1 : inner[i] = <<i, w>>
  OBVIOUS
<1>4. Borders(w) = (<<Zero>> \o inner) \o <<One>>
  BY DEF Borders
<1> HIDE DEF inner, F
<1> DEFINE head == <<Zero>> \o inner
<1>5. /\ head \in Seq(F) /\ Len(head) = w
      /\ \A i \in 1..w : head[i] = IF i <= 1 THEN <<Zero>>[i] ELSE inner[i - 1]
  BY <1>1, <1>2, ConcatProperties
<1> HIDE DEF head
<1>6. /\ Len(head \o <<One>>) = w + 1
      /\ \A i \in 1..w + 1 : (head \o <<One>>)[i] = IF i <= w THEN head[i] ELSE <<One>>[i - w]
  BY <1>2, <1>5, ConcatProperties
<1>7. /\ Len(Borders(w)) = w + 1
      /\ \A i \in 1..w + 1 : Borders(w)[i] = IF i <= w THEN head[i] ELSE <<One>>[i - w]
  BY <1>4, <1>6 DEF head
<1>8. ASSUME NEW x \in 0..w
      PROVE  Borders(w)[x + 1] = SegmentPart(x, w)
  <2>1. CASE x = 0
    <3>1. 1 \in 1..w /\ 1 \in 1..w + 1 /\ 1 <= w /\ 0 + 1 = 1
      OBVIOUS
    <3>2. Borders(w)[1] = head[1]
      BY <1>7, <3>1
    <3>3. head[1] = <<Zero>>[1]
      BY <1>5, <3>1
    <3> QED
      BY <1>2, <2>1, <3>1, <3>2, <3>3 DEF SegmentPart
  <2>2. CASE x = w
    <3>1. (w + 1) - w = 1 /\ w + 1 \in 1..w + 1 /\ ~(w + 1 <= w)
      OBVIOUS
    <3>2. Borders(w)[w + 1] = One
      BY <1>2, <1>7, <3>1
    <3> QED
      BY <2>2, <3>2 DEF SegmentPart
  <2>3. CASE x # 0 /\ x # w
    <3>1. /\ x + 1 \in 1..w /\ x + 1 \in 1..w + 1 /\ ~(x + 1 <= 1) /\ (x + 1) - 1 = x
          /\ x \in 1 .. w - 1 /\ x + 1 <= w
      BY <2>3
    <3>2. Borders(w)[x + 1] = head[x + 1]
      BY <1>7, <3>1
    <3>3. head[x + 1] = inner[x]
      BY <1>5, <3>1
    <3>4. inner[x] = <<x, w>>
      BY <1>3, <3>1
    <3> QED
      BY <2>3, <3>2, <3>3, <3>4 DEF SegmentPart
  <2> QED
    BY <2>1, <2>2, <2>3
<1> QED
  BY <1>7, <1>8

\* The borders of a run with workers tell how many it has.
LEMMA BordersTell ==
    ASSUME NEW v \in Nat, v > 0, NEW w \in Nat, w > 0, Borders(v) = Borders(w)
    PROVE  v = w
<1>1. Len(Borders(v)) = v + 1 /\ Len(Borders(w)) = w + 1
  BY BordersAt
<1> QED
  BY <1>1

\* Fractions of the same denominator are in the order of their numerators.
LEMMA Times ==
    ASSUME NEW w \in Nat, w > 0, NEW x \in Nat, NEW y \in Nat
    PROVE  x * w \in Nat /\ (x * w < y * w <=> x < y)
  OBVIOUS

\* A border is a fraction of the whole.
LEMMA PartsInOrder ==
    ASSUME NEW w \in Nat, w > 0, NEW x \in 0..w, NEW y \in 0..w
    PROVE  /\ Below(SegmentPart(x, w), SegmentPart(y, w)) <=> x < y
           /\ Same(SegmentPart(x, w), <<x, w>>)
<1>1. x * w < y * w <=> x < y
  BY Times
<1>2. \A z : SegmentPart(0, z) = <<0, 1>>
  BY DEF SegmentPart, Zero
<1>3. SegmentPart(w, w) = <<1, 1>>
  BY DEF SegmentPart, One
<1>4. \A z \in 0..w : z # 0 /\ z # w => SegmentPart(z, w) = <<z, w>>
  BY DEF SegmentPart
<1>5. CASE x = 0
  BY <1>1, <1>2, <1>3, <1>4, <1>5 DEF Below, Same
<1>6. CASE x = w
  BY <1>1, <1>2, <1>3, <1>4, <1>6 DEF Below, Same
<1>7. CASE x # 0 /\ x # w
  BY <1>1, <1>2, <1>3, <1>4, <1>7 DEF Below, Same
<1> QED
  BY <1>5, <1>6, <1>7

--------------------------------------------------------------------------------
(***************************************************************************)
(* What an operator has been told is still true when it creates its Job,   *)
(* but for the workers that were added since.                              *)
(***************************************************************************)
Told == [step : {"sequence", "start", "total", "job"},
         sequence : {<<>>} \cup {Borders(w) : w \in Nat}, start : Nat, total : Nat]

Typed ==
    /\ draft \in BOOLEAN
    /\ jobs \in Seq(Rows)
    /\ told \in [Locations -> Told]
    /\ grown \subseteq Locations

OneRowEach ==
    \A i, j \in 1..Len(jobs) : jobs[i].location = jobs[j].location => i = j

\* The total that the operator was told, or would be told now.
Latest(l) == IF Reading(l, "job") THEN told[l].total ELSE WorkersOf(jobs)

\* The sequence divides the load by w, the number of workers at that time, to
\* which the rows up to its own belonged; it is the total unless workers were
\* added in between.
SequenceOf(l, w) ==
    /\ told[l].sequence = Borders(w)
    /\ WorkersUpTo(jobs)[RowOf(l)] <= w
    /\ w <= Latest(l)
    /\ Latest(l) <= WorkersOf(jobs)
    /\ l \notin grown <=> w = Latest(l)

Knows(l) ==
    \/ told[l] = Nothing /\ l \notin grown
    \/ /\ ~Reading(l, "sequence")
       /\ ~draft
       /\ l \in Chosen
       /\ \E w \in Nat : SequenceOf(l, w)
       /\ told[l].start = IF Reading(l, "start") THEN 0 ELSE Before(l)
       /\ ~Reading(l, "job") => told[l].total = 0

Informed == \A l \in Locations : Knows(l)

Divides == Typed /\ OneRowEach /\ Informed

\* The first rows have no more workers than all of them.
LEMMA WorkersTotal ==
    ASSUME NEW js \in Seq(Rows)
    PROVE  /\ WorkersOf(js) \in Nat
           /\ \A n \in 0..Len(js) : WorkersUpTo(js)[n] <= WorkersOf(js)
<1>1. Len(js) \in Nat
  BY LenProperties
<1>2. WorkersOf(js) \in Nat
  BY <1>1, WorkersUpToType DEF WorkersOf
<1>3. ASSUME NEW n \in 0..Len(js)
      PROVE  WorkersUpTo(js)[n] <= WorkersOf(js)
  <2>1. Len(js) \in n..Len(js)
    BY <1>1
  <2> QED
    BY <2>1, WorkersUpToGrows DEF WorkersOf
<1> QED
  BY <1>2, <1>3

\* The chosen locations are those of the rows.
LEMMA ChosenRows ==
    ASSUME jobs \in Seq(Rows)
    PROVE  Chosen = {jobs[i].location : i \in 1..Len(jobs)} /\ Chosen \subseteq Locations
<1>1. DOMAIN jobs = 1..Len(jobs)
  BY LenProperties
<1> QED
  BY <1>1, RowWorkers DEF Chosen

\* A chosen location has a row.
LEMMA RowOfChosen ==
    ASSUME jobs \in Seq(Rows), NEW l \in Chosen
    PROVE  RowOf(l) \in 1..Len(jobs) /\ jobs[RowOf(l)].location = l
<1>1. DOMAIN jobs = 1..Len(jobs)
  BY LenProperties
<1> QED
  BY <1>1 DEF Chosen, RowOf

\* It has only one.
LEMMA RowOfIs ==
    ASSUME jobs \in Seq(Rows), OneRowEach, NEW i \in 1..Len(jobs)
    PROVE  jobs[i].location \in Chosen /\ RowOf(jobs[i].location) = i
<1>1. jobs[i].location \in Chosen
  BY ChosenRows
<1>2. /\ RowOf(jobs[i].location) \in 1..Len(jobs)
      /\ jobs[RowOf(jobs[i].location)].location = jobs[i].location
  BY <1>1, RowOfChosen
<1> QED
  BY <1>1, <1>2 DEF OneRowEach

\* The workers before a row, and those of the row.
LEMMA BeforeRow ==
    ASSUME jobs \in Seq(Rows), NEW l \in Chosen
    PROVE  /\ Before(l) \in Nat
           /\ jobs[RowOf(l)].workers \in 0..MaxWorkers
           /\ jobs[RowOf(l)].workers \in Nat
           /\ Before(l) + jobs[RowOf(l)].workers = WorkersUpTo(jobs)[RowOf(l)]
           /\ Before(l) + jobs[RowOf(l)].workers <= WorkersOf(jobs)
           /\ WorkersOf(jobs) \in Nat
<1> DEFINE r == RowOf(l)
<1>1. r \in 1..Len(jobs) /\ Len(jobs) \in Nat
  BY RowOfChosen, LenProperties
<1>2. r - 1 \in 0..Len(jobs) /\ r \in 0..Len(jobs)
  BY <1>1
<1>3. Before(l) = WorkersUpTo(jobs)[r - 1]
  BY DEF Before
<1> HIDE DEF r
<1>4. Before(l) \in Nat /\ WorkersUpTo(jobs)[r] <= WorkersOf(jobs) /\ WorkersOf(jobs) \in Nat
  BY <1>2, <1>3, WorkersUpToType, WorkersTotal
<1>5. WorkersUpTo(jobs)[r] = Before(l) + jobs[r].workers
  BY <1>1, <1>3, WorkersUpToStep
<1>6. jobs[r].workers \in 0..MaxWorkers /\ jobs[r].workers \in Nat
  BY <1>1, RowWorkers
<1> QED
  BY <1>4, <1>5, <1>6 DEF r

--------------------------------------------------------------------------------
\* There are no rows at first.
LEMMA InitDivides == Init => Divides
<1> SUFFICES ASSUME Init PROVE Divides
  OBVIOUS
<1>1. jobs = <<>> /\ jobs \in Seq(Rows) /\ Len(jobs) = 0 /\ draft
  BY EmptySeq DEF Init, SegmentsInit
<1>2. Nothing \in Told
  BY DEF Nothing, Told
<1>3. /\ told \in [Locations -> Told] /\ grown = {}
      /\ \A l \in Locations : told[l] = Nothing
  BY <1>2 DEF Init, SegmentsInit
<1> QED
  BY <1>1, <1>3 DEF Divides, Typed, OneRowEach, Informed, Knows

\* Nobody has been told anything of a draft.
LEMMA NobodyKnows ==
    ASSUME Divides, draft, NEW l \in Locations
    PROVE  told[l] = Nothing /\ l \notin grown
  BY DEF Divides, Informed, Knows

\* The rows, and what was told of them, do not change.
LEMMA RowsStay ==
    ASSUME UNCHANGED <<jobs, told, grown>>, NEW l \in Locations
    PROVE  /\ Chosen' = Chosen
           /\ \A step : Reading(l, step)' <=> Reading(l, step)
           /\ \A w : SequenceOf(l, w)' <=> SequenceOf(l, w)
           /\ Before(l)' = Before(l)
<1>1. Chosen' = Chosen /\ RowOf(l)' = RowOf(l)
  BY DEF Chosen, RowOf
<1>2. \A step : Reading(l, step)' <=> Reading(l, step)
  BY DEF Reading
<1>3. Before(l)' = Before(l)
  BY <1>1 DEF Before
<1>4. Latest(l)' = Latest(l)
  BY <1>2 DEF Latest
<1>5. \A w : SequenceOf(l, w)' <=> SequenceOf(l, w)
  BY <1>1, <1>4 DEF SequenceOf
<1> QED
  BY <1>1, <1>2, <1>3, <1>5

\* A run may be started; nobody unlearns anything.
LEMMA StartStep ==
    ASSUME Divides, UNCHANGED <<jobs, told, grown>>, draft' = FALSE \/ UNCHANGED draft
    PROVE  Divides'
<1>1. Typed' /\ OneRowEach'
  BY DEF Divides, Typed, OneRowEach
<1>2. ASSUME NEW l \in Locations
      PROVE  Knows(l)'
  <2>1. Knows(l)
    BY DEF Divides, Informed
  <2>2. ~draft => ~draft'
    OBVIOUS
  <2> QED
    BY <2>1, <2>2, RowsStay DEF Knows
<1> QED
  BY <1>1, <1>2 DEF Divides, Informed

\* Nobody has been told anything of a copy.
LEMMA DuplicateStep ==
    ASSUME Divides, draft' = TRUE, told' = [l \in Locations |-> Nothing],
           grown' = {}, UNCHANGED jobs
    PROVE  Divides'
<1>1. Nothing \in Told
  BY DEF Nothing, Told
<1> QED
  BY <1>1 DEF Divides, Typed, OneRowEach, Informed, Knows

\* A row is added behind the others.
LEMMA AddStep ==
    ASSUME Divides, NEW l \in Locations, NEW n \in 0..MaxWorkers, Add(l, n)
    PROVE  Divides'
<1> DEFINE row == [location |-> l, workers |-> n]
<1>1. jobs \in Seq(Rows) /\ Len(jobs) \in Nat /\ row \in Rows /\ row.location = l
  BY LenProperties DEF Divides, Typed, Rows
<1>2. /\ jobs' = Append(jobs, row) /\ l \notin Chosen /\ UNCHANGED <<draft, told>>
      /\ grown' = IF n = 0 THEN grown ELSE grown \cup Interrupted
  BY DEF Add, Available
<1> HIDE DEF row
<1>3. /\ jobs' \in Seq(Rows) /\ Len(jobs') = Len(jobs) + 1
      /\ \A i \in 1..Len(jobs) : jobs'[i] = jobs[i]
      /\ jobs'[Len(jobs) + 1] = row
  BY <1>1, <1>2, AppendProperties
<1>4. \A i \in 1..Len(jobs) : jobs[i].location # l
  BY <1>1, <1>2, ChosenRows
<1>5. OneRowEach'
  <2> SUFFICES ASSUME NEW i \in 1..Len(jobs'), NEW j \in 1..Len(jobs'),
                      jobs'[i].location = jobs'[j].location
               PROVE  i = j
    BY DEF OneRowEach
  <2>1. /\ i \in 1..Len(jobs) \/ i = Len(jobs) + 1
        /\ j \in 1..Len(jobs) \/ j = Len(jobs) + 1
    BY <1>1, <1>3
  <2> QED
    BY <1>1, <1>3, <1>4, <2>1 DEF Divides, OneRowEach
<1>6. \A k \in 0..Len(jobs) : WorkersUpTo(jobs')[k] = WorkersUpTo(jobs)[k]
  BY <1>1, <1>2, AppendUpTo
<1>7. /\ WorkersOf(jobs) \in Nat /\ WorkersOf(jobs') \in Nat /\ n \in Nat
      /\ WorkersOf(jobs') = WorkersOf(jobs) + n
  <2>1. /\ Len(jobs) \in 0..Len(jobs) /\ Len(jobs') \in 1..Len(jobs')
        /\ Len(jobs') - 1 = Len(jobs)
    BY <1>1, <1>3
  <2>2. WorkersUpTo(jobs')[Len(jobs')] = WorkersUpTo(jobs')[Len(jobs)] + jobs'[Len(jobs')].workers
    BY <1>3, <2>1, WorkersUpToStep
  <2>3. jobs'[Len(jobs')].workers = n
    BY <1>3 DEF row
  <2> QED
    BY <1>1, <1>3, <1>6, <2>1, <2>2, <2>3, WorkersTotal, SegmentsAssumption DEF WorkersOf
<1>8. ASSUME NEW k \in Chosen
      PROVE  /\ k \in Chosen'
             /\ RowOf(k)' = RowOf(k)
             /\ WorkersUpTo(jobs')[RowOf(k)'] = WorkersUpTo(jobs)[RowOf(k)]
             /\ Before(k)' = Before(k)
  <2> DEFINE r == RowOf(k)
  <2>1. r \in 1..Len(jobs) /\ jobs[r].location = k
    BY <1>1, RowOfChosen
  <2> HIDE DEF r
  <2>2. /\ r \in 1..Len(jobs') /\ jobs'[r] = jobs[r]
        /\ r - 1 \in 0..Len(jobs) /\ r \in 0..Len(jobs)
    BY <1>1, <1>3, <2>1
  <2>3. k \in Chosen' /\ RowOf(k)' = r
    <3>1. DOMAIN jobs' = 1..Len(jobs')
      BY <1>3, LenProperties
    <3>2. \A i \in 1..Len(jobs') : jobs'[i].location = k => i = r
      BY <1>5, <2>1, <2>2 DEF OneRowEach
    <3>3. k \in Chosen'
      BY <2>1, <2>2, <3>1 DEF Chosen
    <3>4. RowOf(k)' = r
      BY <2>1, <2>2, <3>1, <3>2 DEF RowOf
    <3> QED
      BY <3>3, <3>4
  <2> QED
    BY <1>6, <2>2, <2>3 DEF r, Before
<1>9. ASSUME NEW k \in Locations
      PROVE  Knows(k)'
  <2>1. CASE told[k] = Nothing
    <3>1. k \notin grown /\ k \notin Interrupted
      BY <2>1 DEF Divides, Informed, Knows, Interrupted, Nothing, Reading
    <3> QED
      BY <1>2, <2>1, <3>1 DEF Knows
  <2>2. CASE told[k] # Nothing
    <3>1. /\ ~Reading(k, "sequence") /\ ~draft /\ k \in Chosen
          /\ told[k].start = IF Reading(k, "start") THEN 0 ELSE Before(k)
          /\ ~Reading(k, "job") => told[k].total = 0
      BY <2>2 DEF Divides, Informed, Knows
    <3>2. PICK w \in Nat : SequenceOf(k, w)
      BY <2>2 DEF Divides, Informed, Knows
    <3>3. \A step : Reading(k, step)' <=> Reading(k, step)
      BY <1>2 DEF Reading
    <3>4. told[k].total \in Nat
      BY DEF Divides, Typed, Told
    <3>5. SequenceOf(k, w)'
      <4>1. WorkersUpTo(jobs')[RowOf(k)'] <= w
        BY <1>8, <3>1, <3>2 DEF SequenceOf
      <4>2. CASE Reading(k, "job")
        <5>1. Latest(k)' = Latest(k) /\ Latest(k) = told[k].total
          BY <1>2, <3>3, <4>2 DEF Latest
        <5>2. Latest(k)' <= WorkersOf(jobs')
          BY <1>7, <3>2, <3>4, <5>1 DEF SequenceOf
        <5>3. k \in grown' <=> k \in grown
          BY <1>2, <4>2 DEF Interrupted, Reading
        <5> QED
          BY <1>2, <3>2, <4>1, <5>1, <5>2, <5>3 DEF SequenceOf
      <4>3. CASE ~Reading(k, "job")
        <5>1. Latest(k)' = WorkersOf(jobs') /\ Latest(k) = WorkersOf(jobs)
          BY <3>3, <4>3 DEF Latest
        <5>2. k \in Interrupted
          BY <3>1, <4>3 DEF Divides, Typed, Told, Interrupted, Reading
        <5>3. w <= WorkersOf(jobs) /\ (k \notin grown <=> w = WorkersOf(jobs))
          BY <3>2, <5>1 DEF SequenceOf
        <5>4. w <= WorkersOf(jobs') /\ (n # 0 => w # WorkersOf(jobs'))
          BY <1>7, <5>3
        <5>5. k \notin grown' <=> w = WorkersOf(jobs')
          BY <1>2, <1>7, <5>2, <5>3, <5>4
        <5> QED
          BY <1>2, <1>7, <3>2, <4>1, <5>1, <5>4, <5>5 DEF SequenceOf
      <4> QED
        BY <4>2, <4>3
    <3> QED
      BY <1>2, <1>8, <3>1, <3>3, <3>5 DEF Knows
  <2> QED
    BY <2>1, <2>2
<1>10. grown' \subseteq Locations
  BY <1>2 DEF Divides, Typed, Interrupted
<1> QED
  BY <1>2, <1>3, <1>5, <1>9, <1>10 DEF Divides, Typed, Informed

\* The rows of a draft are changed when nobody knows of them.
LEMMA ChangeStep ==
    ASSUME Divides, NEW l \in Locations, NEW n \in 0..MaxWorkers, Change(l, n)
    PROVE  Divides'
<1> DEFINE r == RowOf(l)
           row == [jobs[r] EXCEPT !.workers = n]
<1>1. draft /\ l \in Chosen /\ jobs \in Seq(Rows) /\ UNCHANGED <<draft, told, grown>>
  BY DEF Change, Divides, Typed
<1>2. r \in 1..Len(jobs) /\ jobs[r] \in Rows
  BY <1>1, RowOfChosen, RowWorkers
<1>3. row \in Rows /\ row.location = jobs[r].location
  BY <1>2 DEF Rows
<1>4. jobs' = [jobs EXCEPT ![r] = row]
  BY DEF Change
<1> HIDE DEF r, row
<1>5. /\ jobs' \in Seq(Rows) /\ Len(jobs') = Len(jobs)
      /\ \A j \in 1..Len(jobs) : jobs'[j] = IF j = r THEN row ELSE jobs[j]
  BY <1>1, <1>2, <1>3, <1>4, ExceptSeq
<1>6. \A j \in 1..Len(jobs) : jobs'[j].location = jobs[j].location
  BY <1>3, <1>5
<1>7. OneRowEach'
  BY <1>5, <1>6 DEF Divides, OneRowEach
<1>8. \A k \in Locations : Knows(k)'
  BY <1>1, NobodyKnows DEF Knows
<1> QED
  BY <1>1, <1>5, <1>7, <1>8 DEF Divides, Typed, Informed

\* The rows behind the one that is removed move up.
LEMMA RemoveStep ==
    ASSUME Divides, NEW l \in Locations, RemoveRow(l)
    PROVE  Divides'
<1> DEFINE r == RowOf(l)
           front == SubSeq(jobs, 1, r - 1)
           back == SubSeq(jobs, r + 1, Len(jobs))
<1>1. /\ draft /\ l \in Chosen /\ jobs \in Seq(Rows) /\ Len(jobs) \in Nat
      /\ UNCHANGED <<draft, told, grown>>
  BY LenProperties DEF RemoveRow, Divides, Typed
<1>2. r \in 1..Len(jobs)
  BY <1>1, RowOfChosen
<1>3. jobs' = front \o back
  BY DEF RemoveRow, RemoveAt
<1> HIDE DEF r
<1>4. \A i \in 1..Len(jobs) : jobs[i] \in Rows
  BY <1>1, RowWorkers
<1>5. /\ front \in Seq(Rows) /\ Len(front) = r - 1
      /\ \A i \in 1..r - 1 : front[i] = jobs[i]
  <2>1. \A i \in 1..r - 1 : jobs[i] \in Rows
    BY <1>1, <1>2, <1>4
  <2>2. /\ front \in Seq(Rows) /\ Len(front) = IF 1 <= r - 1 THEN (r - 1) - 1 + 1 ELSE 0
        /\ \A i \in 1..(r - 1) - 1 + 1 : front[i] = jobs[1 + i - 1]
    BY <1>2, <2>1, SubSeqProperties
  <2> HIDE DEF front
  <2>3. Len(front) = r - 1
    BY <1>2, <2>2
  <2>4. ASSUME NEW i \in 1..r - 1
        PROVE  front[i] = jobs[i]
    <3>1. i \in 1..(r - 1) - 1 + 1 /\ 1 + i - 1 = i
      BY <1>2
    <3> QED
      BY <2>2, <3>1
  <2> QED
    BY <2>2, <2>3, <2>4
<1>6. /\ back \in Seq(Rows) /\ Len(back) = Len(jobs) - r
      /\ \A i \in 1..Len(jobs) - r : back[i] = jobs[r + i]
  <2>1. \A i \in r + 1..Len(jobs) : jobs[i] \in Rows
    BY <1>1, <1>2, <1>4
  <2>2. /\ back \in Seq(Rows)
        /\ Len(back) = IF r + 1 <= Len(jobs) THEN Len(jobs) - (r + 1) + 1 ELSE 0
        /\ \A i \in 1..Len(jobs) - (r + 1) + 1 : back[i] = jobs[(r + 1) + i - 1]
    BY <1>1, <1>2, <2>1, SubSeqProperties
  <2> HIDE DEF back
  <2>3. Len(back) = Len(jobs) - r
    BY <1>1, <1>2, <2>2
  <2>4. ASSUME NEW i \in 1..Len(jobs) - r
        PROVE  back[i] = jobs[r + i]
    <3>1. i \in 1..Len(jobs) - (r + 1) + 1 /\ (r + 1) + i - 1 = r + i
      BY <1>1, <1>2
    <3> QED
      BY <2>2, <3>1
  <2> QED
    BY <2>2, <2>3, <2>4
<1> HIDE DEF front, back
<1>7. /\ jobs' \in Seq(Rows) /\ Len(jobs') = Len(front) + Len(back)
      /\ \A i \in 1..Len(front) + Len(back) :
            jobs'[i] = IF i <= Len(front) THEN front[i] ELSE back[i - Len(front)]
  BY <1>3, <1>5, <1>6, ConcatProperties
<1>8. Len(jobs') = Len(jobs) - 1
  BY <1>1, <1>2, <1>5, <1>6, <1>7
<1> DEFINE was(i) == IF i < r THEN i ELSE i + 1
<1>9. ASSUME NEW i \in 1..Len(jobs')
      PROVE  was(i) \in 1..Len(jobs) /\ jobs'[i] = jobs[was(i)]
  <2>1. i \in 1..Len(front) + Len(back) /\ was(i) \in 1..Len(jobs)
    BY <1>1, <1>2, <1>7, <1>8
  <2>2. CASE i < r
    <3>1. i <= Len(front) /\ i \in 1..r - 1
      BY <1>2, <1>5, <2>2
    <3> QED
      BY <1>5, <1>7, <2>1, <2>2, <3>1
  <2>3. CASE ~ (i < r)
    <3>1. ~(i <= Len(front)) /\ i - Len(front) \in 1..Len(jobs) - r
          /\ r + (i - Len(front)) = i + 1
      BY <1>1, <1>2, <1>5, <1>8, <2>3
    <3> QED
      BY <1>6, <1>7, <2>1, <2>3, <3>1
  <2> QED
    BY <2>1, <2>2, <2>3
<1>10. OneRowEach'
  <2> SUFFICES ASSUME NEW i \in 1..Len(jobs'), NEW j \in 1..Len(jobs'),
                      jobs'[i].location = jobs'[j].location
               PROVE  i = j
    BY DEF OneRowEach
  <2>1. /\ was(i) \in 1..Len(jobs) /\ was(j) \in 1..Len(jobs)
        /\ jobs[was(i)].location = jobs[was(j)].location
    BY <1>9
  <2>2. was(i) = was(j)
    BY <2>1 DEF Divides, OneRowEach
  <2> QED
    BY <1>2, <1>8, <1>1, <2>2
<1>11. \A k \in Locations : Knows(k)'
  BY <1>1, NobodyKnows DEF Knows
<1> QED
  BY <1>1, <1>7, <1>10, <1>11 DEF Divides, Typed, Informed

--------------------------------------------------------------------------------
(***************************************************************************)
(* The queries of an operator.                                             *)
(***************************************************************************)
\* One operator learns something; its own knowledge is all there is to show.
LEMMA OneLearns ==
    ASSUME Divides, NEW l \in Locations, NEW t \in Told, told' = [told EXCEPT ![l] = t],
           UNCHANGED <<draft, jobs, grown>>, Knows(l)'
    PROVE  Divides'
<1>1. told' \in [Locations -> Told]
  BY DEF Divides, Typed
<1>2. ASSUME NEW k \in Locations, k # l
      PROVE  Knows(k)'
  <2>1. told'[k] = told[k]
    BY <1>2 DEF Divides, Typed
  <2>2. Chosen' = Chosen /\ RowOf(k)' = RowOf(k)
    BY DEF Chosen, RowOf
  <2>3. \A step : Reading(k, step)' <=> Reading(k, step)
    BY <2>1 DEF Reading
  <2>4. Before(k)' = Before(k)
    BY <2>2 DEF Before
  <2>5. Latest(k)' = Latest(k)
    BY <2>1, <2>3 DEF Latest
  <2>6. \A w : SequenceOf(k, w)' <=> SequenceOf(k, w)
    BY <2>1, <2>2, <2>5 DEF SequenceOf
  <2>7. Knows(k)
    BY DEF Divides, Informed
  <2> QED
    BY <2>1, <2>2, <2>3, <2>4, <2>6, <2>7 DEF Knows
<1> QED
  BY <1>1, <1>2 DEF Divides, Typed, OneRowEach, Informed

\* The first query: the sequence is that of all workers.
LEMMA ReadSequenceStep ==
    ASSUME Divides, NEW l \in Locations, ReadSequence(l)
    PROVE  Divides'
<1> DEFINE t == [told[l] EXCEPT !.step = "start", !.sequence = Borders(WorkersOf(jobs))]
<1>1. /\ jobs \in Seq(Rows) /\ told[l] \in Told /\ ~draft /\ l \in Chosen
      /\ Reading(l, "sequence") /\ UNCHANGED <<draft, jobs, grown>>
  BY DEF ReadSequence, Divides, Typed
<1>2. told[l] = Nothing /\ l \notin grown
  BY <1>1 DEF Divides, Informed, Knows
<1>3. told' = [told EXCEPT ![l] = t]
  BY <1>1 DEF ReadSequence, Divides, Typed, Told
<1>4. WorkersOf(jobs) \in Nat /\ WorkersUpTo(jobs)[RowOf(l)] <= WorkersOf(jobs)
  BY <1>1, BeforeRow
<1>5. /\ t \in Told /\ t.step = "start" /\ t.start = 0 /\ t.total = 0
      /\ t.sequence = Borders(WorkersOf(jobs))
  <2>1. told[l].start = 0 /\ told[l].total = 0
    BY <1>2 DEF Nothing
  <2>2. Borders(WorkersOf(jobs)) \in {<<>>} \cup {Borders(w) : w \in Nat}
    BY <1>4
  <2> QED
    BY <1>1, <2>1, <2>2 DEF Told
<1> HIDE DEF t
<1>6. told'[l] = t
  BY <1>3 DEF Divides, Typed
<1>7. /\ Reading(l, "start")' /\ ~Reading(l, "job")' /\ ~Reading(l, "sequence")'
  BY <1>5, <1>6 DEF Reading
<1>8. Chosen' = Chosen /\ RowOf(l)' = RowOf(l)
  BY <1>1 DEF Chosen, RowOf
<1>9. SequenceOf(l, WorkersOf(jobs))'
  <2>1. Latest(l)' = WorkersOf(jobs)
    BY <1>1, <1>7 DEF Latest
  <2> QED
    BY <1>1, <1>2, <1>4, <1>5, <1>6, <1>8, <2>1 DEF SequenceOf
<1>10. Knows(l)'
  BY <1>1, <1>4, <1>5, <1>6, <1>7, <1>8, <1>9 DEF Knows
<1> QED
  BY <1>1, <1>3, <1>5, <1>10, OneLearns

\* The second query: the workers before the row.
LEMMA ReadStartStep ==
    ASSUME Divides, NEW l \in Locations, ReadStart(l)
    PROVE  Divides'
<1> DEFINE t == [told[l] EXCEPT !.step = "total", !.start = Before(l)]
<1>1. /\ jobs \in Seq(Rows) /\ told[l] \in Told /\ Reading(l, "start")
      /\ UNCHANGED <<draft, jobs, grown>>
  BY DEF ReadStart, Divides, Typed
<1>2. told[l] # Nothing /\ ~Reading(l, "job")
  BY <1>1 DEF Nothing, Reading
<1>3. ~draft /\ l \in Chosen /\ told[l].total = 0
  BY <1>2 DEF Divides, Informed, Knows
<1>4. PICK w \in Nat : SequenceOf(l, w)
  BY <1>2 DEF Divides, Informed, Knows
<1>5. told' = [told EXCEPT ![l] = t]
  BY <1>1 DEF ReadStart, Divides, Typed, Told
<1>6. Before(l) \in Nat
  BY <1>1, <1>3, BeforeRow
<1>7. /\ t \in Told /\ t.step = "total" /\ t.start = Before(l) /\ t.total = 0
      /\ t.sequence = told[l].sequence
  BY <1>1, <1>3, <1>6 DEF Told
<1> HIDE DEF t
<1>8. told'[l] = t
  BY <1>5 DEF Divides, Typed
<1>9. ~Reading(l, "start")' /\ ~Reading(l, "job")' /\ ~Reading(l, "sequence")'
  BY <1>7, <1>8 DEF Reading
<1>10. Chosen' = Chosen /\ RowOf(l)' = RowOf(l)
  BY <1>1 DEF Chosen, RowOf
<1>11. Before(l)' = Before(l)
  BY <1>1, <1>10 DEF Before
<1>12. SequenceOf(l, w)'
  <2>1. Latest(l)' = Latest(l)
    BY <1>1, <1>2, <1>9 DEF Latest
  <2> QED
    BY <1>1, <1>4, <1>7, <1>8, <1>10, <2>1 DEF SequenceOf
<1>13. Knows(l)'
  BY <1>1, <1>3, <1>7, <1>8, <1>9, <1>10, <1>11, <1>12 DEF Knows
<1> QED
  BY <1>1, <1>5, <1>7, <1>13, OneLearns

\* The third query: there are no fewer workers than at the first one.
LEMMA ReadTotalStep ==
    ASSUME Divides, NEW l \in Locations, ReadTotal(l)
    PROVE  Divides'
<1> DEFINE t == [told[l] EXCEPT !.step = "job", !.total = WorkersOf(jobs)]
<1>1. /\ jobs \in Seq(Rows) /\ told[l] \in Told /\ Reading(l, "total")
      /\ UNCHANGED <<draft, jobs, grown>>
  BY DEF ReadTotal, Divides, Typed
<1>2. told[l] # Nothing /\ ~Reading(l, "start") /\ ~Reading(l, "job")
  BY <1>1 DEF Nothing, Reading
<1>3. ~draft /\ l \in Chosen /\ told[l].start = Before(l)
  BY <1>2 DEF Divides, Informed, Knows
<1>4. PICK w \in Nat : SequenceOf(l, w)
  BY <1>2 DEF Divides, Informed, Knows
<1>5. told' = [told EXCEPT ![l] = t]
  BY <1>1 DEF ReadTotal, Divides, Typed, Told
<1>6. WorkersOf(jobs) \in Nat
  BY <1>1, WorkersTotal
<1>7. /\ t \in Told /\ t.step = "job" /\ t.start = Before(l) /\ t.total = WorkersOf(jobs)
      /\ t.sequence = told[l].sequence
  BY <1>1, <1>3, <1>6 DEF Told
<1> HIDE DEF t
<1>8. told'[l] = t
  BY <1>5 DEF Divides, Typed
<1>9. Reading(l, "job")' /\ ~Reading(l, "start")' /\ ~Reading(l, "sequence")'
  BY <1>7, <1>8 DEF Reading
<1>10. Chosen' = Chosen /\ RowOf(l)' = RowOf(l)
  BY <1>1 DEF Chosen, RowOf
<1>11. Before(l)' = Before(l)
  BY <1>1, <1>10 DEF Before
<1>12. SequenceOf(l, w)'
  <2>1. Latest(l)' = WorkersOf(jobs) /\ Latest(l) = WorkersOf(jobs)
    BY <1>2, <1>7, <1>8, <1>9 DEF Latest
  <2> QED
    BY <1>1, <1>4, <1>6, <1>7, <1>8, <1>10, <2>1 DEF SequenceOf
<1>13. Knows(l)'
  BY <1>1, <1>3, <1>7, <1>8, <1>9, <1>10, <1>11, <1>12 DEF Knows
<1> QED
  BY <1>1, <1>5, <1>7, <1>13, OneLearns

\* Every step keeps the invariant.
LEMMA NextDivides == Divides /\ [Next]_vars => Divides'
<1> SUFFICES ASSUME Divides, [Next]_vars PROVE Divides'
  OBVIOUS
<1>1. ASSUME NEW s \in Settings, Save(s) \/ SaveAndRun(s)
      PROVE  Divides'
  <2>1. UNCHANGED <<jobs, told, grown>> /\ (draft' = FALSE \/ UNCHANGED draft)
    BY <1>1 DEF Save, SaveAndRun, segments
  <2> QED
    BY <2>1, StartStep
<1>2. ASSUME NEW s \in Settings, Duplicate(s)
      PROVE  Divides'
  BY <1>2, DuplicateStep DEF Duplicate
<1>3. CASE ListDrafts \/ StartListed \/ UNCHANGED vars
  <2>1. UNCHANGED <<jobs, told, grown>> /\ (draft' = FALSE \/ UNCHANGED draft)
    BY <1>3 DEF ListDrafts, StartListed, vars, segments
  <2> QED
    BY <2>1, StartStep
<1>4. ASSUME NEW l \in Locations, EditRows(l)
      PROVE  Divides'
  BY <1>4, AddStep, ChangeStep, RemoveStep DEF EditRows
<1>5. ASSUME NEW l \in Locations, GetRow(l) \/ GetVars(l) \/ GetTotal(l)
      PROVE  Divides'
  BY <1>5, ReadSequenceStep, ReadStartStep, ReadTotalStep DEF GetRow, GetVars, GetTotal
<1> QED
  BY <1>1, <1>2, <1>3, <1>4, <1>5 DEF Next

\* The invariant holds.
LEMMA DividesAlways == Spec => []Divides
  BY InitDivides, NextDivides, PTL DEF Spec

--------------------------------------------------------------------------------
(***************************************************************************)
(* The pods.                                                               *)
(***************************************************************************)
Number(pod) == Before(pod[1]) + pod[2]

\* The segment of a pod is given by its number, and by the total it was told.
LEMMA PodOf ==
    ASSUME Divides, NEW pod \in PodsOf(WithJob)
    PROVE  /\ pod = <<pod[1], pod[2]>>
           /\ pod[1] \in Locations /\ pod[1] \in Chosen /\ pod[1] \in WithJob
           /\ Reading(pod[1], "job")
           /\ pod[2] \in 1..jobs[RowOf(pod[1])].workers
           /\ told[pod[1]].start = Before(pod[1])
           /\ told[pod[1]].total \in Nat
           /\ Number(pod) \in 1..WorkersOf(jobs)
           /\ WorkersOf(jobs) \in Nat
           /\ Segment(pod) = [from |-> SegmentPart(Number(pod) - 1, told[pod[1]].total),
                              to |-> SegmentPart(Number(pod), told[pod[1]].total),
                              id |-> Number(pod)]
<1> DEFINE l == pod[1]
           n == pod[2]
<1>1. /\ pod = <<l, n>> /\ l \in WithJob /\ l \in Locations /\ Reading(l, "job")
      /\ n \in 1..MaxWorkers /\ n <= jobs[RowOf(l)].workers
  BY DEF PodsOf, WithJob
<1> HIDE DEF l, n
<1>2. jobs \in Seq(Rows) /\ told[l] \in Told
  BY <1>1 DEF Divides, Typed
<1>3. told[l] # Nothing /\ ~Reading(l, "start")
  BY <1>1 DEF Nothing, Reading
<1>4. l \in Chosen /\ told[l].start = Before(l)
  BY <1>1, <1>3 DEF Divides, Informed, Knows
<1>5. /\ Before(l) \in Nat /\ WorkersOf(jobs) \in Nat /\ jobs[RowOf(l)].workers \in Nat
      /\ Before(l) + jobs[RowOf(l)].workers <= WorkersOf(jobs)
  BY <1>2, <1>4, BeforeRow
<1>6. n \in 1..jobs[RowOf(l)].workers /\ n \in Int
  BY <1>1, <1>5, SegmentsAssumption
<1>7. told[l].total \in Nat
  BY <1>2 DEF Told
<1>8. Before(l) + n \in 1..WorkersOf(jobs) /\ Before(l) + n - 1 = (Before(l) + n) - 1
  BY <1>5, <1>6
<1>9. AssignedSegments(l)[n] =
          [from |-> SegmentPart((Before(l) + n) - 1, told[l].total),
           to |-> SegmentPart(Before(l) + n, told[l].total), id |-> Before(l) + n]
  BY <1>4, <1>6, <1>8 DEF AssignedSegments
<1> QED
  BY <1>1, <1>4, <1>5, <1>6, <1>7, <1>8, <1>9 DEF l, n, Number, Segment

\* Two pods never have the same number.
LEMMA NumbersDiffer ==
    ASSUME Divides, NEW p \in PodsOf(WithJob), NEW q \in PodsOf(WithJob), Number(p) = Number(q)
    PROVE  p = q
<1>1. jobs \in Seq(Rows) /\ Len(jobs) \in Nat
  BY LenProperties DEF Divides, Typed
<1>2. ASSUME NEW k \in Chosen, NEW l \in Chosen, RowOf(k) < RowOf(l),
             NEW m \in 1..jobs[RowOf(k)].workers, NEW n \in Nat, n > 0
      PROVE  Before(k) + m < Before(l) + n
  <2>1. /\ Before(k) \in Nat /\ jobs[RowOf(k)].workers \in Nat /\ Before(l) \in Nat
        /\ Before(k) + jobs[RowOf(k)].workers = WorkersUpTo(jobs)[RowOf(k)]
    BY <1>1, BeforeRow
  <2>2. RowOf(k) \in 1..Len(jobs) /\ RowOf(l) \in 1..Len(jobs)
    BY <1>1, RowOfChosen
  <2>3. RowOf(k) \in 0..Len(jobs) /\ RowOf(l) - 1 \in RowOf(k)..Len(jobs)
    BY <1>1, <1>2, <2>2
  <2>4. WorkersUpTo(jobs)[RowOf(k)] <= Before(l)
    BY <1>1, <2>3, WorkersUpToGrows DEF Before
  <2> QED
    BY <1>2, <2>1, <2>4
<1>3. /\ p[1] \in Chosen /\ p[2] \in 1..jobs[RowOf(p[1])].workers /\ p = <<p[1], p[2]>>
      /\ q[1] \in Chosen /\ q[2] \in 1..jobs[RowOf(q[1])].workers /\ q = <<q[1], q[2]>>
  BY PodOf
<1>4. /\ RowOf(p[1]) \in 1..Len(jobs) /\ jobs[RowOf(p[1])].location = p[1]
      /\ RowOf(q[1]) \in 1..Len(jobs) /\ jobs[RowOf(q[1])].location = q[1]
  BY <1>1, <1>3, RowOfChosen
<1>5. /\ Before(p[1]) \in Nat /\ jobs[RowOf(p[1])].workers \in Nat
      /\ Before(q[1]) \in Nat /\ jobs[RowOf(q[1])].workers \in Nat
  BY <1>1, <1>3, BeforeRow
<1>6. p[2] \in Nat /\ p[2] > 0 /\ q[2] \in Nat /\ q[2] > 0
  BY <1>3, <1>5
<1>7. CASE RowOf(p[1]) < RowOf(q[1])
  <2>1. Before(p[1]) + p[2] < Before(q[1]) + q[2]
    BY <1>2, <1>3, <1>6, <1>7
  <2> QED
    BY <1>5, <1>6, <2>1 DEF Number
<1>8. CASE RowOf(q[1]) < RowOf(p[1])
  <2>1. Before(q[1]) + q[2] < Before(p[1]) + p[2]
    BY <1>2, <1>3, <1>6, <1>8
  <2> QED
    BY <1>5, <1>6, <2>1 DEF Number
<1>9. CASE RowOf(p[1]) = RowOf(q[1])
  <2>1. p[1] = q[1]
    BY <1>4, <1>9
  <2>2. p[2] = q[2]
    BY <1>5, <1>6, <2>1 DEF Number
  <2> QED
    BY <1>3, <2>1, <2>2
<1> QED
  BY <1>1, <1>4, <1>7, <1>8, <1>9

\* A pod whose sequence is that of the run was told of all its workers.
LEMMA PodUpToDate ==
    ASSUME Divides, NEW pod \in PodsOf(UpToDate)
    PROVE  /\ pod \in PodsOf(WithJob)
           /\ told[pod[1]].total = WorkersOf(jobs)
           /\ told[pod[1]].sequence = Borders(WorkersOf(jobs))
<1>1. pod \in PodsOf(WithJob) /\ pod[1] \in UpToDate
  BY DEF PodsOf, UpToDate
<1>2. told[pod[1]].sequence = Borders(WorkersOf(jobs))
  BY <1>1 DEF UpToDate
<1>3. /\ pod[1] \in Locations /\ pod[1] \in Chosen /\ Reading(pod[1], "job")
      /\ pod[2] \in 1..jobs[RowOf(pod[1])].workers
      /\ told[pod[1]].total \in Nat /\ WorkersOf(jobs) \in Nat
  BY <1>1, PodOf
<1>4. told[pod[1]] # Nothing
  BY <1>3 DEF Nothing, Reading
<1>5. PICK w \in Nat : SequenceOf(pod[1], w)
  BY <1>3, <1>4 DEF Divides, Informed, Knows
<1>6. /\ jobs[RowOf(pod[1])].workers \in Nat /\ Before(pod[1]) \in Nat
      /\ WorkersUpTo(jobs)[RowOf(pod[1])] = Before(pod[1]) + jobs[RowOf(pod[1])].workers
  BY <1>3, BeforeRow DEF Divides, Typed
<1>7. /\ w > 0 /\ w <= WorkersOf(jobs) /\ Borders(w) = Borders(WorkersOf(jobs))
      /\ w <= told[pod[1]].total /\ told[pod[1]].total <= WorkersOf(jobs)
  <2>1. Latest(pod[1]) = told[pod[1]].total
    BY <1>3 DEF Latest
  <2>2. /\ WorkersUpTo(jobs)[RowOf(pod[1])] <= w /\ w <= told[pod[1]].total
        /\ told[pod[1]].total <= WorkersOf(jobs) /\ told[pod[1]].sequence = Borders(w)
    BY <1>5, <2>1 DEF SequenceOf
  <2> QED
    BY <1>2, <1>3, <1>6, <2>2
<1>8. WorkersOf(jobs) > 0
  BY <1>3, <1>7
<1>9. w = WorkersOf(jobs)
  BY <1>3, <1>7, <1>8, BordersTell
<1> QED
  BY <1>1, <1>2, <1>3, <1>7, <1>9

--------------------------------------------------------------------------------
(***************************************************************************)
(* segment_number tells the pods of a run apart, for any locations and any *)
(* numbers of workers, also when locations are added to a live run between *)
(* the queries of two operators.  (models.py:assigned_segments)            *)
(***************************************************************************)
THEOREM NumbersUniqueAlways == Spec => []NumbersUnique
<1>1. Divides => NumbersUnique
  <2> SUFFICES ASSUME Divides, NEW p \in PodsOf(WithJob), NEW q \in PodsOf(WithJob),
                      Segment(p).id = Segment(q).id
               PROVE  p = q
    BY DEF NumbersUnique
  <2>1. Segment(p).id = Number(p) /\ Segment(q).id = Number(q)
    BY PodOf
  <2> QED
    BY <2>1, NumbersDiffer
<1> QED
  BY <1>1, DividesAlways, PTL

(***************************************************************************)
(* No part of the load is generated twice: the segments of two pods whose  *)
(* sequence is that of the run do not overlap.                             *)
(* (models.py:assigned_segments)                                           *)
(***************************************************************************)
THEOREM NoOverlapAlways == Spec => []NoOverlap
<1>1. Divides => NoOverlap
  <2> SUFFICES ASSUME Divides, NEW p \in PodsOf(UpToDate), NEW q \in PodsOf(UpToDate), p # q
               PROVE  \/ ~Below(Segment(p).from, Segment(q).to)
                      \/ ~Below(Segment(q).from, Segment(p).to)
    BY DEF NoOverlap
  <2> DEFINE W == WorkersOf(jobs)
             m == Number(p)
             n == Number(q)
  <2>1. p \in PodsOf(WithJob) /\ q \in PodsOf(WithJob)
    BY PodUpToDate
  <2>2. /\ m \in 1..W /\ W \in Nat
        /\ Segment(p).from = SegmentPart(m - 1, W) /\ Segment(p).to = SegmentPart(m, W)
    BY <2>1, PodOf, PodUpToDate
  <2>3. /\ n \in 1..W
        /\ Segment(q).from = SegmentPart(n - 1, W) /\ Segment(q).to = SegmentPart(n, W)
    BY <2>1, PodOf, PodUpToDate
  <2>4. m # n
    BY <2>1, NumbersDiffer
  <2> HIDE DEF W, m, n
  <2>5. W > 0 /\ m - 1 \in 0..W /\ m \in 0..W /\ n - 1 \in 0..W /\ n \in 0..W
    BY <2>2, <2>3
  <2>6. /\ Below(Segment(p).from, Segment(q).to) <=> m - 1 < n
        /\ Below(Segment(q).from, Segment(p).to) <=> n - 1 < m
    BY <2>2, <2>3, <2>5, PartsInOrder
  <2> QED
    BY <2>2, <2>3, <2>4, <2>6
<1> QED
  BY <1>1, DividesAlways, PTL

\* A pod's segment has its number of the total; its sequence divides the load by
\* the workers of an earlier time, among which those up to the pod itself were.
LEMMA PodSequence ==
    ASSUME Divides, NEW pod \in PodsOf(WithJob)
    PROVE  \E w \in Nat :
              /\ told[pod[1]].sequence = Borders(w)
              /\ Number(pod) \in 1..w
              /\ w <= told[pod[1]].total
              /\ pod[1] \notin grown <=> w = told[pod[1]].total
<1> DEFINE l == pod[1]
<1>1. /\ l \in Locations /\ l \in Chosen /\ Reading(l, "job")
      /\ pod[2] \in 1..jobs[RowOf(l)].workers
  BY PodOf
<1> HIDE DEF l
<1>2. told[l] # Nothing /\ Latest(l) = told[l].total
  BY <1>1 DEF Nothing, Reading, Latest
<1>3. PICK w \in Nat : SequenceOf(l, w)
  BY <1>1, <1>2 DEF Divides, Informed, Knows
<1>4. /\ Before(l) \in Nat /\ jobs[RowOf(l)].workers \in Nat
      /\ Before(l) + jobs[RowOf(l)].workers = WorkersUpTo(jobs)[RowOf(l)]
  BY <1>1, BeforeRow DEF Divides, Typed
<1>5. WorkersUpTo(jobs)[RowOf(l)] <= w
  BY <1>3 DEF SequenceOf
<1>6. Before(l) + pod[2] \in 1..w
  BY <1>1, <1>4, <1>5
<1> QED
  BY <1>2, <1>3, <1>6 DEF SequenceOf, Number, l

\* Two neighbouring fractions determine the denominator.
LEMMA Neighbours ==
    ASSUME NEW v \in Nat, v > 0, NEW w \in Nat, w > 0,
           NEW x \in 1..v, NEW y \in 1..w,
           Same(SegmentPart(x - 1, v), SegmentPart(y - 1, w)),
           Same(SegmentPart(x, v), SegmentPart(y, w))
    PROVE  v = w
<1>1. ASSUME NEW a \in 0..v, NEW b \in 0..w, Same(SegmentPart(a, v), SegmentPart(b, w))
      PROVE  a * w = b * v
  <2>1. SegmentPart(a, v) = IF a = 0 THEN <<0, 1>> ELSE IF a = v THEN <<1, 1>> ELSE <<a, v>>
    BY DEF SegmentPart, Zero, One
  <2>2. SegmentPart(b, w) = IF b = 0 THEN <<0, 1>> ELSE IF b = w THEN <<1, 1>> ELSE <<b, w>>
    BY DEF SegmentPart, Zero, One
  <2>3. CASE a = 0
    BY <1>1, <2>1, <2>2, <2>3 DEF Same
  <2>4. CASE a # 0 /\ a = v
    BY <1>1, <2>1, <2>2, <2>4 DEF Same
  <2>5. CASE a # 0 /\ a # v
    BY <1>1, <2>1, <2>2, <2>5 DEF Same
  <2> QED
    BY <2>3, <2>4, <2>5
<1>2. x - 1 \in 0..v /\ x \in 0..v /\ y - 1 \in 0..w /\ y \in 0..w
  OBVIOUS
<1>3. (x - 1) * w = (y - 1) * v /\ x * w = y * v
  BY <1>1, <1>2
<1>4. \A a, b \in Int : (a - 1) * b = a * b - b
  OBVIOUS
<1>5. (x - 1) * w = x * w - w /\ (y - 1) * v = y * v - v
  BY <1>4
<1>6. x * w \in Int /\ y * v \in Int
  OBVIOUS
<1> HIDE <1>4
<1> QED
  BY <1>3, <1>5, <1>6

(***************************************************************************)
(* k6 accepts the segments of a Job, which are stretches between           *)
(* neighbours of the sequence that its pods were given, exactly if no      *)
(* workers were added between the operator's query for the sequence and    *)
(* that for the total, for any locations, workers and interleavings.       *)
(* (models.py:segments, assigned_segments)                                 *)
(***************************************************************************)
THEOREM SegmentInSequenceAlways == Spec => []SegmentInSequence
<1>1. Divides => SegmentInSequence
  <2> SUFFICES ASSUME Divides, NEW p \in PodsOf(WithJob)
               PROVE  InSequence(p) <=> p[1] \notin grown
    BY DEF SegmentInSequence
  <2> DEFINE W == told[p[1]].total
             m == Number(p)
  <2>1. PICK w \in Nat : /\ told[p[1]].sequence = Borders(w) /\ m \in 1..w /\ w <= W
                         /\ p[1] \notin grown <=> w = W
    BY PodSequence
  <2>2. W \in Nat /\ Segment(p).from = SegmentPart(m - 1, W) /\ Segment(p).to = SegmentPart(m, W)
    BY PodOf
  <2> HIDE DEF W, m
  <2>3. w > 0 /\ W > 0 /\ m \in 1..W /\ m - 1 \in 0..w /\ m \in 0..w /\ (m - 1) + 1 = m
    BY <2>1, <2>2
  <2>4. Len(Borders(w)) = w + 1 /\ \A x \in 0..w : Borders(w)[x + 1] = SegmentPart(x, w)
    BY <2>3, BordersAt
  <2>5. CASE w = W
    <3>1. Borders(w)[m] = SegmentPart(m - 1, W) /\ Borders(w)[m + 1] = SegmentPart(m, W)
      BY <2>3, <2>4, <2>5
    <3>2. m \in 1 .. Len(Borders(w)) - 1
      BY <2>1, <2>4
    <3>3. \A a : Same(a, a)
      BY DEF Same
    <3>4. InSequence(p)
      BY <2>1, <2>2, <3>1, <3>2, <3>3 DEF InSequence
    <3> QED
      BY <2>1, <2>5, <3>4
  <2>6. CASE w # W
    <3> SUFFICES ASSUME NEW i \in 1 .. Len(Borders(w)) - 1,
                        Same(Segment(p).from, Borders(w)[i]),
                        Same(Segment(p).to, Borders(w)[i + 1])
                 PROVE  FALSE
      BY <2>1, <2>6 DEF InSequence
    <3>1. i \in 1..w /\ i - 1 \in 0..w /\ i \in 0..w /\ (i - 1) + 1 = i
      BY <2>4
    <3>2. Borders(w)[i] = SegmentPart(i - 1, w) /\ Borders(w)[i + 1] = SegmentPart(i, w)
      BY <2>4, <3>1
    <3>3. /\ Same(SegmentPart(m - 1, W), SegmentPart(i - 1, w))
          /\ Same(SegmentPart(m, W), SegmentPart(i, w))
      BY <2>2, <3>2
    <3>4. W = w
      BY <2>2, <2>3, <3>1, <3>3, Neighbours
    <3> QED
      BY <2>6, <3>4
  <2> QED
    BY <2>5, <2>6
<1> QED
  BY <1>1, DividesAlways, PTL

(***************************************************************************)
(* The pods generate all of the load: once every location has its Job, and *)
(* none was added after another had read the run, each stretch between two *)
(* borders is the segment of a pod.                                        *)
(* (models.py:segments, assigned_segments)                                 *)
(***************************************************************************)
THEOREM AllCoveredAlways == Spec => []AllCovered
<1>1. Divides => AllCovered
  <2> DEFINE W == WorkersOf(jobs)
  <2> SUFFICES ASSUME Divides, UpToDate = Chosen, NEW i \in 1..W
               PROVE  \E p \in PodsOf(Chosen) :
                          /\ Same(Segment(p).from, <<i - 1, W>>)
                          /\ Same(Segment(p).to, <<i, W>>)
    BY DEF AllCovered
  <2>1. jobs \in Seq(Rows) /\ Len(jobs) \in Nat /\ W \in Nat
    BY LenProperties, WorkersTotal DEF Divides, Typed
  <2> DEFINE Enough == {k \in 0..Len(jobs) : i <= WorkersUpTo(jobs)[k]}
  <2>2. PICK r \in Enough : \A k \in Enough : r <= k
    <3>1. Len(jobs) \in Enough
      BY <2>1 DEF WorkersOf
    <3>2. Enough \in SUBSET Nat
      BY <2>1
    <3> HIDE DEF Enough
    <3> QED
      BY <3>1, <3>2, Least
  <2>3. r \in 1..Len(jobs)
    <3>1. r # 0
      BY <2>1, <2>2, WorkersUpToStep
    <3> QED
      BY <2>1, <2>2, <3>1
  <2>4. r - 1 \in 0..Len(jobs) /\ r \in 0..Len(jobs)
    BY <2>1, <2>3
  <2>5. WorkersUpTo(jobs)[r - 1] < i /\ i <= WorkersUpTo(jobs)[r]
    <3>1. r - 1 \notin Enough
      BY <2>1, <2>2, <2>3
    <3>2. WorkersUpTo(jobs)[r - 1] \in Nat
      BY <2>1, <2>4, WorkersUpToType
    <3> QED
      BY <2>2, <2>4, <3>1, <3>2
  <2> DEFINE l == jobs[r].location
             n == i - WorkersUpTo(jobs)[r - 1]
  <2>6. l \in Chosen /\ RowOf(l) = r
    BY <2>1, <2>3, RowOfIs DEF Divides
  <2>7. Before(l) = WorkersUpTo(jobs)[r - 1]
    BY <2>6 DEF Before
  <2> HIDE DEF l
  <2>8. /\ Before(l) \in Nat /\ jobs[r].workers \in 0..MaxWorkers
        /\ Before(l) + jobs[r].workers = WorkersUpTo(jobs)[r]
    BY <2>1, <2>6, BeforeRow
  <2>9. n \in 1..MaxWorkers /\ n <= jobs[RowOf(l)].workers /\ Before(l) + n = i
    BY <2>5, <2>6, <2>7, <2>8, SegmentsAssumption
  <2> HIDE DEF n, W
  <2>10. <<l, n>> \in PodsOf(Chosen) /\ <<l, n>> \in PodsOf(UpToDate)
    BY <2>6, <2>9 DEF PodsOf
  <2>11. /\ Segment(<<l, n>>).from = SegmentPart(i - 1, W)
         /\ Segment(<<l, n>>).to = SegmentPart(i, W)
    <3>1. Number(<<l, n>>) = i
      BY <2>9 DEF Number
    <3>2. <<l, n>> \in PodsOf(WithJob) /\ told[<<l, n>>[1]].total = W
      BY <2>10, PodUpToDate DEF W
    <3> QED
      BY <3>1, <3>2, PodOf
  <2>12. W > 0 /\ i - 1 \in 0..W /\ i \in 0..W
    BY <2>1
  <2>13. /\ Same(SegmentPart(i - 1, W), <<i - 1, W>>)
         /\ Same(SegmentPart(i, W), <<i, W>>)
    BY <2>1, <2>12, PartsInOrder
  <2> QED
    BY <2>10, <2>11, <2>13 DEF W
<1> QED
  BY <1>1, DividesAlways, PTL
--------------------------------------------------------------------------------
(***************************************************************************)
(* Types, with the bound on the workers of a run: a location has at most   *)
(* one row, so there are no more rows than locations.                      *)
(***************************************************************************)
LEMMA RowsCounted ==
    ASSUME Divides, IsFiniteSet(Locations)
    PROVE  /\ Len(jobs) = Cardinality(Chosen)
           /\ Len(jobs) <= Cardinality(Locations)
           /\ Cardinality(Locations) \in Nat
<1> DEFINE f == [i \in 1..Len(jobs) |-> jobs[i].location]
<1>1. jobs \in Seq(Rows) /\ Len(jobs) \in Nat
  BY LenProperties DEF Divides, Typed
<1>2. Chosen = {jobs[i].location : i \in 1..Len(jobs)} /\ Chosen \subseteq Locations
  BY <1>1, ChosenRows
<1>3. f \in Bijection(1..Len(jobs), Chosen)
  <2>1. f \in [1..Len(jobs) -> Chosen] /\ \A i \in 1..Len(jobs) : f[i] = jobs[i].location
    BY <1>2
  <2>2. \A i, j \in 1..Len(jobs) : f[i] = f[j] => i = j
    BY <2>1 DEF Divides, OneRowEach
  <2>3. \A l \in Chosen : \E i \in 1..Len(jobs) : f[i] = l
    BY <1>2, <2>1
  <2> HIDE DEF f
  <2> QED
    BY <2>1, <2>2, <2>3, Zenon DEF Bijection, Injection, IsInjective, Surjection
<1>4. ExistsBijection(1..Len(jobs), Chosen)
  BY <1>3 DEF ExistsBijection
<1>5. Cardinality(Chosen) = Len(jobs)
  BY <1>1, <1>4, FS_CountingElements
<1>6. Cardinality(Chosen) <= Cardinality(Locations)
  BY <1>2, FS_Subset
<1>7. Cardinality(Locations) \in Nat
  BY FS_CardinalityType
<1> QED
  BY <1>1, <1>5, <1>6, <1>7

\* The workers of a run are no more than TotalBound.
LEMMA TotalBounded ==
    ASSUME Divides, IsFiniteSet(Locations)
    PROVE  WorkersOf(jobs) \in 0..TotalBound /\ TotalBound \in Nat
<1>1. jobs \in Seq(Rows) /\ Len(jobs) \in Nat /\ Len(jobs) \in 0..Len(jobs)
  BY LenProperties DEF Divides, Typed
<1>2. WorkersOf(jobs) \in Nat /\ WorkersOf(jobs) <= MaxWorkers * Len(jobs)
  BY <1>1, WorkersTotal, WorkersUpToBound DEF WorkersOf
<1>3. Len(jobs) <= Cardinality(Locations) /\ Cardinality(Locations) \in Nat /\ MaxWorkers \in Nat
  BY RowsCounted, SegmentsAssumption
<1>4. MaxWorkers * Len(jobs) <= MaxWorkers * Cardinality(Locations)
  BY <1>1, <1>3
<1>5. TotalBound \in Nat /\ MaxWorkers * Len(jobs) \in Nat
  BY <1>1, <1>3 DEF TotalBound
<1> QED
  BY <1>2, <1>4, <1>5 DEF TotalBound

\* The types follow from the invariant.
LEMMA SegmentsTyped ==
    ASSUME Divides, IsFiniteSet(Locations)
    PROVE  SegmentsTypeOK
<1>1. jobs \in Seq([location : Locations, workers : 0..MaxWorkers]) /\ draft \in BOOLEAN
  BY DEF Divides, Typed, Rows
<1>2. Len(jobs) = Cardinality(Chosen)
  BY RowsCounted
<1>3. WorkersOf(jobs) \in 0..TotalBound /\ TotalBound \in Nat
  BY TotalBounded
<1>4. ASSUME NEW l \in Locations
      PROVE  /\ told[l].step \in {"sequence", "start", "total", "job"}
             /\ told[l].sequence \in {<<>>} \cup {Borders(w) : w \in 0..TotalBound}
             /\ told[l].start \in 0..TotalBound
             /\ told[l].total \in 0..TotalBound
  <2>1. told[l] \in Told
    BY DEF Divides, Typed
  <2>2. told[l].step \in {"sequence", "start", "total", "job"}
        /\ told[l].start \in Nat /\ told[l].total \in Nat
    BY <2>1 DEF Told
  <2>3. CASE told[l] = Nothing
    BY <1>3, <2>2, <2>3 DEF Nothing
  <2>4. CASE told[l] # Nothing
    <3>1. /\ l \in Chosen
          /\ told[l].start = IF Reading(l, "start") THEN 0 ELSE Before(l)
          /\ ~Reading(l, "job") => told[l].total = 0
      BY <2>4 DEF Divides, Informed, Knows
    <3>2. PICK w \in Nat : SequenceOf(l, w)
      BY <2>4 DEF Divides, Informed, Knows
    <3>3. /\ Before(l) \in Nat /\ jobs[RowOf(l)].workers \in Nat
          /\ Before(l) + jobs[RowOf(l)].workers <= WorkersOf(jobs)
      BY <3>1, BeforeRow DEF Divides, Typed
    <3>4. told[l].sequence = Borders(w) /\ w \in 0..TotalBound
      BY <1>3, <2>2, <3>2 DEF SequenceOf, Latest
    <3>5. told[l].start \in 0..TotalBound
      BY <1>3, <3>1, <3>3
    <3>6. told[l].total \in 0..TotalBound
      BY <1>3, <2>2, <3>1, <3>2 DEF SequenceOf, Latest
    <3> QED
      BY <2>2, <3>4, <3>5, <3>6
  <2> QED
    BY <2>3, <2>4
<1>5. grown \subseteq Locations
  BY DEF Divides, Typed
<1> QED
  BY <1>1, <1>2, <1>4, <1>5 DEF SegmentsTypeOK

(***************************************************************************)
(* The variables of the form and of the segments have their types; a       *)
(* location has at most one row, and the sums of workers are bounded.      *)
(***************************************************************************)
THEOREM FormTypeCorrect ==
    ASSUME IsFiniteSet(Locations) PROVE Spec => []TypeOK
<1>1. Divides /\ Inv => TypeOK
  BY SegmentsTyped DEF Inv, Shape, TypeOK
<1> QED
  BY <1>1, DividesAlways, InvAlways, PTL
================================================================================
