------------------------------- MODULE TestRunForm -----------------------------
(***************************************************************************)
(* The change form of a test run, in which users edit it, start it and     *)
(* duplicate it, and the list of test runs, from which they start it too,  *)
(* next to the operators that read it to create their Jobs.                *)
(*                                                                         *)
(* Django handles a POST of the form in one transaction, which SQLite      *)
(* makes serial.  Its data come from a page that may be old: opened while  *)
(* the run was a draft, posted when it is not any more.  What is taken of  *)
(* them depends on the row as it is by then.  The list's action is not a   *)
(* transaction: it reads the rows of all selected drafts, and then saves   *)
(* one after the other, as a whole.                                        *)
(***************************************************************************)
EXTENDS Segments

CONSTANTS
    Scripts,  \* what there is to execute
    Names,    \* the names of environment variables and labels
    Values,   \* what a variable can be set to
    None      \* nothing has been read, no such variable

ASSUME FormAssumption == None \notin Scripts \cup Values

VARIABLES
    settings,  \* the other fields of the run, its variables and labels
    listed,    \* the row that the list's action has read and will save
    late,      \* the list's action has saved a run that was already started
    read       \* the settings that each operator has read

form == <<settings, listed, late>>
vars == <<segments, form, read>>

(***************************************************************************)
(* script stands for the fields that become read-only when the run is      *)
(* started.  (source_repo does not, and nothing below speaks of it.)  The  *)
(* rows of the variables are what operators are told of them: of several   *)
(* rows with one name, which nothing forbids, the last one counts.         *)
(***************************************************************************)
Vars == [Names -> Values \cup {None}]
Settings == [script : Scripts, vars : Vars]

Unread == [script |-> None, vars |-> [n \in Names |-> None]]

Init ==
    /\ SegmentsInit
    /\ settings \in Settings
    /\ listed = None
    /\ late = FALSE
    /\ read = [l \in Locations |-> Unread]

\* Mutant of Posted: the fields stay editable.
PostedAlways(s) == s

(***************************************************************************)
(* The inline forms of a started run take no change and no removal, but    *)
(* still additions, although the page does not offer any: get_max_num is   *)
(* not enforced.  An added row may have the name of one that exists.       *)
(***************************************************************************)
PostedVars(s) ==
    IF draft THEN s.vars
    ELSE [n \in Names |-> IF s.vars[n] = None THEN settings.vars[n] ELSE s.vars[n]]

\* The read-only fields keep their values, whatever an old page posts.
Posted(s) ==
    [script |-> IF draft THEN s.script ELSE settings.script,
     vars |-> PostedVars(s)]

Save(s) ==
    /\ settings' = Posted(s)
    /\ UNCHANGED <<segments, listed, late, read>>

\* "_saveandrun", from a page that was opened while the run was a draft.
SaveAndRun(s) ==
    /\ settings' = Posted(s)
    /\ draft' = FALSE
    /\ UNCHANGED <<jobs, told, grown, listed, late, read>>

(***************************************************************************)
(* "_duplicate" saves the posted data and copies the run: its settings,    *)
(* and its locations in their order.  The model follows the copy, which    *)
(* nobody has read.                                                        *)
(***************************************************************************)
Duplicate(s) ==
    /\ settings' = Posted(s)
    /\ draft' = TRUE
    /\ told' = [l \in Locations |-> Nothing]
    /\ grown' = {}
    /\ read' = [l \in Locations |-> Unread]
    /\ listed' = None
    /\ late' = FALSE
    /\ UNCHANGED jobs

\* start_test_runs: the query for the drafts among the selected runs.
ListDrafts ==
    /\ draft
    /\ listed = None
    /\ listed' = settings.script
    /\ UNCHANGED <<segments, settings, late, read>>

\* TestRun.start() of this run, by which time others may have been started.
StartListed ==
    /\ listed # None
    /\ settings' = [settings EXCEPT !.script = listed]
    /\ draft' = FALSE
    /\ late' = (late \/ ~draft)
    /\ listed' = None
    /\ UNCHANGED <<jobs, told, grown, read>>

EditRows(l) ==
    /\ \/ \E n \in 0..MaxWorkers : Add(l, n) \/ Change(l, n)
       \/ RemoveRow(l)
    /\ UNCHANGED <<form, read>>

--------------------------------------------------------------------------------
(***************************************************************************)
(* The GET of a job reads the row, the sequence, the variables and labels, *)
(* and the two sums.  Nobody changes the settings and the locations in one *)
(* step, so the row is read with the sequence and the variables with the   *)
(* first sum.                                                              *)
(***************************************************************************)
GetRow(l) ==
    /\ ReadSequence(l)
    /\ read' = [read EXCEPT ![l].script = settings.script]
    /\ UNCHANGED form

GetVars(l) ==
    /\ ReadStart(l)
    /\ read' = [read EXCEPT ![l].vars = settings.vars]
    /\ UNCHANGED form

GetTotal(l) ==
    /\ ReadTotal(l)
    /\ UNCHANGED <<form, read>>

Next ==
    \/ \E s \in Settings : Save(s) \/ SaveAndRun(s) \/ Duplicate(s)
    \/ ListDrafts
    \/ StartListed
    \/ \E l \in Locations :
          EditRows(l) \/ GetRow(l) \/ GetVars(l) \/ GetTotal(l)

Spec == Init /\ [][Next]_vars

--------------------------------------------------------------------------------
TypeOK ==
    /\ SegmentsTypeOK
    /\ settings \in Settings
    /\ listed \in {None} \cup Scripts
    /\ late \in BOOLEAN
    /\ read \in [Locations -> [script : {None} \cup Scripts, vars : Vars]]

(***************************************************************************)
(* The locations of a run execute the same test: whatever is posted from   *)
(* old pages while the operators read the run one after the other, the     *)
(* fields they put into their Jobs are the same.  Only an action of the    *)
(* list that read the run before somebody else edited and started it can   *)
(* come between them.  Nor is a variable that one of them was given taken  *)
(* from the others; but they may be given another value of it, by a page   *)
(* that adds the name once more.  (admin.py:get_readonly_fields)           *)
(***************************************************************************)
SameTest ==
    /\ late \/ \A k, l \in WithJob : read[k].script = read[l].script
    /\ \A l \in WithJob, n \in Names :
          read[l].vars[n] # None => settings.vars[n] # None

================================================================================
