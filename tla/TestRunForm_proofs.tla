---------------------------- MODULE TestRunForm_proofs -------------------------
(***************************************************************************)
(* The locations of a run execute the same test, for any locations, any    *)
(* values of the fields and any variables.                                 *)
(*                                                                         *)
(* SameTest speaks of the operators that have read everything.  What makes *)
(* it inductive is said of every operator from its first query on: nobody  *)
(* reads a draft, and what was read of a run that is not a draft stays.    *)
(***************************************************************************)
EXTENDS TestRunForm, TLAPS

\* The fields on which the steps below update these functions exist.
Shape ==
    /\ draft \in BOOLEAN
    /\ late \in BOOLEAN
    /\ settings \in Settings
    /\ DOMAIN told = Locations
    /\ \A l \in Locations : "step" \in DOMAIN told[l]
    /\ read \in [Locations -> [script : {None} \cup Scripts, vars : Vars]]
    /\ listed \in {None} \cup Scripts

DraftUnread == draft => \A l \in Locations : Reading(l, "sequence")

ScriptRead ==
    \A l \in Locations :
        Reading(l, "sequence") \/ late \/ read[l].script = settings.script

\* The names that have a value in vs have one in ws.
Kept(vs, ws) == \A n \in Names : vs[n] # None => ws[n] # None

VarsRead ==
    \A l \in Locations :
        \/ Reading(l, "sequence")
        \/ Reading(l, "start")
        \/ Kept(read[l].vars, settings.vars)

Inv == Shape /\ DraftUnread /\ ScriptRead /\ VarsRead

USE FormAssumption DEF Settings

\* What a POST leaves of the settings once the run was started.
LEMMA PostedKeeps ==
    ASSUME settings \in Settings, NEW s \in Settings
    PROVE  /\ Posted(s) \in Settings
           /\ ~draft => /\ Posted(s).script = settings.script
                        /\ \A vs : Kept(vs, settings.vars)
                                    => Kept(vs, Posted(s).vars)
<1>1. PostedVars(s) \in Vars
  BY DEF PostedVars, Vars
<1>2. ~draft => \A n \in Names :
          settings.vars[n] # None => PostedVars(s)[n] # None
  BY DEF PostedVars
<1> QED
  BY <1>1, <1>2 DEF Posted, Kept

LEMMA KeptSame == \A vs : Kept(vs, vs)
  BY DEF Kept

LEMMA InitInv == Init => Inv
<1> SUFFICES ASSUME Init PROVE Inv
  OBVIOUS
<1>1. /\ DOMAIN told = Locations
      /\ \A l \in Locations : "step" \in DOMAIN told[l] /\ Reading(l, "sequence")
  BY DEF Init, SegmentsInit, Nothing, Reading
<1>2. read \in [Locations -> [script : {None} \cup Scripts, vars : Vars]]
  BY DEF Init, Unread, Vars
<1> QED
  BY <1>1, <1>2
  DEF Init, SegmentsInit, Inv, Shape, DraftUnread, ScriptRead, VarsRead

(***************************************************************************)
(* The form and the list change the settings of a draft, which nobody has  *)
(* read, or add variables, or are late; the copy of a run is unread.       *)
(***************************************************************************)
LEMMA FormStep ==
    ASSUME Inv,
           \/ \E s \in Settings : Save(s) \/ SaveAndRun(s) \/ Duplicate(s)
           \/ ListDrafts
           \/ StartListed
    PROVE  Inv'
<1> USE DEF Inv, Shape, DraftUnread, ScriptRead, VarsRead, Reading, segments
<1>1. ASSUME NEW s \in Settings, Save(s)
      PROVE  Inv'
  BY <1>1, PostedKeeps DEF Save
<1>2. ASSUME NEW s \in Settings, SaveAndRun(s)
      PROVE  Inv'
  BY <1>2, PostedKeeps DEF SaveAndRun
<1>3. ASSUME NEW s \in Settings, Duplicate(s)
      PROVE  Inv'
  BY <1>3, PostedKeeps DEF Duplicate, Nothing, Unread, Vars
<1>4. CASE ListDrafts
  BY <1>4 DEF ListDrafts
<1>5. CASE StartListed
  BY <1>5 DEF StartListed
<1> QED
  BY <1>1, <1>2, <1>3, <1>4, <1>5

\* Editing the locations changes neither the settings nor what was read.
LEMMA EditStep ==
    ASSUME Inv, NEW l \in Locations, EditRows(l)
    PROVE  Inv'
<1>1. UNCHANGED <<draft, told, settings, listed, late, read>>
  BY Zenon DEF EditRows, Add, Change, RemoveRow, form
<1> QED
  BY <1>1 DEF Inv, Shape, DraftUnread, ScriptRead, VarsRead, Reading

\* An operator reads what the settings are, of a run that is not a draft.
LEMMA GetStep ==
    ASSUME Inv, NEW l \in Locations, GetRow(l) \/ GetVars(l) \/ GetTotal(l)
    PROVE  Inv'
<1> USE DEF Inv, Shape, DraftUnread, ScriptRead, VarsRead, Reading, form
<1>1. CASE GetRow(l)
  BY <1>1 DEF GetRow, ReadSequence
<1>2. CASE GetVars(l)
  BY <1>2, KeptSame DEF GetVars, ReadStart
<1>3. CASE GetTotal(l)
  BY <1>3 DEF GetTotal, ReadTotal
<1> QED
  BY <1>1, <1>2, <1>3

LEMMA NextInv == Inv /\ [Next]_vars => Inv'
<1> SUFFICES ASSUME Inv, [Next]_vars PROVE Inv'
  OBVIOUS
<1>1. CASE UNCHANGED vars
  BY <1>1 DEF vars, segments, form, Inv, Shape, DraftUnread, ScriptRead,
              VarsRead, Reading
<1> QED
  BY <1>1, FormStep, EditStep, GetStep DEF Next

LEMMA InvAlways == Spec => []Inv
  BY InitInv, NextInv, PTL DEF Spec

(***************************************************************************)
(* The scripts and variables in the Jobs of a run are the same at all      *)
(* locations, unless a list action that had read the run before came late: *)
(* the read-only fields of the form are enough, for any number of          *)
(* locations, variables and old pages.  (admin.py:get_readonly_fields)     *)
(***************************************************************************)
THEOREM SameTestAlways == Spec => []SameTest
<1>1. Inv => SameTest
  BY DEF Inv, ScriptRead, VarsRead, Reading, SameTest, WithJob, Kept
<1> QED
  BY <1>1, InvAlways, PTL

================================================================================
