---------------------------------- MODULE Ping ---------------------------------
(***************************************************************************)
(* How the dashboard knows whether a location is alive.  The pinger of the *)
(* operator posts a ping when it starts and every half minute; the web app *)
(* stamps the location's row with the time; the list of locations shows    *)
(* one as online while the stamp is younger than five minutes.             *)
(*                                                                         *)
(* Time is counted in ticks of half a minute.  A stamp is its age.  The    *)
(* handler of a ping reads the row, stamps it and saves it as a whole, and *)
(* may be slow enough for a later ping to be saved before.                 *)
(***************************************************************************)
EXTENDS Process

CONSTANTS
    OnlineFor,    \* the age at which a stamp is too old
    HandlerTime,  \* ticks after which gunicorn has killed a handler
    MaxMissed,    \* bound on the pings lost in a row
    Never         \* a location that was never pinged

ASSUME PingAssumption ==
    /\ OnlineFor \in Nat
    /\ HandlerTime \in 0..OnlineFor
    /\ MaxMissed \in Nat
    /\ Never \notin Nat

VARIABLES
    known,     \* the TestLocation row exists
    lastPing,  \* the age of TestLocation.last_ping
    saves,     \* the ages of the stamps that handlers have yet to save
    due,       \* the pinger has to ping
    missed     \* the pings lost in a row

pings == <<known, lastPing, saves, due, missed>>

\* Older stamps than this all show the location as offline.
Ages == 0..OnlineFor

PingInit ==
    /\ known = TRUE
    /\ lastPing = Never
    /\ saves = {}
    /\ due = TRUE
    /\ missed = 0

PingTypeOK ==
    /\ known \in BOOLEAN
    /\ lastPing \in Ages \cup {Never}
    /\ saves \subseteq 0..HandlerTime
    /\ due \in BOOLEAN
    /\ missed \in 0..MaxMissed

\* Mutant of Online: a location stays online once it was seen.
OnlineOnce(age) == age # Never

\* TestLocation.staus
Online(age) == age # Never /\ age < OnlineFor

--------------------------------------------------------------------------------
\* POST ping, of a location that has a row: the stamp is the time now.
PingArrives ==
    /\ proc = "up"
    /\ due
    /\ known
    /\ due' = FALSE
    /\ saves' = saves \cup {0}
    /\ UNCHANGED <<known, lastPing, missed>>

\* The answer is 404.
PingUnknown ==
    /\ proc = "up"
    /\ due
    /\ ~known
    /\ due' = FALSE
    /\ UNCHANGED <<known, lastPing, saves, missed>>

\* The error is logged, and the next ping is due half a minute later.
PingLost ==
    /\ proc = "up"
    /\ due
    /\ missed < MaxMissed
    /\ due' = FALSE
    /\ missed' = missed + 1
    /\ UNCHANGED <<known, lastPing, saves>>

(***************************************************************************)
(* instance.save() writes the row with this handler's stamp, whatever has  *)
(* been saved since it was read, and inserts a row that was deleted.       *)
(***************************************************************************)
SaveStamp(age) ==
    /\ age \in saves
    /\ saves' = saves \ {age}
    /\ lastPing' = age
    /\ known' = TRUE
    /\ missed' = 0
    /\ UNCHANGED due

\* The admin removes a location that no run uses, and adds it again.
DeleteLocation ==
    /\ known
    /\ known' = FALSE
    /\ lastPing' = Never
    /\ UNCHANGED <<saves, due, missed>>

AddTestLocation ==
    /\ ~known
    /\ known' = TRUE
    /\ UNCHANGED <<lastPing, saves, due, missed>>

\* Mutant of InTime: handlers are never killed.
NoTimeout == TRUE

\* Handlers that are too slow are killed, so the others are done by then.
InTime == \A age \in saves : age < HandlerTime

\* Half a minute passes, unless a ping is due.
Older(age) == IF age = Never \/ age = OnlineFor THEN age ELSE age + 1

AgePings ==
    /\ InTime
    /\ proc = "up" => ~due
    /\ lastPing' = Older(lastPing)
    /\ saves' = {age + 1 : age \in saves}
    /\ due' = (proc = "up")
    /\ UNCHANGED <<known, missed>>

================================================================================
