-------------------------- MODULE AtomicCalendars --------------------------
(***************************************************************************)
(* The calendars a client that reads "OCC version field"                   *)
(* (calendar.proto) takes the service to keep: every operation is one      *)
(* step, an id is given out once, and every edit, of days too, applies to  *)
(* the calendar as it is and raises its version by one.                    *)
(*                                                                         *)
(* CalendarBackend keeps them as long as its reads are current and no      *)
(* PutItem that took effect is repeated; without these it keeps the weaker *)
(* promise of VersionedCalendars, or less.                                 *)
(***************************************************************************)
EXTENDS Naturals

CONSTANTS Cals, Names, Colors, Days, Absent

VARIABLES
    cal,        \* the calendar under each id, or Absent
    made        \* the ids that have been given out

vars == <<cal, made>>

Init ==
    /\ cal = [c \in Cals |-> Absent]
    /\ made = {}

Create(c) ==
    /\ c \notin made
    /\ \E n \in Names, k \in Colors :
          cal' = [cal EXCEPT ![c] = [name |-> n, color |-> k, version |-> 0, days |-> {}]]
    /\ made' = made \cup {c}

\* The calendar is left with this name, colour and days, one version on.
Leaves(c, name, color, days) ==
    /\ cal' = [cal EXCEPT ![c] = [name |-> name, color |-> color,
                                  version |-> cal[c].version + 1, days |-> days]]
    /\ UNCHANGED made

\* Change the name, the colour or both.
Rename(c) ==
    /\ cal[c] # Absent
    /\ \E n \in Names, k \in Colors : Leaves(c, n, k, cal[c].days)

\* Add a day to its days, or remove one from them.
Mark(c) ==
    /\ cal[c] # Absent
    /\ \E day \in Days : \E days \in {cal[c].days \cup {day}, cal[c].days \ {day}} :
          Leaves(c, cal[c].name, cal[c].color, days)

Delete(c) ==
    /\ cal' = [cal EXCEPT ![c] = Absent]
    /\ UNCHANGED made

Next == \E c \in Cals : Create(c) \/ Rename(c) \/ Mark(c) \/ Delete(c)

Spec == Init /\ [][Next]_vars
=============================================================================
