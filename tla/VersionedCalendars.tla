------------------------- MODULE VersionedCalendars -------------------------
(***************************************************************************)
(* What the calendar table promises its users, each operation one step: a  *)
(* calendar is created once, under an id of its own, with version 0 and no *)
(* day; every edit raises its version by one; once deleted it is gone.     *)
(*                                                                         *)
(* Name and colour edits apply to the calendar as it is.  Day edits apply  *)
(* to the days the calendar has OR HAD: the promise the code keeps is no   *)
(* stronger, because it computes the new days from an eventually           *)
(* consistent read (calendar_dao.go:711).                                  *)
(***************************************************************************)
EXTENDS Naturals

CONSTANTS Cals, Names, Colors, Days, Absent

VARIABLES
    cal,        \* the calendar under each id, or Absent
    had         \* the sets of days it has had

vars == <<cal, had>>

Init ==
    /\ cal = [c \in Cals |-> Absent]
    /\ had = [c \in Cals |-> {}]

Create(c) ==
    /\ cal[c] = Absent /\ had[c] = {}
    /\ \E n \in Names, k \in Colors :
          cal' = [cal EXCEPT ![c] = [name |-> n, color |-> k, version |-> 0, days |-> {}]]
    /\ had' = [had EXCEPT ![c] = {{}}]

\* Change the name, the colour or both.
Rename(c) ==
    /\ cal[c] # Absent
    /\ \E n \in Names, k \in Colors :
          cal' = [cal EXCEPT ![c] = [name |-> n, color |-> k, version |-> cal[c].version + 1,
                                     days |-> cal[c].days]]
    /\ UNCHANGED had

\* Add a day to, or remove it from, the days the calendar has or had.
Mark(c) ==
    /\ cal[c] # Absent
    /\ \E base \in had[c], day \in Days : \E days \in {base \cup {day}, base \ {day}} :
          /\ cal' = [cal EXCEPT ![c] = [name |-> cal[c].name, color |-> cal[c].color,
                                        version |-> cal[c].version + 1, days |-> days]]
          /\ had' = [had EXCEPT ![c] = @ \cup {days}]

Delete(c) ==
    /\ cal' = [cal EXCEPT ![c] = Absent]
    /\ UNCHANGED had

Next == \E c \in Cals : Create(c) \/ Rename(c) \/ Mark(c) \/ Delete(c)

Spec == Init /\ [][Next]_vars
=============================================================================
