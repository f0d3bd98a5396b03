------------------------- MODULE MCCalendarBackend -------------------------
(***************************************************************************)
(* Instances of CalendarBackend for TLC: the traffic each run explores.    *)
(***************************************************************************)
EXTENDS CalendarBackend, TLC

\* The cfg's model values.
CONSTANTS n1, n2, col, d1, d2, i1, i2

Kinds(S) == {e \in Edits : e.kind \in S}

UpdatesOf(S, edits) ==
    {[op |-> "update", actions |-> a] :
        a \in [S -> [existingVersion: Versions, edit: edits]]}

DayEdits == Kinds({"ADD_HIGHLIGHTED_DAY", "REMOVE_HIGHLIGHTED_DAY"})

NameEdits == Kinds({"CHANGE_NAME", "CHANGE_COLOR", "CHANGE_NAME_AND_COLOR"})

\* Invocations are interchangeable.
Interchangeable == Permutations({i1, i2})

Creation == [op: {"create"}, name: {n1}, color: {col}]

\* Updates of one calendar racing with each other and with its deletion: from
\* version 0 either day is added, from version 1 one is added or removed.
RaceTraffic ==
    Creation \cup DeleteRequests
    \cup {r \in UpdatesOf({1}, DayEdits) :
             \/ r.actions[1].existingVersion = 0 /\ r.actions[1].edit.kind = "ADD_HIGHLIGHTED_DAY"
             \/ /\ r.actions[1].existingVersion = 1
                /\ r.actions[1].edit \in {[kind |-> "ADD_HIGHLIGHTED_DAY", day |-> d2],
                                         [kind |-> "REMOVE_HIGHLIGHTED_DAY", day |-> d1]}}

\* Requests about two calendars: batches of every kind of edit, readings,
\* listings, and deletion.
BatchTraffic ==
    Creation
    \cup {[op |-> "get", ids |-> {1, 2}]}
    \cup {r \in UpdatesOf({1, 2}, NameEdits \cup DayEdits \cup Kinds({"UNKNOWN"})) :
             /\ r.actions[1].existingVersion = 0 /\ r.actions[2].existingVersion = 0
             /\ r.actions[1].edit \in {[kind |-> "CHANGE_NAME_AND_COLOR", name |-> n2, color |-> col],
                                       [kind |-> "ADD_HIGHLIGHTED_DAY", day |-> d1]}
             /\ r.actions[2].edit \in {[kind |-> "CHANGE_NAME", name |-> n2],
                                       [kind |-> "UNKNOWN"]}}
    \cup [op: {"delete"}, id: {1}]
    \cup [op: {"list"}, maxResults: {0, 1}]

\* A listing tells clients of a calendar whose creation is not answered yet,
\* so that its PutItem may be repeated after they edited or deleted it.
RewindTraffic ==
    Creation \cup DeleteRequests \cup [op: {"list"}, maxResults: {0}]
    \cup UpdatesOf({1}, DayEdits)

\* One calendar and days added to it.
AddDayTraffic == Creation \cup UpdatesOf({1}, Kinds({"ADD_HIGHLIGHTED_DAY"}))
=============================================================================
