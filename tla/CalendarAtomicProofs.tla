------------------------ MODULE CalendarAtomicProofs ------------------------
(***************************************************************************)
(* What two changes around the code would buy: with reads that are current *)
(* (ConsistentRead=true at calendar_dao.go:711) and no PutItem that took   *)
(* effect repeated, CalendarBackend implements AtomicCalendars and no      *)
(* accepted edit loses a day.                                              *)
(***************************************************************************)
EXTENDS CalendarPromiseProofs

\* Every GetItem answers with the row in the table, and not the replica's.
CurrentRead ==
    \A i \in Invs, c \in Cals :
       (GetItem(i) /\ c \in inv[i].todo /\ c \notin inv'[i].todo) => inv'[i].read[c] = table[c]

ReadsCurrent == [][CurrentRead]_vars

\* The invocation has read the calendar of this action.
HasRead(i, c) ==
    /\ Loops(i) /\ c \in DOMAIN inv[i].req.actions
    /\ inv[i].pc = "write" \/ c \notin inv[i].todo

\* What it has read is no older than what its client named.
ReadsAhead ==
    \A i \in Invs, c \in Cals :
       HasRead(i, c) => inv[i].read[c].version >= inv[i].req.actions[c].existingVersion

Atomic == INSTANCE AtomicCalendars WITH
    cal <- [c \in Cals |-> Visible(table[c])],
    made <- {c \in Cals : puts[c] > 0}

-----------------------------------------------------------------------------
(* Reads are never behind the client. *)

\* All rows of a calendar stored once are of that PutItem, and the table has
\* the latest of them.
LEMMA LatestInTable ==
    ASSUME IInv, PutOnce, NEW c \in Cals, table[c] # Absent, NEW r \in stored[c]
    PROVE  /\ r \in Row /\ table[c] \in Row
           /\ r.inc = table[c].inc /\ r.version <= table[c].version
<1>1. r \in Row /\ table[c] \in Row /\ puts[c] \in Nat /\ puts[c] <= 1
  BY DEF IInv, TypeOK, OptRow, PutOnce
<1>2. 1 <= r.inc /\ r.inc <= puts[c] /\ table[c].inc = puts[c]
  BY DEF IInv, DataInv, TableIsNewest
<1>3. r.inc \in Nat
  BY <1>1 DEF Row
<1>4. r.inc = puts[c]
  BY <1>1, <1>2, <1>3
<1> QED BY <1>1, <1>2, <1>4 DEF IInv, DataInv, TableIsNewest

\* A version a client names is not ahead of the table.
LEMMA NamedIsPast ==
    ASSUME IInv, PutOnce, NEW i \in Invs, Loops(i), NEW c \in DOMAIN inv[i].req.actions,
           table[c] # Absent
    PROVE  /\ c \in Cals /\ inv[i].req.actions[c].existingVersion \in Versions
           /\ inv[i].req.actions[c].existingVersion <= table[c].version
<1> DEFINE v == inv[i].req.actions[c].existingVersion
<1>1. inv[i].req \in UpdateRequests /\ v \in known[c]
  BY DEF IInv, PhasesOK, PhaseOK
<1>2. c \in Cals /\ v \in Versions
  BY <1>1 DEF UpdateRequests, Actions
<1>3. PICK r \in stored[c] : r.version = v
  BY <1>1, <1>2 DEF IInv, KnownStored
<1> QED BY <1>2, <1>3, LatestInTable

LEMMA ReadsAheadGetItem ==
    ASSUME IInv, PutOnce, ReadsAhead, CurrentRead, NEW i \in Invs, GetItem(i),
           NEW c \in Cals, HasRead(i, c)'
    PROVE  inv'[i].read[c].version >= inv'[i].req.actions[c].existingVersion
<1>0. TypeOK /\ inv[i] \in Invocation
  BY DEF IInv, TypeOK
<1>1. PICK d \in inv[i].todo : \E copy \in Copies(d) \ {Absent} :
         inv' = [inv EXCEPT ![i].read[d] = copy, ![i].todo = @ \ {d}]
  BY DEF GetItem
<1>2. PICK copy \in Copies(d) \ {Absent} :
         inv' = [inv EXCEPT ![i].read[d] = copy, ![i].todo = @ \ {d}]
  BY <1>1
<1>3. /\ inv'[i].pc = inv[i].pc /\ inv'[i].req = inv[i].req /\ inv[i].pc = "read"
      /\ inv'[i].todo = inv[i].todo \ {d}
      /\ inv'[i].read = [inv[i].read EXCEPT ![d] = copy]
      /\ inv[i].read \in [Cals -> OptRow] /\ d \in Cals
  BY <1>0, <1>2 DEF TypeOK, Invocation, GetItem
<1>4. Loops(i) /\ c \in DOMAIN inv[i].req.actions /\ c \notin inv'[i].todo
  BY <1>3 DEF HasRead, Loops
<1>5. CASE c = d
  <2>1. inv'[i].read[c] = table[c] /\ inv'[i].read[c] = copy
    BY <1>1, <1>3, <1>5 DEF CurrentRead
  <2>2. table[c] # Absent
    BY <1>2, <2>1
  <2>3. table[c] \in Row
    BY <1>0, <2>2 DEF TypeOK, OptRow
  <2>4. inv[i].req.actions[c].existingVersion <= table[c].version
    BY <1>4, <2>2, NamedIsPast
  <2>5. inv[i].req.actions[c].existingVersion \in Nat /\ table[c].version \in Nat
    BY <1>4, <2>2, <2>3, NamedIsPast, BackendAssumption DEF Row, Versions
  <2> QED BY <1>3, <2>1, <2>4, <2>5
<1>6. CASE c # d
  <2>1. c \notin inv[i].todo /\ inv'[i].read[c] = inv[i].read[c]
    BY <1>3, <1>4, <1>6
  <2> QED BY <1>3, <1>4, <2>1 DEF ReadsAhead, HasRead
<1> QED BY <1>5, <1>6

LEMMA ReadsAheadStep ==
    ASSUME IInv, PutOnce, ReadsAhead, CurrentRead, NEW i \in Invs, InvStep(i),
           NEW c \in Cals, HasRead(i, c)'
    PROVE  inv'[i].read[c].version >= inv'[i].req.actions[c].existingVersion
<1>0. TypeOK /\ PhasesOK /\ inv[i] \in Invocation /\ inv \in [Invs -> Invocation]
  BY DEF IInv, TypeOK
<1>1. inv'[i].pc \in {"read", "write"} /\ inv'[i].req.op = "update"
  BY DEF HasRead, Loops
\* An invocation that ended, or that goes on as it was, has read nothing new.
<1>2. ASSUME \/ Ended(i)
             \/ /\ inv'[i].pc = inv[i].pc /\ inv'[i].req = inv[i].req /\ inv'[i].read = inv[i].read
                /\ inv[i].pc = "write" \/ inv'[i].todo = inv[i].todo
      PROVE  inv'[i].read[c].version >= inv'[i].req.actions[c].existingVersion
  BY <1>1, <1>2 DEF Ended, ReadsAhead, HasRead, Loops
<1>3. ASSUME NEW rows \in [Cals -> OptRow], Answer(i, rows) PROVE Ended(i)
  BY <1>0, <1>3, AnswerEffect
<1>4. CASE Fail(i)
  BY <1>0, <1>2, <1>4, FailEffect
<1>5. ASSUME NEW busy \in SUBSET Cals, Repeat(i, busy)
      PROVE  inv'[i].read[c].version >= inv'[i].req.actions[c].existingVersion
  BY <1>0, <1>2, <1>5, RepeatEffect
<1>6. CASE PutItem(i)
  <2>1. PICK d \in Cals, row \in Row : Answer(i, [NoRows EXCEPT ![d] = row]) \/ Repeat(i, {})
    BY <1>0, <1>6, PutItemEffect
  <2>2. [NoRows EXCEPT ![d] = row] \in [Cals -> OptRow]
    BY DEF NoRows, OptRow
  <2> QED BY <1>2, <1>3, <1>5, <2>1, <2>2
<1>7. CASE DeleteItem(i)
  <2>1. (Answer(i, NoRows) \/ Repeat(i, {})) /\ NoRows \in [Cals -> OptRow]
    BY <1>7 DEF DeleteItem, NoRows, OptRow
  <2> QED BY <1>2, <1>3, <1>5, <2>1
<1>8. ASSUME NEW d \in Cals, UpdateItem(i, d)
      PROVE  inv'[i].read[c].version >= inv'[i].req.actions[c].existingVersion
  <2>1. inv[i].pc = "write"
    BY <1>0, <1>8, UpdateItemFacts
  <2>2. inv'[i].pc = inv[i].pc /\ inv'[i].req = inv[i].req /\ inv'[i].read = inv[i].read
    BY <1>0, <1>8, UpdateItemEffect
  <2> QED BY <1>2, <2>1, <2>2
<1>9. CASE Reads(i)
  <2>1. ASSUME NEW req \in Requests, Begin(i, req) PROVE FALSE
    <3>1. PICK d \in Cals :
             inv' = [inv EXCEPT ![i] = [Blank(req) EXCEPT !.pc = NextPhase(req), !.todo = FirstIds(req, d)]]
      BY <2>1 DEF Begin
    <3>2. inv'[i].pc = NextPhase(req) /\ inv'[i].todo = FirstIds(req, d) /\ inv'[i].req = req
      BY <1>0, <3>1 DEF Blank
    <3>3. req.op = "update" /\ inv'[i].pc = "read" /\ inv'[i].todo = DOMAIN req.actions
      BY <1>1, <3>2 DEF NextPhase, FirstIds
    <3> QED BY <3>2, <3>3 DEF HasRead
  <2>2. ASSUME NEW req \in Requests, RejectSession(i, req) PROVE FALSE
    BY <1>0, <1>1, <2>2 DEF RejectSession, Blank
  <2>3. CASE Crash(i)
    BY <1>0, <1>1, <2>3 DEF Crash, Blank
  <2>4. CASE GetItem(i)
    BY <2>4, ReadsAheadGetItem
  <2>5. CASE StartWriting(i)
    <3>1. /\ inv'[i].req = inv[i].req /\ inv'[i].read = inv[i].read
          /\ inv[i].pc = "read" /\ inv[i].todo = {}
      BY <1>0, <2>5 DEF Invocation, StartWriting
    <3> QED BY <1>1, <3>1 DEF ReadsAhead, HasRead, Loops
  <2>6. CASE \/ GetItemNotFound(i) \/ ServiceError(i)
             \/ \E d \in Cals : UpdateItemRefused(i, d) \/ UnknownActionType(i, d)
    BY <1>4, <2>6 DEF GetItemNotFound, ServiceError, UpdateItemRefused, UnknownActionType
  <2>7. CASE AnswerGet(i) \/ AnswerUpdate(i)
    <3>1. inv[i].read \in [Cals -> OptRow] /\ inv[i].out \in [Cals -> OptRow]
      BY <1>0 DEF Invocation
    <3>2. Answer(i, inv[i].read) \/ Answer(i, inv[i].out)
      BY <2>7 DEF AnswerGet, AnswerUpdate, Answer
    <3> QED BY <1>2, <1>3, <3>1, <3>2
  <2>8. CASE Query(i)
    BY <1>0, <1>2, <1>3, <2>8, QueryAnswers
  <2> QED BY <1>9, <2>1, <2>2, <2>3, <2>4, <2>5, <2>6, <2>7, <2>8 DEF Reads
<1> QED BY <1>6, <1>7, <1>8, <1>9, InvStepCases

LEMMA ReadsAheadKept ==
    ASSUME IInv, PutOnce, ReadsAhead, [CurrentRead]_vars, [Next]_vars
    PROVE  ReadsAhead'
<1>1. ASSUME UNCHANGED inv PROVE ReadsAhead'
  BY <1>1 DEF ReadsAhead, HasRead, Loops
<1>2. CASE UNCHANGED vars
  BY <1>1, <1>2 DEF vars
<1>3. ASSUME NEW c \in Cals, Replicate(c) PROVE ReadsAhead'
  BY <1>1, <1>3 DEF Replicate
<1>4. ASSUME NEW i \in Invs, InvStep(i), CurrentRead PROVE ReadsAhead'
  <2>1. \A j \in Invs \ {i} : inv'[j] = inv[j]
    BY <1>4, Frame DEF IInv
  <2>2. ASSUME NEW j \in Invs \ {i}, NEW c \in Cals, HasRead(j, c)'
        PROVE  inv'[j].read[c].version >= inv'[j].req.actions[c].existingVersion
    BY <2>1, <2>2 DEF ReadsAhead, HasRead, Loops
  <2>3. \A c \in Cals : HasRead(i, c)' =>
           inv'[i].read[c].version >= inv'[i].req.actions[c].existingVersion
    BY <1>4, ReadsAheadStep
  <2> QED BY <2>2, <2>3 DEF ReadsAhead
<1> QED BY <1>2, <1>3, <1>4, NextSteps

-----------------------------------------------------------------------------
(* So an accepted UpdateItem works on the row it replaces. *)

LEMMA UpdatesPresentRow ==
    ASSUME IInv, PutOnce, ReadsAhead, NEW i \in Invs, NEW c \in Cals, UpdateItem(i, c)
    PROVE  inv[i].read[c] = table[c]
<1>1. /\ table[c] \in Row /\ inv[i].read[c] \in Row
      /\ inv[i].pc = "write" /\ inv[i].req.op = "update" /\ c \in DOMAIN inv[i].req.actions
      /\ table[c].version = inv[i].req.actions[c].existingVersion
  BY UpdateItemFacts DEF IInv, ActionOf
<1>2. inv[i].read[c] \in stored[c] /\ table[c] \in stored[c] /\ table[c] # Absent
  BY <1>1, AbsentIsNoRow DEF IInv, NoTornRows
<1>3. inv[i].read[c].version >= table[c].version
  BY <1>1 DEF ReadsAhead, HasRead, Loops
<1>4. inv[i].read[c].inc = table[c].inc /\ inv[i].read[c].version <= table[c].version
  BY <1>2, LatestInTable
<1>5. inv[i].read[c].version \in Nat /\ table[c].version \in Nat
  BY <1>1, BackendAssumption DEF Row, Versions
<1>6. SameWrite(inv[i].read[c], table[c])
  BY <1>3, <1>4, <1>5 DEF SameWrite
<1> QED BY <1>2, <1>6 DEF IInv, DataInv, VersionNamesRow

LEMMA InitReadsAhead == Init => ReadsAhead
BY DEF Init, ReadsAhead, HasRead, Loops, Blank

\* The log grows by the updates that take effect, and by nothing else.
LEMMA LogGrows ==
    ASSUME IInv, [Next]_vars, NEW e \in log', e \notin log
    PROVE  \E i \in Invs, c \in Cals :
              /\ UpdateItem(i, c) /\ e.edit = ActionOf(i, c).edit
              /\ e.prev = table[c] /\ e.row = NewRow(i, c)
<1>1. PICK i \in Invs : InvStep(i)
  BY NextSteps DEF vars, Replicate
<1>2. PICK c \in Cals : UpdateItem(i, c)
  <2>1. ~Reads(i) /\ ~PutItem(i) /\ ~DeleteItem(i)
    BY ReadsEffect DEF PutItem, DeleteItem
  <2> QED BY <1>1, <2>1, InvStepCases
<1>3. e = [cal |-> c, edit |-> ActionOf(i, c).edit, from |-> ActionOf(i, c).existingVersion,
           prev |-> table[c], copy |-> inv[i].read[c], row |-> NewRow(i, c)]
  BY <1>2 DEF UpdateItem, ActionOf, NewRow
<1> QED BY <1>2, <1>3

\* With current reads and no calendar stored twice, an accepted edit of days
\* applies to the days of the version its client named (EditsApplyToNamedVersion):
\* the two together repair what runs stale_days and rewind show.
THEOREM CurrentReadsLoseNoDay ==
    Spec /\ ReadsCurrent /\ []PutOnce => []EditsApplyToNamedVersion
<1>1. Init => EditsApplyToNamedVersion
  BY DEF Init, EditsApplyToNamedVersion
<1>2. IInv /\ PutOnce /\ ReadsAhead /\ EditsApplyToNamedVersion /\ [Next]_vars
         => EditsApplyToNamedVersion'
  <2> SUFFICES ASSUME IInv, PutOnce, ReadsAhead, EditsApplyToNamedVersion, [Next]_vars,
                      NEW e \in log', EditsDays(e.edit)
               PROVE  e.row.days = NewDays(e.edit, e.prev.days)
    BY DEF EditsApplyToNamedVersion
  <2>1. CASE e \in log
    BY <2>1 DEF EditsApplyToNamedVersion
  <2>2. CASE e \notin log
    <3>1. PICK i \in Invs, c \in Cals :
             /\ UpdateItem(i, c) /\ e.edit = ActionOf(i, c).edit
             /\ e.prev = table[c] /\ e.row = NewRow(i, c)
      BY <2>2, LogGrows
    <3>2. NewRow(i, c).days = NewDays(ActionOf(i, c).edit, inv[i].read[c].days)
      BY <3>1, UpdateItemFacts DEF IInv
    <3> QED BY <3>1, <3>2, UpdatesPresentRow
  <2> QED BY <2>1, <2>2
<1>3. IInv /\ PutOnce /\ ReadsAhead /\ [CurrentRead]_vars /\ [Next]_vars => ReadsAhead'
  BY ReadsAheadKept
<1> QED BY <1>1, <1>2, <1>3, InitReadsAhead, Inductive, PTL DEF Spec, ReadsCurrent

-----------------------------------------------------------------------------
(* Every step maps to a step of AtomicCalendars or to none. *)

LEMMA AtomicPut ==
    ASSUME IInv, PutOnce', NEW i \in Invs, PutItem(i)
    PROVE  \E c \in Cals : Atomic!Create(c)
<1>1. PICK c \in Cals, row \in Row :
         /\ row.version = 0 /\ row.days = {} /\ Store(c, row)
         /\ puts[c] = 0 /\ puts' = [puts EXCEPT ![c] = 1]
  BY PutIsFirst
<1>2. cal' = [cal EXCEPT ![c] = [name |-> row.name, color |-> row.color, version |-> 0, days |-> {}]]
  BY <1>1, StoreMaps DEF IInv
<1>3. {d \in Cals : puts'[d] > 0} = {d \in Cals : puts[d] > 0} \cup {c}
  BY <1>1 DEF IInv, TypeOK
<1>4. c \notin {d \in Cals : puts[d] > 0} /\ row.name \in Names /\ row.color \in Colors
  BY <1>1 DEF Row
<1> QED BY <1>2, <1>3, <1>4 DEF Atomic!Create, cal

LEMMA AtomicDelete ==
    ASSUME IInv, NEW i \in Invs, DeleteItem(i)
    PROVE  \E c \in Cals : Atomic!Delete(c)
<1>1. PICK c \in Cals : Promise!Delete(c)
  BY DeleteItemMaps
<1>2. cal' = [cal EXCEPT ![c] = Absent]
  BY <1>1 DEF Promise!Delete, cal
<1>3. puts' = puts
  BY DEF DeleteItem
<1> QED BY <1>2, <1>3 DEF Atomic!Delete, cal

LEMMA AtomicUpdate ==
    ASSUME IInv, PutOnce, ReadsAhead, NEW i \in Invs, NEW c \in Cals, UpdateItem(i, c)
    PROVE  Atomic!Rename(c) \/ Atomic!Mark(c)
<1> DEFINE row == NewRow(i, c)
           edit == ActionOf(i, c).edit
<1>0. TypeOK /\ PhasesOK
  BY DEF IInv
<1>1. /\ table[c] \in Row /\ row \in Row
      /\ row.version = table[c].version + 1
      /\ EditsDays(edit) => row.days = NewDays(edit, inv[i].read[c].days)
      /\ ~EditsDays(edit) => row.days = table[c].days
      /\ edit \in Edits
  BY <1>0, UpdateItemFacts DEF Actions
<1>2. inv[i].read[c] = table[c]
  BY UpdatesPresentRow
<1>3. Store(c, row) /\ puts' = puts
  BY DEF UpdateItem, NewRow, ActionOf
<1>4. EditsDays(edit) => row.name = table[c].name /\ row.color = table[c].color
  BY <1>1 DEF NewRow, Updated, EditsDays, NewName, NewColor, Row
<1> HIDE DEF row, edit
<1>5. cal' = [cal EXCEPT ![c] = [name |-> row.name, color |-> row.color,
                                 version |-> row.version, days |-> row.days]]
  BY <1>0, <1>1, <1>3, StoreMaps
<1>6. /\ cal[c] # Absent /\ cal[c].name = table[c].name /\ cal[c].color = table[c].color
      /\ cal[c].version = table[c].version /\ cal[c].days = table[c].days
  BY <1>1, RowSeen
<1>7. CASE EditsDays(edit)
  <2>1. edit.day \in Days /\ row.days \in {cal[c].days \cup {edit.day}, cal[c].days \ {edit.day}}
    BY <1>1, <1>2, <1>6, <1>7, EditShapes
       DEF EditsDays, NewDays, addHighlightedDay, removeHighlightedDay
  <2>2. Atomic!Leaves(c, cal[c].name, cal[c].color, row.days)
    BY <1>1, <1>3, <1>4, <1>5, <1>6, <1>7 DEF Atomic!Leaves, cal
  <2> QED BY <1>6, <2>1, <2>2 DEF Atomic!Mark, cal
<1>8. CASE ~EditsDays(edit)
  <2>1. row.name \in Names /\ row.color \in Colors
    BY <1>1 DEF Row
  <2>2. Atomic!Leaves(c, row.name, row.color, cal[c].days)
    BY <1>1, <1>3, <1>5, <1>6, <1>8 DEF Atomic!Leaves, cal
  <2> QED BY <1>6, <2>1, <2>2 DEF Atomic!Rename, cal
<1> QED BY <1>7, <1>8

LEMMA AtomicStep ==
    ASSUME IInv, PutOnce, PutOnce', ReadsAhead, [Next]_vars
    PROVE  [Atomic!Next]_(Atomic!vars)
<1>1. ASSUME UNCHANGED <<table, puts>> PROVE UNCHANGED Atomic!vars
  BY <1>1 DEF Atomic!vars, Visible
<1>2. CASE UNCHANGED vars
  BY <1>1, <1>2 DEF vars
<1>3. ASSUME NEW c \in Cals, Replicate(c) PROVE UNCHANGED Atomic!vars
  BY <1>1, <1>3 DEF Replicate
<1>4. ASSUME NEW i \in Invs, InvStep(i) PROVE [Atomic!Next]_(Atomic!vars)
  <2>1. CASE Reads(i)
    BY <1>1, <2>1, ReadsEffect
  <2>2. CASE PutItem(i)
    BY <2>2, AtomicPut DEF Atomic!Next
  <2>3. CASE DeleteItem(i)
    BY <2>3, AtomicDelete DEF Atomic!Next
  <2>4. CASE \E c \in Cals : UpdateItem(i, c)
    BY <2>4, AtomicUpdate DEF Atomic!Next
  <2> QED BY <1>4, <2>1, <2>2, <2>3, <2>4, InvStepCases
<1> QED BY <1>2, <1>3, <1>4, NextSteps

\* With current reads and no calendar stored twice the handlers, call by call,
\* with repeated updates, crashes and errors, look like the atomic operations
\* of AtomicCalendars: every edit applies to the calendar as it is.
THEOREM AtomicImplemented == Spec /\ ReadsCurrent /\ []PutOnce => Atomic!Spec
<1>1. Init => Atomic!Init
  <2> SUFFICES ASSUME Init PROVE Atomic!Init
    OBVIOUS
  <2>1. [c \in Cals |-> Visible(table[c])] = [c \in Cals |-> Absent]
    BY DEF Init, NoRows, Visible
  <2>2. {c \in Cals : puts[c] > 0} = {}
    BY DEF Init
  <2> QED BY <2>1, <2>2 DEF Atomic!Init
<1>2. IInv /\ PutOnce /\ PutOnce' /\ ReadsAhead /\ [Next]_vars => [Atomic!Next]_(Atomic!vars)
  BY AtomicStep
<1>3. IInv /\ PutOnce /\ ReadsAhead /\ [CurrentRead]_vars /\ [Next]_vars => ReadsAhead'
  BY ReadsAheadKept
<1> QED BY <1>1, <1>2, <1>3, InitReadsAhead, Inductive, PTL DEF Spec, ReadsCurrent, Atomic!Spec
=============================================================================
