----------------------- MODULE CalendarPromiseProofs -----------------------
(***************************************************************************)
(* CalendarBackend implements VersionedCalendars as long as no PutItem     *)
(* that took effect is repeated, for every set of calendars, days and      *)
(* invocations, every traffic, and any repetition of the other calls.      *)
(***************************************************************************)
EXTENDS CalendarBackendProofs

\* The abstract variables of VersionedCalendars.
cal == [c \in Cals |-> Visible(table[c])]
had == [c \in Cals |-> {r.days : r \in stored[c]}]

\* No calendar is stored afresh over itself: a PutItem that took effect is not
\* repeated.  The code relies on it and nothing in it makes it so.
PutOnce == \A c \in Cals : puts[c] <= 1

\* A calendar being created has not been written yet, and by nobody else.
Creating ==
    /\ \A i \in Invs : inv[i].pc = "put" => \A c \in inv[i].todo : puts[c] = 0
    /\ \A i, j \in Invs :
          (i # j /\ inv[i].pc = "put" /\ inv[j].pc = "put") => inv[i].todo \cap inv[j].todo = {}

-----------------------------------------------------------------------------
(* Creating is kept. *)

\* Only the beginning of a create request leaves an invocation about to put.
LEMMA PutBegins ==
    ASSUME MaxAttempts = 1, IInv, NEW i \in Invs, InvStep(i), inv'[i].pc = "put"
    PROVE  \E c \in Cals : inv'[i].todo = {c} /\ Fresh(c)
<1>0. TypeOK /\ PhasesOK /\ inv[i] \in Invocation
  BY DEF IInv, TypeOK
<1>1. \A busy \in SUBSET Cals : ~Repeat(i, busy)
  BY <1>0 DEF Repeat, Invocation
<1>2. CASE \E rows \in [Cals -> OptRow] : Answer(i, rows)
  BY <1>0, <1>2, AnswerEffect
<1>3. CASE Fail(i)
  BY <1>0, <1>3, FailEffect DEF Ended
<1>4. CASE PutItem(i)
  <2>1. PICK c \in Cals, row \in Row : Answer(i, [NoRows EXCEPT ![c] = row])
    BY <1>0, <1>1, <1>4, PutItemEffect
  <2>2. [NoRows EXCEPT ![c] = row] \in [Cals -> OptRow]
    BY DEF NoRows, OptRow
  <2> QED BY <1>2, <2>1, <2>2
<1>5. CASE DeleteItem(i)
  <2>1. Answer(i, NoRows) /\ NoRows \in [Cals -> OptRow]
    BY <1>1, <1>5 DEF DeleteItem, NoRows, OptRow
  <2> QED BY <1>2, <2>1
<1>6. CASE \E c \in Cals : UpdateItem(i, c)
  <2>1. PICK c \in Cals : UpdateItem(i, c)
    BY <1>6
  <2> QED BY <1>0, <2>1, UpdateItemFacts, UpdateItemEffect
<1>7. CASE Reads(i)
  <2>1. ASSUME NEW req \in Requests, Begin(i, req)
        PROVE  \E c \in Cals : inv'[i].todo = {c} /\ Fresh(c)
    <3>1. PICK c \in Cals :
             /\ req.op = "create" => Fresh(c)
             /\ inv' = [inv EXCEPT ![i] = [Blank(req) EXCEPT !.pc = NextPhase(req), !.todo = FirstIds(req, c)]]
      BY <2>1 DEF Begin
    <3>2. inv'[i].pc = NextPhase(req) /\ inv'[i].todo = FirstIds(req, c)
      BY <1>0, <3>1 DEF TypeOK, Blank
    <3>3. req.op = "create"
      BY <3>2, RequestShapes DEF NextPhase
    <3> QED BY <3>1, <3>2, <3>3 DEF FirstIds
  <2>2. ASSUME NEW req \in Requests, RejectSession(i, req) PROVE FALSE
    BY <1>0, <2>2 DEF TypeOK, RejectSession, Blank
  <2>3. CASE Crash(i)
    BY <1>0, <2>3 DEF TypeOK, Crash, Blank
  <2>4. CASE GetItem(i)
    <3>1. \E c \in inv[i].todo : \E copy \in Copies(c) \ {Absent} :
             inv' = [inv EXCEPT ![i].read[c] = copy, ![i].todo = @ \ {c}]
      BY <2>4 DEF GetItem
    <3>2. inv'[i].pc = inv[i].pc
      BY <1>0, <3>1 DEF TypeOK, Invocation
    <3> QED BY <2>4, <3>2 DEF GetItem
  <2>8. CASE StartWriting(i)
    BY <1>0, <2>8 DEF TypeOK, Invocation, StartWriting
  <2>5. CASE \/ GetItemNotFound(i) \/ ServiceError(i)
             \/ \E d \in Cals : UpdateItemRefused(i, d) \/ UnknownActionType(i, d)
    BY <1>3, <2>5 DEF GetItemNotFound, ServiceError, UpdateItemRefused, UnknownActionType
  <2>6. CASE AnswerGet(i) \/ AnswerUpdate(i)
    <3>1. inv[i].read \in [Cals -> OptRow] /\ inv[i].out \in [Cals -> OptRow]
      BY <1>0 DEF Invocation
    <3>2. Answer(i, inv[i].read) \/ Answer(i, inv[i].out)
      BY <2>6 DEF AnswerGet, AnswerUpdate, Answer
    <3> QED BY <1>2, <3>1, <3>2
  <2>7. CASE Query(i)
    BY <1>0, <1>2, <2>7, QueryAnswers
  <2> QED BY <1>7, <2>1, <2>2, <2>3, <2>4, <2>5, <2>6, <2>7, <2>8 DEF Reads
<1> QED BY <1>4, <1>5, <1>6, <1>7, InvStepCases

LEMMA CreatingStep ==
    ASSUME MaxAttempts = 1, IInv, Creating, NEW i \in Invs, InvStep(i)
    PROVE  Creating'
<1>0. TypeOK /\ PhasesOK /\ \A j \in Invs \ {i} : inv'[j] = inv[j]
  BY Frame DEF IInv
<1>1. ASSUME NEW j \in Invs \ {i}, inv[j].pc = "put", NEW c \in inv[j].todo
      PROVE  puts'[c] = 0
  <2>1. puts[c] = 0 /\ c \in Cals
    BY <1>0, <1>1 DEF Creating, TypeOK, Invocation
  <2>2. CASE PutItem(i)
    <3>1. PICK d \in inv[i].todo : puts' = [puts EXCEPT ![d] = @ + 1]
      BY <2>2 DEF PutItem
    <3>2. c # d
      BY <1>1, <2>2, <3>1 DEF Creating, PutItem
    <3> QED BY <1>0, <2>1, <3>1, <3>2 DEF TypeOK
  <2>3. CASE ~PutItem(i)
    BY <2>1, <2>3, ReadsEffect, InvStepCases DEF UpdateItem, DeleteItem
  <2> QED BY <2>2, <2>3
<1>2. ASSUME inv'[i].pc = "put"
      PROVE  /\ \A c \in inv'[i].todo : puts'[c] = 0
             /\ \A j \in Invs \ {i} : inv[j].pc = "put" => inv'[i].todo \cap inv[j].todo = {}
  <2>1. PICK c \in Cals : inv'[i].todo = {c} /\ Fresh(c)
    BY <1>2, PutBegins
  <2>2. ~PutItem(i)
    <3>1. SUFFICES ASSUME PutItem(i) PROVE FALSE
      OBVIOUS
    <3>2. ~Repeat(i, {})
      BY <1>0 DEF TypeOK, Repeat, Invocation
    <3>3. PICK d \in Cals, row \in Row : Answer(i, [NoRows EXCEPT ![d] = row])
      BY <1>0, <3>1, <3>2, PutItemEffect
    <3>4. [NoRows EXCEPT ![d] = row] \in [Cals -> OptRow]
      BY DEF NoRows, OptRow
    <3> QED BY <1>0, <1>2, <3>3, <3>4, AnswerEffect
  <2>3. puts' = puts
    BY <2>2, ReadsEffect, InvStepCases DEF UpdateItem, DeleteItem
  <2> QED BY <2>1, <2>3 DEF Fresh
<1> QED BY <1>0, <1>1, <1>2 DEF Creating

-----------------------------------------------------------------------------
(* Every step maps to a step of VersionedCalendars or to none. *)

\* What storing a row, or removing one, is to the abstract variables.
LEMMA StoreMaps ==
    ASSUME TypeOK, NEW c \in Cals, NEW row \in Row, Store(c, row)
    PROVE  /\ cal' = [cal EXCEPT ![c] = [name |-> row.name, color |-> row.color,
                                         version |-> row.version, days |-> row.days]]
           /\ had' = [had EXCEPT ![c] = @ \cup {row.days}]
<1>1. /\ \A d \in Cals \ {c} : table'[d] = table[d] /\ stored'[d] = stored[d]
      /\ table'[c] = row /\ stored'[c] = stored[c] \cup {row}
  BY StoreEffect
<1>2. Visible(row) = [name |-> row.name, color |-> row.color, version |-> row.version, days |-> row.days]
  BY AbsentIsNoRow DEF Visible
<1>3. cal' = [cal EXCEPT ![c] = Visible(row)]
  <2>1. \A d \in Cals : Visible(table[d])' = IF d = c THEN Visible(row) ELSE Visible(table[d])
    BY <1>1 DEF Visible
  <2> QED BY <2>1 DEF cal
<1>4. had' = [had EXCEPT ![c] = @ \cup {row.days}]
  <2>1. \A d \in Cals : {r.days : r \in stored'[d]} =
                        IF d = c THEN {r.days : r \in stored[c]} \cup {row.days}
                        ELSE {r.days : r \in stored[d]}
    BY <1>1
  <2> QED BY <2>1 DEF had
<1> QED BY <1>2, <1>3, <1>4

\* A row in the table is what VersionedCalendars sees of it.
LEMMA RowSeen ==
    ASSUME NEW c \in Cals, table[c] \in Row
    PROVE  /\ cal[c] # Absent
           /\ cal[c].name = table[c].name /\ cal[c].color = table[c].color
           /\ cal[c].version = table[c].version /\ cal[c].days = table[c].days
<1>1. cal[c] = [name |-> table[c].name, color |-> table[c].color,
                version |-> table[c].version, days |-> table[c].days]
  BY AbsentIsNoRow DEF cal, Visible
<1>2. cal[c] \in [name: Names, color: Colors, version: Versions, days: SUBSET Days]
  BY <1>1 DEF Row
<1> QED BY <1>1, <1>2, AbsentAssumption

\* A PutItem that is the only one of its calendar finds nothing there.
LEMMA PutIsFirst ==
    ASSUME IInv, PutOnce', NEW i \in Invs, PutItem(i)
    PROVE  \E c \in Cals, row \in Row :
              /\ row = NewCalendar(inv[i].req, puts[c] + 1)
              /\ row.version = 0 /\ row.days = {} /\ Store(c, row)
              /\ puts[c] = 0 /\ puts' = [puts EXCEPT ![c] = 1]
              /\ stored[c] = {} /\ table[c] = Absent
<1>0. TypeOK /\ PhasesOK
  BY DEF IInv
<1>1. PICK c \in Cals, row \in Row :
         /\ row = NewCalendar(inv[i].req, puts[c] + 1)
         /\ row.version = 0 /\ row.days = {} /\ Store(c, row)
         /\ puts' = [puts EXCEPT ![c] = @ + 1]
  BY <1>0, PutItemEffect
<1>2. puts[c] = 0
  BY <1>0, <1>1 DEF PutOnce, TypeOK
<1>3. stored[c] = {}
  <2>1. \A r \in stored[c] : r.inc \in Nat /\ 1 <= r.inc /\ r.inc <= puts[c]
    BY <1>1 DEF IInv, TypeOK, Row, DataInv, TableIsNewest
  <2> QED BY <1>2, <2>1
<1>4. table[c] = Absent
  BY <1>1, <1>3 DEF IInv, NoTornRows
<1>5. puts' = [puts EXCEPT ![c] = 1]
  <2>1. puts[c] + 1 = 1
    BY <1>2
  <2> QED BY <1>1, <2>1
<1> QED BY <1>1, <1>2, <1>3, <1>4, <1>5

LEMMA PutItemMaps ==
    ASSUME IInv, PutOnce', NEW i \in Invs, PutItem(i)
    PROVE  \E c \in Cals : Promise!Create(c)
<1>0. TypeOK /\ PhasesOK
  BY DEF IInv
<1>1. PICK c \in Cals, row \in Row :
         /\ row = NewCalendar(inv[i].req, puts[c] + 1)
         /\ row.version = 0 /\ row.days = {} /\ Store(c, row)
         /\ puts[c] = 0 /\ puts' = [puts EXCEPT ![c] = 1]
         /\ stored[c] = {} /\ table[c] = Absent
  BY PutIsFirst
<1>3. stored[c] = {}
  BY <1>1
<1>4. table[c] = Absent
  BY <1>1
<1>5. cal[c] = Absent /\ had[c] = {}
  BY <1>1, <1>3, <1>4 DEF cal, had, Visible
<1>6. row.name \in Names /\ row.color \in Colors
  BY DEF Row
<1>7. /\ cal' = [cal EXCEPT ![c] = [name |-> row.name, color |-> row.color, version |-> 0, days |-> {}]]
      /\ had' = [had EXCEPT ![c] = {{}}]
  <2>1. /\ cal' = [cal EXCEPT ![c] = [name |-> row.name, color |-> row.color,
                                      version |-> row.version, days |-> row.days]]
        /\ had' = [had EXCEPT ![c] = had[c] \cup {row.days}]
    BY <1>0, <1>1, StoreMaps
  <2>2. had[c] \cup {row.days} = {{}}
    BY <1>1, <1>5
  <2> QED BY <1>1, <2>1, <2>2
<1> QED BY <1>1, <1>5, <1>6, <1>7 DEF Promise!Create, cal, had

LEMMA DeleteItemMaps ==
    ASSUME IInv, NEW i \in Invs, DeleteItem(i)
    PROVE  \E c \in Cals : Promise!Delete(c)
<1>1. PICK c \in Cals : table' = [table EXCEPT ![c] = Absent]
  BY DEF IInv, DeleteItem, TypeOK, Invocation
<1>2. \A d \in Cals : table'[d] = IF d = c THEN Absent ELSE table[d]
  BY <1>1 DEF IInv, TypeOK
<1>3. \A d \in Cals : Visible(table[d])' = IF d = c THEN Absent ELSE Visible(table[d])
  BY <1>2 DEF Visible
<1>4. cal' = [cal EXCEPT ![c] = Absent]
  BY <1>3 DEF cal
<1>5. had' = had
  BY DEF DeleteItem, had
<1> QED BY <1>1, <1>4, <1>5 DEF Promise!Delete, cal, had

LEMMA UpdateItemMaps ==
    ASSUME IInv, NEW i \in Invs, NEW c \in Cals, UpdateItem(i, c)
    PROVE  Promise!Rename(c) \/ Promise!Mark(c)
<1> DEFINE row == NewRow(i, c)
           copy == inv[i].read[c]
           edit == ActionOf(i, c).edit
<1>0. TypeOK /\ PhasesOK
  BY DEF IInv
<1>1. /\ table[c] \in Row /\ copy \in Row /\ row \in Row
      /\ row.version = table[c].version + 1
      /\ EditsDays(edit) => row.days = NewDays(edit, copy.days)
      /\ ~EditsDays(edit) => row.days = table[c].days
      /\ edit \in Edits
  BY <1>0, UpdateItemFacts DEF Actions
<1>2. Store(c, row)
  BY DEF UpdateItem, NewRow, ActionOf
<1>3. table[c] \in stored[c] /\ copy \in stored[c]
  BY <1>1, AbsentIsNoRow DEF IInv, NoTornRows
<1>4. EditsDays(edit) => row.name = table[c].name /\ row.color = table[c].color
  BY <1>1 DEF NewRow, Updated, EditsDays, NewName, NewColor, Row
<1> HIDE DEF row, copy, edit
<1>5. /\ cal' = [cal EXCEPT ![c] = [name |-> row.name, color |-> row.color,
                                    version |-> row.version, days |-> row.days]]
      /\ had' = [had EXCEPT ![c] = @ \cup {row.days}]
  BY <1>0, <1>1, <1>2, StoreMaps
<1>6. copy.days \in had[c] /\ table[c].days \in had[c]
  BY <1>3 DEF had
<1>7. CASE EditsDays(edit)
  <2>1. edit.day \in Days /\ row.days \in {copy.days \cup {edit.day}, copy.days \ {edit.day}}
    BY <1>1, <1>7, EditShapes
       DEF EditsDays, NewDays, addHighlightedDay, removeHighlightedDay
  <2>2. cal' = [cal EXCEPT ![c] = [name |-> cal[c].name, color |-> cal[c].color,
                                   version |-> cal[c].version + 1, days |-> row.days]]
    BY <1>1, <1>4, <1>5, <1>7, RowSeen
  <2>3. cal[c] # Absent
    BY <1>1, RowSeen
  <2>4. \E base \in had[c], day \in Days : \E days \in {base \cup {day}, base \ {day}} :
           /\ cal' = [cal EXCEPT ![c] = [name |-> cal[c].name, color |-> cal[c].color,
                                         version |-> cal[c].version + 1, days |-> days]]
           /\ had' = [had EXCEPT ![c] = @ \cup {days}]
    BY <1>5, <1>6, <2>1, <2>2
  <2> QED BY <2>3, <2>4 DEF Promise!Mark, cal, had
<1>8. CASE ~EditsDays(edit)
  <2>1. cal' = [cal EXCEPT ![c] = [name |-> row.name, color |-> row.color,
                                   version |-> cal[c].version + 1, days |-> cal[c].days]]
    BY <1>1, <1>5, <1>8, RowSeen
  <2>2. row.name \in Names /\ row.color \in Colors
    BY <1>1 DEF Row
  <2>3. had' = had
    <3>1. had[c] \cup {row.days} = had[c]
      BY <1>1, <1>6, <1>8
    <3> QED BY <1>5, <3>1 DEF had
  <2>4. cal[c] # Absent
    BY <1>1, RowSeen
  <2> QED BY <2>1, <2>2, <2>3, <2>4 DEF Promise!Rename, cal, had
<1> QED BY <1>7, <1>8

LEMMA PromiseStep ==
    ASSUME IInv, PutOnce', [Next]_vars
    PROVE  [Promise!Next]_(Promise!vars)
<1>1. ASSUME UNCHANGED <<table, stored>> PROVE UNCHANGED Promise!vars
  <2>1. cal' = cal /\ had' = had
    BY <1>1 DEF cal, had, Visible
  <2> QED BY <2>1 DEF Promise!vars, cal, had
<1>2. CASE UNCHANGED vars
  BY <1>1, <1>2 DEF vars
<1>3. ASSUME NEW c \in Cals, Replicate(c) PROVE UNCHANGED Promise!vars
  BY <1>1, <1>3 DEF Replicate
<1>4. ASSUME NEW i \in Invs, InvStep(i) PROVE [Promise!Next]_(Promise!vars)
  <2>1. CASE Reads(i)
    BY <1>1, <2>1, ReadsEffect
  <2>2. CASE PutItem(i)
    BY <2>2, PutItemMaps DEF Promise!Next
  <2>3. CASE DeleteItem(i)
    BY <2>3, DeleteItemMaps DEF Promise!Next
  <2>4. CASE \E c \in Cals : UpdateItem(i, c)
    BY <2>4, UpdateItemMaps DEF Promise!Next
  <2> QED BY <1>4, <2>1, <2>2, <2>3, <2>4, InvStepCases
<1> QED BY <1>2, <1>3, <1>4, NextSteps

\* The requests, call by call and interleaved, look like the atomic operations
\* of VersionedCalendars (ImplementsPromise) as long as no calendar is stored
\* twice.  Repeated UpdateItems and DeleteItems, crashes, errors and stale
\* reads do no harm to it.
THEOREM PromiseWhilePutOnce == Spec /\ []PutOnce => ImplementsPromise
<1>1. Init => Promise!Init
  BY DEF Init, Promise!Init, NoRows, Visible
<1>2. IInv /\ PutOnce' /\ [Next]_vars => [Promise!Next]_(Promise!vars)
  BY PromiseStep
<1> QED BY <1>1, <1>2, Inductive, PTL DEF Spec, ImplementsPromise, Promise!Spec

\* From one version of a calendar one update at most takes effect in all its
\* life (OneWinnerPerVersionEver), as long as it is stored once: the repeated
\* PutItem is the only way the code has to break it.
THEOREM OneWinnerEverWhilePutOnce == Spec /\ []PutOnce => []OneWinnerPerVersionEver
<1>1. ASSUME IInv, PutOnce PROVE OneWinnerPerVersionEver
  <2>1. \A e \in log : e.prev.inc = 1
    <3> SUFFICES ASSUME NEW e \in log PROVE e.prev.inc = 1
      OBVIOUS
    <3>1. e.cal \in Cals /\ e.prev \in Row /\ e.prev \in stored[e.cal]
      BY <1>1 DEF IInv, TypeOK, Entry, DataInv, LogLinks
    <3>2. 1 <= e.prev.inc /\ e.prev.inc <= puts[e.cal] /\ puts[e.cal] <= 1
      BY <1>1, <3>1 DEF IInv, DataInv, TableIsNewest, PutOnce
    <3>3. e.prev.inc \in Nat /\ puts[e.cal] \in Nat
      BY <1>1, <3>1 DEF IInv, TypeOK, Row
    <3> QED BY <3>2, <3>3
  <2> QED BY <1>1, <2>1 DEF IInv, DataInv, OneWinnerPerVersion, OneWinnerPerVersionEver
<1> QED BY <1>1, Inductive, PTL

\* No call being repeated at all, no calendar is stored twice.
LEMMA NoRepeatPutsOnce ==
    ASSUME MaxAttempts = 1
    PROVE  Spec => []PutOnce
<1>1. Init => Creating /\ PutOnce
  BY DEF Init, Creating, Blank, PutOnce
<1>2. IInv /\ Creating /\ [Next]_vars => Creating'
  <2> SUFFICES ASSUME IInv, Creating, [Next]_vars PROVE Creating'
    OBVIOUS
  <2>1. ASSUME UNCHANGED <<inv, puts>> PROVE Creating'
    BY <2>1 DEF Creating
  <2>2. ASSUME NEW c \in Cals, Replicate(c) PROVE Creating'
    BY <2>1, <2>2 DEF Replicate
  <2>3. CASE UNCHANGED vars
    BY <2>1, <2>3 DEF vars
  <2> QED BY <2>2, <2>3, CreatingStep, NextSteps
<1>3. IInv /\ Creating /\ PutOnce /\ [Next]_vars => PutOnce'
  <2> SUFFICES ASSUME IInv, Creating, PutOnce, [Next]_vars PROVE PutOnce'
    OBVIOUS
  <2>1. ASSUME UNCHANGED puts PROVE PutOnce'
    BY <2>1 DEF PutOnce
  <2>2. ASSUME NEW c \in Cals, Replicate(c) PROVE PutOnce'
    BY <2>1, <2>2 DEF Replicate
  <2>3. CASE UNCHANGED vars
    BY <2>1, <2>3 DEF vars
  <2>4. ASSUME NEW i \in Invs, PutItem(i) PROVE PutOnce'
    <3>1. PICK c \in inv[i].todo : puts' = [puts EXCEPT ![c] = @ + 1]
      BY <2>4 DEF PutItem
    <3>2. puts[c] = 0
      BY <2>4, <3>1 DEF Creating, PutItem
    <3> QED BY <3>1, <3>2 DEF PutOnce, IInv, TypeOK
  <2>5. ASSUME NEW i \in Invs, InvStep(i), ~PutItem(i) PROVE PutOnce'
    BY <2>1, <2>5, ReadsEffect, InvStepCases DEF UpdateItem, DeleteItem
  <2> QED BY <2>2, <2>3, <2>4, <2>5, NextSteps
<1> QED BY <1>1, <1>2, <1>3, Inductive, PTL DEF Spec

\* In particular the handlers implement VersionedCalendars (ImplementsPromise)
\* when the SDK repeats no call.
THEOREM PromiseImplemented ==
    ASSUME MaxAttempts = 1
    PROVE  Spec => ImplementsPromise
BY PromiseWhilePutOnce, NoRepeatPutsOnce, PTL
=============================================================================
