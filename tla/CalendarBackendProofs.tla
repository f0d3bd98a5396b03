----------------------- MODULE CalendarBackendProofs -----------------------
(***************************************************************************)
(* Theorems about CalendarBackend, for every set of calendars, days and    *)
(* invocations and every bound.                                            *)
(***************************************************************************)
EXTENDS CalendarBackend, FiniteSetTheorems, TLAPS

-----------------------------------------------------------------------------
(* Requests. *)

\* The kind of a request says what it holds.
LEMMA RequestShapes ==
    ASSUME NEW req \in Requests
    PROVE  /\ req.op \in {"create", "get", "update", "delete", "list"}
           /\ req.op = "create" => req.name \in Names /\ req.color \in Colors
           /\ req.op = "get"    => req.ids \subseteq Cals
           /\ req.op = "delete" => req.id \in Cals
           /\ req.op = "update" => /\ req \in UpdateRequests
                                   /\ DOMAIN req.actions \subseteq Cals
                                   /\ \A c \in DOMAIN req.actions : req.actions[c] \in Actions
BY DEF Requests, CreateRequests, GetRequests, UpdateRequests, DeleteRequests, ListRequests

\* An edit of known kind carries the field its kind reads.
LEMMA EditShapes ==
    ASSUME NEW edit \in Edits
    PROVE  /\ EditsDays(edit) => edit.day \in Days
           /\ \A n \in Names : NewName(edit, n) \in Names
           /\ \A k \in Colors : NewColor(edit, k) \in Colors
           /\ \A days \in SUBSET Days : NewDays(edit, days) \in SUBSET Days
<1>1. EditsDays(edit) => edit.day \in Days
  BY DEF Edits, EditsDays
<1>2. \A n \in Names : NewName(edit, n) \in Names
  BY DEF Edits, NewName
<1>3. \A k \in Colors : NewColor(edit, k) \in Colors
  BY DEF Edits, NewColor
<1>4. \A days \in SUBSET Days : NewDays(edit, days) \in SUBSET Days
  BY <1>1 DEF NewDays, EditsDays, addHighlightedDay, removeHighlightedDay
<1> QED BY <1>1, <1>2, <1>3, <1>4

\* An accepted update leaves a row, one version on, of the same PutItem.
LEMMA UpdatedRow ==
    ASSUME NEW row \in Row, NEW copy \in Row, NEW action \in Actions,
           action.existingVersion < MaxVersion
    PROVE  /\ Updated(row, copy, action) \in Row
           /\ Updated(row, copy, action).version = action.existingVersion + 1
           /\ Updated(row, copy, action).inc = row.inc
           /\ Updated(row, copy, action).days =
                 IF EditsDays(action.edit) THEN NewDays(action.edit, copy.days) ELSE row.days
           /\ Updated(row, copy, action).name = NewName(action.edit, row.name)
           /\ Updated(row, copy, action).color = NewColor(action.edit, row.color)
<1>1. action.edit \in Edits /\ action.existingVersion \in Versions
  BY DEF Actions
<1>2. action.existingVersion + 1 \in Versions
  BY <1>1, BackendAssumption DEF Versions
<1>3. /\ NewName(action.edit, row.name) \in Names
      /\ NewColor(action.edit, row.color) \in Colors
      /\ NewDays(action.edit, copy.days) \in SUBSET Days
  BY <1>1, EditShapes DEF Row
<1> QED BY <1>2, <1>3 DEF Row, Updated

-----------------------------------------------------------------------------
(* Types. *)

LEMMA AbsentIsNoRow == Absent \notin Row
BY AbsentAssumption

\* The record every invocation starts from and ends in.
LEMMA BlankType ==
    ASSUME NEW req \in Requests \cup {NoRequest}
    PROVE  Blank(req) \in Invocation
BY DEF Blank, Invocation, NoRows, OptRow, Phases

\* Ending an invocation keeps its type.
LEMMA EndType ==
    ASSUME NEW r \in Invocation, NEW rows \in [Cals -> OptRow]
    PROVE  /\ [r EXCEPT !.pc = "done", !.outcome = "ok", !.out = rows] \in Invocation
           /\ [r EXCEPT !.pc = "done", !.outcome = "error"] \in Invocation
           /\ [r EXCEPT !.pc = "done", !.outcome = "session"] \in Invocation
BY DEF Invocation, Phases

LEMMA AnswerType ==
    ASSUME TypeOK, NEW i \in Invs, NEW rows \in [Cals -> OptRow], Answer(i, rows)
    PROVE  inv' \in [Invs -> Invocation] /\ known' \in [Cals -> SUBSET Versions]
<1>1. inv[i].req \in Requests \cup {NoRequest}
  BY DEF TypeOK, Invocation
<1>2. [Blank(inv[i].req) EXCEPT !.pc = "done", !.outcome = "ok", !.out = rows] \in Invocation
  <2>1. Blank(inv[i].req) \in Invocation
    BY <1>1, BlankType
  <2> QED BY <2>1, EndType
<1>3. inv' \in [Invs -> Invocation]
  BY <1>2 DEF TypeOK, Answer
<1>4. known' \in [Cals -> SUBSET Versions]
  BY AbsentIsNoRow DEF TypeOK, Answer, OptRow, Row
<1> QED BY <1>3, <1>4

LEMMA FailType ==
    ASSUME TypeOK, NEW i \in Invs, Fail(i)
    PROVE  inv' \in [Invs -> Invocation] /\ known' \in [Cals -> SUBSET Versions]
<1>1. [Blank(NoRequest) EXCEPT !.pc = "done", !.outcome = "error"] \in Invocation
  <2>1. Blank(NoRequest) \in Invocation /\ NoRows \in [Cals -> OptRow]
    BY BlankType DEF NoRows, OptRow
  <2> QED BY <2>1, EndType
<1> QED BY <1>1 DEF TypeOK, Fail

LEMMA RepeatType ==
    ASSUME TypeOK, NEW i \in Invs, NEW busy \in SUBSET Cals, Repeat(i, busy)
    PROVE  inv' \in [Invs -> Invocation] /\ known' \in [Cals -> SUBSET Versions]
<1>1. inv[i] \in Invocation
  BY DEF TypeOK
<1>2. [inv[i] EXCEPT !.tries = inv[i].tries + 1, !.busy = busy] \in Invocation
  <2> DEFINE r == inv[i]
  <2>1. r \in Invocation
    BY <1>1
  <2> HIDE DEF r
  <2>2. r.tries + 1 \in Nat
    BY <2>1 DEF Invocation
  <2>3. [r EXCEPT !.tries = r.tries + 1, !.busy = busy] \in Invocation
    BY <2>1, <2>2 DEF Invocation
  <2> QED BY <2>3 DEF r
<1>3. inv' = [inv EXCEPT ![i] = [inv[i] EXCEPT !.tries = inv[i].tries + 1, !.busy = busy]]
  BY <1>1 DEF TypeOK, Repeat, Invocation
<1> QED BY <1>2, <1>3 DEF TypeOK, Repeat

LEMMA StoreType ==
    ASSUME TypeOK, NEW c \in Cals, NEW row \in Row, Store(c, row)
    PROVE  table' \in [Cals -> OptRow] /\ stored' \in [Cals -> SUBSET Row]
BY DEF TypeOK, Store, OptRow

LEMMA BeginType ==
    ASSUME TypeOK, NEW i \in Invs, NEW req \in Requests, Begin(i, req) \/ RejectSession(i, req)
    PROVE  TypeOK'
<1>1. CASE Begin(i, req)
  <2>1. PICK c \in Cals : inv' = [inv EXCEPT ![i] = [Blank(req) EXCEPT !.pc = NextPhase(req),
                                                                       !.todo = FirstIds(req, c)]]
    BY <1>1 DEF Begin
  <2>2. FirstIds(req, c) \in SUBSET Cals
    BY RequestShapes DEF FirstIds
  <2>3. NextPhase(req) \in Phases
    BY RequestShapes DEF NextPhase, Phases
  <2>4. [Blank(req) EXCEPT !.pc = NextPhase(req), !.todo = FirstIds(req, c)] \in Invocation
    <3>1. Blank(req) \in Invocation
      BY BlankType
    <3> QED BY <2>2, <2>3, <3>1 DEF Invocation
  <2> QED BY <1>1, <2>1, <2>4 DEF TypeOK, Begin
<1>2. CASE RejectSession(i, req)
  <2>1. [Blank(NoRequest) EXCEPT !.pc = "done", !.outcome = "session"] \in Invocation
    <3>1. Blank(NoRequest) \in Invocation /\ NoRows \in [Cals -> OptRow]
      BY BlankType DEF NoRows, OptRow
    <3> QED BY <3>1, EndType
  <2> QED BY <1>2, <2>1 DEF TypeOK, RejectSession
<1> QED BY <1>1, <1>2

LEMMA PutItemType ==
    ASSUME TypeOK, PhasesOK, NEW i \in Invs, PutItem(i)
    PROVE  TypeOK'
<1>1. PICK c \in inv[i].todo :
         /\ Store(c, NewCalendar(inv[i].req, puts[c] + 1))
         /\ puts' = [puts EXCEPT ![c] = @ + 1]
         /\ \/ Answer(i, [NoRows EXCEPT ![c] = NewCalendar(inv[i].req, puts[c] + 1)])
            \/ Repeat(i, {})
  BY DEF PutItem
<1>2. c \in Cals /\ inv[i].pc = "put"
  BY DEF TypeOK, Invocation, PutItem
<1>3. inv[i].req \in Requests /\ inv[i].req.op = "create"
  BY <1>2 DEF TypeOK, Invocation, PhasesOK, PhaseOK, NoRequest
<1>4. NewCalendar(inv[i].req, puts[c] + 1) \in Row
  BY <1>2, <1>3, RequestShapes, BackendAssumption DEF TypeOK, NewCalendar, Row, Versions
<1>5. [NoRows EXCEPT ![c] = NewCalendar(inv[i].req, puts[c] + 1)] \in [Cals -> OptRow]
  BY <1>2, <1>4 DEF NoRows, OptRow
<1>6. inv' \in [Invs -> Invocation] /\ known' \in [Cals -> SUBSET Versions]
  BY <1>1, <1>5, AnswerType, RepeatType DEF Answer
<1>7. table' \in [Cals -> OptRow] /\ stored' \in [Cals -> SUBSET Row]
  BY <1>1, <1>2, <1>4, StoreType
<1>8. puts' \in [Cals -> Nat]
  BY <1>1, <1>2 DEF TypeOK
<1>9. UNCHANGED <<lag, log>>
  BY DEF PutItem
<1> QED BY <1>6, <1>7, <1>8, <1>9 DEF TypeOK

LEMMA ReadingType ==
    ASSUME TypeOK, NEW i \in Invs,
           GetItem(i) \/ GetItemNotFound(i) \/ AnswerGet(i) \/ StartWriting(i)
    PROVE  TypeOK'
<1>0. inv[i] \in Invocation
  BY DEF TypeOK
<1>1. CASE GetItem(i)
  <2>1. PICK c \in inv[i].todo : \E copy \in Copies(c) \ {Absent} :
           inv' = [inv EXCEPT ![i].read[c] = copy, ![i].todo = @ \ {c}]
    BY <1>1 DEF GetItem
  <2>2. PICK copy \in Copies(c) \ {Absent} :
           inv' = [inv EXCEPT ![i].read[c] = copy, ![i].todo = @ \ {c}]
    BY <2>1
  <2>3. c \in Cals /\ copy \in OptRow
    BY <1>0, <2>2 DEF Copies, TypeOK, Invocation
  <2>4. /\ [inv[i].read EXCEPT ![c] = copy] \in [Cals -> OptRow]
        /\ inv[i].todo \ {c} \in SUBSET Cals
    BY <1>0, <2>3 DEF Invocation
  <2>5. inv' = [inv EXCEPT ![i] = [inv[i] EXCEPT !.read = [inv[i].read EXCEPT ![c] = copy],
                                                 !.todo = inv[i].todo \ {c}]]
    BY <1>0, <2>2 DEF Invocation, TypeOK
  <2>6. [inv[i] EXCEPT !.read = [inv[i].read EXCEPT ![c] = copy],
                       !.todo = inv[i].todo \ {c}] \in Invocation
    BY <1>0, <2>4 DEF Invocation
  <2> QED BY <1>1, <2>5, <2>6 DEF TypeOK, GetItem
<1>2. CASE GetItemNotFound(i)
  BY <1>2, FailType DEF TypeOK, GetItemNotFound
<1>3. CASE AnswerGet(i)
  <2>1. inv[i].read \in [Cals -> OptRow]
    BY <1>0 DEF Invocation
  <2> QED BY <1>3, <2>1, AnswerType DEF TypeOK, AnswerGet, Answer
<1>4. CASE StartWriting(i)
  <2>1. inv[i].req \in Requests
    BY <1>0, <1>4 DEF Invocation, StartWriting, NoRequest
  <2>2. DOMAIN inv[i].req.actions \in SUBSET Cals
    BY <1>4, <2>1, RequestShapes DEF StartWriting
  <2>3. [inv[i] EXCEPT !.pc = "write", !.todo = DOMAIN inv[i].req.actions] \in Invocation
    BY <1>0, <2>2 DEF Invocation, Phases
  <2>4. inv' = [inv EXCEPT ![i] = [inv[i] EXCEPT !.pc = "write", !.todo = DOMAIN inv[i].req.actions]]
    BY <1>4 DEF TypeOK, StartWriting
  <2> QED BY <1>4, <2>3, <2>4 DEF TypeOK, StartWriting
<1> QED BY <1>1, <1>2, <1>3, <1>4

\* The action an UpdateItem serves and the row it stores.
ActionOf(i, c) == inv[i].req.actions[c]

NewRow(i, c) == Updated(table[c], inv[i].read[c], ActionOf(i, c))

\* What an UpdateItem that is accepted works with, and what it leaves.
LEMMA UpdateItemFacts ==
    ASSUME TypeOK, PhasesOK, NEW i \in Invs, NEW c \in Cals, UpdateItem(i, c)
    PROVE  /\ inv[i] \in Invocation /\ inv[i].pc = "write"
           /\ inv[i].req.op = "update" /\ inv[i].req \in UpdateRequests
           /\ c \in inv[i].todo /\ c \in DOMAIN inv[i].req.actions
           /\ inv[i].todo \subseteq DOMAIN inv[i].req.actions
           /\ ActionOf(i, c) \in Actions /\ ActionOf(i, c).existingVersion < MaxVersion
           /\ ActionOf(i, c).existingVersion \in known[c]
           /\ table[c] \in Row /\ inv[i].read[c] \in Row
           /\ table[c].version = ActionOf(i, c).existingVersion
           /\ NewRow(i, c) \in Row
           /\ NewRow(i, c).version = table[c].version + 1 /\ NewRow(i, c).inc = table[c].inc
           /\ EditsDays(ActionOf(i, c).edit) => NewRow(i, c).days = NewDays(ActionOf(i, c).edit, inv[i].read[c].days)
           /\ ~EditsDays(ActionOf(i, c).edit) => NewRow(i, c).days = table[c].days
<1>1. inv[i] \in Invocation /\ inv[i].pc = "write" /\ c \in inv[i].todo
  BY DEF TypeOK, UpdateItem, AtAction
<1>2. inv[i].req.op = "update" /\ Loops(i)
  BY <1>1 DEF PhasesOK, PhaseOK, Loops
<1>3. /\ inv[i].req \in UpdateRequests /\ inv[i].todo \subseteq DOMAIN inv[i].req.actions
      /\ c \in DOMAIN inv[i].req.actions
      /\ ActionOf(i, c).existingVersion < MaxVersion /\ ActionOf(i, c).existingVersion \in known[c]
      /\ inv[i].read[c] # Absent
  BY <1>1, <1>2 DEF PhasesOK, PhaseOK, ActionOf
<1>4. ActionOf(i, c) \in Actions
  BY <1>3 DEF UpdateRequests, ActionOf
<1>5. table[c] \in Row /\ table[c].version = ActionOf(i, c).existingVersion
  BY DEF UpdateItem, VersionMatches, TypeOK, OptRow, ActionOf
<1>6. inv[i].read[c] \in Row
  BY <1>1, <1>3 DEF Invocation, OptRow
<1>7. /\ NewRow(i, c) \in Row
      /\ NewRow(i, c).version = table[c].version + 1 /\ NewRow(i, c).inc = table[c].inc
      /\ EditsDays(ActionOf(i, c).edit) =>
            NewRow(i, c).days = NewDays(ActionOf(i, c).edit, inv[i].read[c].days)
      /\ ~EditsDays(ActionOf(i, c).edit) => NewRow(i, c).days = table[c].days
  <2> DEFINE row == table[c]
             copy == inv[i].read[c]
             action == ActionOf(i, c)
  <2>1. row \in Row /\ copy \in Row /\ action \in Actions /\ action.existingVersion < MaxVersion
    BY <1>3, <1>4, <1>5, <1>6
  <2>2. row.version = action.existingVersion
    BY <1>5
  <2>3. NewRow(i, c) = Updated(row, copy, action)
    BY DEF NewRow
  <2> HIDE DEF row, copy, action
  <2>4. /\ Updated(row, copy, action) \in Row
        /\ Updated(row, copy, action).version = action.existingVersion + 1
        /\ Updated(row, copy, action).inc = row.inc
        /\ Updated(row, copy, action).days =
              IF EditsDays(action.edit) THEN NewDays(action.edit, copy.days) ELSE row.days
    BY <2>1, UpdatedRow
  <2>5. /\ NewRow(i, c) \in Row
        /\ NewRow(i, c).version = row.version + 1 /\ NewRow(i, c).inc = row.inc
        /\ EditsDays(action.edit) => NewRow(i, c).days = NewDays(action.edit, copy.days)
        /\ ~EditsDays(action.edit) => NewRow(i, c).days = row.days
    BY <2>2, <2>3, <2>4
  <2> QED BY <2>5 DEF row, copy, action
<1> QED BY <1>1, <1>2, <1>3, <1>4, <1>5, <1>6, <1>7

\* The two ways an accepted UpdateItem goes on.
LEMMA UpdateItemInv ==
    ASSUME TypeOK, PhasesOK, NEW i \in Invs, NEW c \in Cals, UpdateItem(i, c)
    PROVE  /\ known' = known
           /\ \/ inv' = [inv EXCEPT ![i] = [inv[i] EXCEPT
                           !.out = [inv[i].out EXCEPT ![c] = NewRow(i, c)],
                           !.todo = inv[i].todo \ {c}, !.tries = 0, !.busy = {}]]
              \/ inv' = [inv EXCEPT ![i] = [inv[i] EXCEPT !.tries = inv[i].tries + 1, !.busy = {c}]]
<1>1. inv \in [Invs -> Invocation] /\ inv[i] \in Invocation
  BY DEF TypeOK
<1> QED BY <1>1 DEF UpdateItem, Repeat, Invocation, NewRow, ActionOf

LEMMA UpdateItemEffect ==
    ASSUME TypeOK, PhasesOK, NEW i \in Invs, NEW c \in Cals, UpdateItem(i, c)
    PROVE  /\ inv'[i].pc = inv[i].pc /\ inv'[i].req = inv[i].req
           /\ inv'[i].read = inv[i].read /\ inv'[i].outcome = inv[i].outcome
           /\ \/ /\ inv'[i].out = [inv[i].out EXCEPT ![c] = NewRow(i, c)]
                 /\ inv'[i].todo = inv[i].todo \ {c}
              \/ inv'[i].out = inv[i].out /\ inv'[i].todo = inv[i].todo
<1> DEFINE r == inv[i]
           out == [inv[i].out EXCEPT ![c] = NewRow(i, c)]
           todo == inv[i].todo \ {c}
           n == inv[i].tries + 1
<1>1. \/ inv'[i] = [r EXCEPT !.out = out, !.todo = todo, !.tries = 0, !.busy = {}]
      \/ inv'[i] = [r EXCEPT !.tries = n, !.busy = {c}]
  <2> HIDE DEF r, out, todo, n
  <2>1. \/ inv' = [inv EXCEPT ![i] = [r EXCEPT !.out = out, !.todo = todo, !.tries = 0, !.busy = {}]]
        \/ inv' = [inv EXCEPT ![i] = [r EXCEPT !.tries = n, !.busy = {c}]]
    BY UpdateItemInv DEF r, out, todo, n
  <2>2. DOMAIN inv = Invs
    BY DEF TypeOK
  <2> QED BY <2>1, <2>2
<1>2. r \in Invocation
  BY DEF TypeOK
<1> HIDE DEF r, out, todo, n
<1>3. /\ inv'[i].pc = r.pc /\ inv'[i].req = r.req
      /\ inv'[i].read = r.read /\ inv'[i].outcome = r.outcome
      /\ \/ inv'[i].out = out /\ inv'[i].todo = todo
         \/ inv'[i].out = r.out /\ inv'[i].todo = r.todo
  BY <1>1, <1>2 DEF Invocation
<1> QED BY <1>3 DEF r, out, todo

LEMMA UpdateItemType ==
    ASSUME TypeOK, PhasesOK, NEW i \in Invs, NEW c \in Cals, UpdateItem(i, c)
    PROVE  TypeOK'
<1> DEFINE action == ActionOf(i, c)
           row == NewRow(i, c)
<1>1. /\ inv[i] \in Invocation /\ action \in Actions /\ row \in Row
      /\ table[c] \in Row /\ inv[i].read[c] \in Row
  BY UpdateItemFacts
<1>2. Store(c, row) /\ UNCHANGED <<lag, puts>>
      /\ log' = log \cup {[cal |-> c, edit |-> action.edit, from |-> action.existingVersion,
                           prev |-> table[c], copy |-> inv[i].read[c], row |-> row]}
  BY DEF UpdateItem, ActionOf, NewRow
<1>3. table' \in [Cals -> OptRow] /\ stored' \in [Cals -> SUBSET Row]
  BY <1>1, <1>2, StoreType
<1>4. log' \subseteq Entry
  <2>1. action.edit \in Edits /\ action.existingVersion \in Versions
    BY <1>1 DEF Actions
  <2> HIDE DEF action, row
  <2> QED BY <1>1, <1>2, <2>1 DEF TypeOK, Entry
<1>5. known' = known /\ inv' \in [Invs -> Invocation]
  <2>1. [inv[i].out EXCEPT ![c] = row] \in [Cals -> OptRow]
    BY <1>1 DEF Invocation, OptRow
  <2>2. inv[i].todo \ {c} \in SUBSET Cals /\ inv[i].tries + 1 \in Nat
    BY <1>1 DEF Invocation
  <2>3. /\ [inv[i] EXCEPT !.out = [inv[i].out EXCEPT ![c] = row],
                          !.todo = inv[i].todo \ {c}, !.tries = 0, !.busy = {}] \in Invocation
        /\ [inv[i] EXCEPT !.tries = inv[i].tries + 1, !.busy = {c}] \in Invocation
    <3> DEFINE r == inv[i]
               out == [inv[i].out EXCEPT ![c] = row]
               todo == inv[i].todo \ {c}
               n == inv[i].tries + 1
    <3>1. r \in Invocation /\ out \in [Cals -> OptRow] /\ todo \in SUBSET Cals /\ n \in Nat
      BY <1>1, <2>1, <2>2
    <3> HIDE DEF r, out, todo, n
    <3>2. /\ [r EXCEPT !.out = out, !.todo = todo, !.tries = 0, !.busy = {}] \in Invocation
          /\ [r EXCEPT !.tries = n, !.busy = {c}] \in Invocation
      BY <3>1 DEF Invocation
    <3> QED BY <3>2 DEF r, out, todo, n
  <2>4. \E r \in Invocation : inv' = [inv EXCEPT ![i] = r]
    BY <2>3, UpdateItemInv
  <2>5. inv \in [Invs -> Invocation] /\ known' = known
    BY UpdateItemInv DEF TypeOK
  <2> QED BY <2>4, <2>5
<1> QED BY <1>2, <1>3, <1>4, <1>5 DEF TypeOK

LEMMA EndingType ==
    ASSUME TypeOK, NEW i \in Invs,
           \/ AnswerUpdate(i) \/ DeleteItem(i) \/ Query(i) \/ ServiceError(i) \/ Crash(i)
           \/ \E c \in Cals : UpdateItemRefused(i, c) \/ UnknownActionType(i, c)
    PROVE  TypeOK'
<1>0. inv[i] \in Invocation /\ NoRows \in [Cals -> OptRow]
  BY DEF TypeOK, NoRows, OptRow
<1>1. CASE AnswerUpdate(i)
  <2>1. inv[i].out \in [Cals -> OptRow]
    BY <1>0 DEF Invocation
  <2> QED BY <1>1, <2>1, AnswerType DEF TypeOK, AnswerUpdate, Answer
<1>2. CASE DeleteItem(i)
  <2>1. PICK c \in inv[i].todo : table' = [table EXCEPT ![c] = Absent]
    BY <1>2 DEF DeleteItem
  <2>2. table' \in [Cals -> OptRow]
    BY <2>1 DEF TypeOK, OptRow
  <2>3. inv' \in [Invs -> Invocation] /\ known' \in [Cals -> SUBSET Versions]
    BY <1>0, <1>2, AnswerType, RepeatType DEF DeleteItem, Answer
  <2> QED BY <1>2, <2>2, <2>3 DEF TypeOK, DeleteItem
<1>3. CASE Query(i)
  <2>1. PICK size \in 1 .. PageLimit(inv[i].req) :
           Answer(i, [c \in Cals |-> IF c \in Page(size) THEN table[c] ELSE Absent])
    BY <1>3 DEF Query
  <2> DEFINE rows == [c \in Cals |-> IF c \in Page(size) THEN table[c] ELSE Absent]
  <2>2. rows \in [Cals -> OptRow]
    BY DEF TypeOK, OptRow
  <2>3. Answer(i, rows)
    BY <2>1
  <2> HIDE DEF rows
  <2>4. inv' \in [Invs -> Invocation] /\ known' \in [Cals -> SUBSET Versions]
    BY <2>2, <2>3, AnswerType
  <2>5. UNCHANGED <<table, lag, puts, stored, log>>
    BY <1>3 DEF Query
  <2> QED BY <2>4, <2>5 DEF TypeOK
<1>4. CASE ServiceError(i)
  BY <1>4, FailType DEF TypeOK, ServiceError
<1>5. CASE Crash(i)
  BY <1>5, BlankType DEF TypeOK, Crash
<1>6. CASE \E c \in Cals : UpdateItemRefused(i, c) \/ UnknownActionType(i, c)
  BY <1>6, FailType DEF TypeOK, UpdateItemRefused, UnknownActionType
<1> QED BY <1>1, <1>2, <1>3, <1>4, <1>5, <1>6

LEMMA ReplicateType ==
    ASSUME TypeOK, NEW c \in Cals, Replicate(c)
    PROVE  TypeOK'
BY DEF TypeOK, Replicate

LEMMA TypeInit == Init => TypeOK /\ PhasesOK
<1>1. SUFFICES ASSUME Init PROVE TypeOK /\ PhasesOK
  OBVIOUS
<1>2. TypeOK
  BY <1>1, BlankType DEF Init, TypeOK, NoRows, OptRow
<1>3. PhasesOK
  BY <1>1 DEF Init, PhasesOK, PhaseOK, Loops, Blank
<1> QED BY <1>2, <1>3

-----------------------------------------------------------------------------
(* Steps, sorted by what they do to the invocation that takes them. *)

\* Every step of an invocation is one of these.
InvStep(i) ==
    \/ \E req \in Requests : Begin(i, req) \/ RejectSession(i, req)
    \/ PutItem(i)
    \/ GetItem(i) \/ GetItemNotFound(i) \/ AnswerGet(i) \/ StartWriting(i)
    \/ \E c \in Cals : UpdateItem(i, c)
    \/ AnswerUpdate(i) \/ DeleteItem(i) \/ Query(i) \/ ServiceError(i) \/ Crash(i)
    \/ \E c \in Cals : UpdateItemRefused(i, c) \/ UnknownActionType(i, c)

LEMMA NextSteps ==
    ASSUME Next
    PROVE  (\E i \in Invs : InvStep(i)) \/ (\E c \in Cals : Replicate(c))
BY TrafficAssumption DEF Next, Handler, InvStep

LEMMA TypeStep ==
    ASSUME TypeOK, PhasesOK, Next
    PROVE  TypeOK'
<1>1. ASSUME NEW i \in Invs, InvStep(i) PROVE TypeOK'
  BY <1>1, BeginType, PutItemType, ReadingType, UpdateItemType, EndingType DEF InvStep
<1>2. ASSUME NEW c \in Cals, Replicate(c) PROVE TypeOK'
  BY <1>2, ReplicateType
<1> QED BY <1>1, <1>2, NextSteps

-----------------------------------------------------------------------------
(* What a step leaves alone. *)

Ended(i) == inv'[i].pc \in {"idle", "done"}

LEMMA AnswerEffect ==
    ASSUME TypeOK, NEW i \in Invs, NEW rows \in [Cals -> OptRow], Answer(i, rows)
    PROVE  /\ \A j \in Invs \ {i} : inv'[j] = inv[j]
           /\ Ended(i) /\ inv'[i].read = NoRows /\ inv'[i].out = rows
           /\ inv'[i].req = inv[i].req /\ inv'[i].outcome = "ok" /\ inv'[i].pc = "done"
           /\ \A c \in Cals : known[c] \subseteq known'[c]
           /\ \A c \in Cals : known'[c] \subseteq known[c] \cup
                  {v \in Versions : rows[c] # Absent /\ v = rows[c].version}
<1>1. \A c \in Cals : rows[c] # Absent => rows[c].version \in Versions
  BY DEF OptRow, Row
<1> QED BY <1>1 DEF TypeOK, Answer, Ended, Blank

LEMMA FailEffect ==
    ASSUME TypeOK, NEW i \in Invs, Fail(i)
    PROVE  /\ \A j \in Invs \ {i} : inv'[j] = inv[j]
           /\ Ended(i) /\ inv'[i].read = NoRows /\ inv'[i].out = NoRows
           /\ inv'[i].outcome # "ok" /\ known' = known
BY DEF TypeOK, Fail, Ended, Blank

LEMMA RepeatEffect ==
    ASSUME TypeOK, NEW i \in Invs, NEW busy \in SUBSET Cals, Repeat(i, busy)
    PROVE  /\ \A j \in Invs \ {i} : inv'[j] = inv[j]
           /\ inv'[i].pc = inv[i].pc /\ inv'[i].req = inv[i].req /\ inv'[i].todo = inv[i].todo
           /\ inv'[i].read = inv[i].read /\ inv'[i].out = inv[i].out
           /\ inv'[i].outcome = inv[i].outcome /\ known' = known
BY DEF TypeOK, Repeat, Invocation

LEMMA StoreEffect ==
    ASSUME TypeOK, NEW c \in Cals, NEW row \in Row, Store(c, row)
    PROVE  /\ \A d \in Cals \ {c} : table'[d] = table[d] /\ stored'[d] = stored[d]
           /\ table'[c] = row /\ stored'[c] = stored[c] \cup {row}
BY DEF TypeOK, Store

\* How the invocation that takes a step stands after it, and what else changed.
LEMMA PutItemEffect ==
    ASSUME TypeOK, PhasesOK, NEW i \in Invs, PutItem(i)
    PROVE  \E c \in inv[i].todo : \E row \in Row :
              /\ c \in Cals /\ row = NewCalendar(inv[i].req, puts[c] + 1)
              /\ row.version = 0 /\ row.inc = puts[c] + 1 /\ row.days = {}
              /\ Store(c, row) /\ puts' = [puts EXCEPT ![c] = @ + 1]
              /\ UNCHANGED <<lag, log>>
              /\ \/ Answer(i, [NoRows EXCEPT ![c] = row])
                 \/ Repeat(i, {})
<1>1. PICK c \in inv[i].todo :
         /\ Store(c, NewCalendar(inv[i].req, puts[c] + 1))
         /\ puts' = [puts EXCEPT ![c] = @ + 1]
         /\ \/ Answer(i, [NoRows EXCEPT ![c] = NewCalendar(inv[i].req, puts[c] + 1)])
            \/ Repeat(i, {})
  BY DEF PutItem
<1>2. c \in Cals /\ inv[i].pc = "put"
  BY DEF TypeOK, Invocation, PutItem
<1>3. inv[i].req \in Requests /\ inv[i].req.op = "create"
  BY <1>2 DEF TypeOK, Invocation, PhasesOK, PhaseOK, NoRequest
<1>4. NewCalendar(inv[i].req, puts[c] + 1) \in Row
  BY <1>2, <1>3, RequestShapes, BackendAssumption DEF TypeOK, NewCalendar, Row, Versions
<1>5. /\ NewCalendar(inv[i].req, puts[c] + 1).version = 0
      /\ NewCalendar(inv[i].req, puts[c] + 1).inc = puts[c] + 1
      /\ NewCalendar(inv[i].req, puts[c] + 1).days = {}
  BY DEF NewCalendar
<1>6. UNCHANGED <<lag, log>>
  BY DEF PutItem
<1> QED BY <1>1, <1>2, <1>4, <1>5, <1>6 DEF Answer

\* Steps that leave the table and its history alone.
Reads(i) ==
    \/ \E req \in Requests : Begin(i, req) \/ RejectSession(i, req)
    \/ GetItem(i) \/ GetItemNotFound(i) \/ AnswerGet(i) \/ StartWriting(i)
    \/ AnswerUpdate(i) \/ Query(i) \/ ServiceError(i) \/ Crash(i)
    \/ \E c \in Cals : UpdateItemRefused(i, c) \/ UnknownActionType(i, c)

LEMMA ReadsEffect ==
    ASSUME NEW i \in Invs, Reads(i)
    PROVE  UNCHANGED <<table, lag, puts, stored, log>>
BY DEF Reads, Begin, RejectSession, GetItem, GetItemNotFound, AnswerGet, StartWriting,
       AnswerUpdate, Query, ServiceError, Crash, UpdateItemRefused, UnknownActionType

LEMMA InvStepCases ==
    ASSUME NEW i \in Invs, InvStep(i)
    PROVE  Reads(i) \/ PutItem(i) \/ DeleteItem(i) \/ \E c \in Cals : UpdateItem(i, c)
BY DEF InvStep, Reads

-----------------------------------------------------------------------------
(* The table and its history. *)

DataInv ==
    /\ TableIsNewest /\ VersionNamesRow
    /\ LogLinks /\ LogComplete /\ OneWinnerPerVersion

LEMMA DataUnchanged ==
    ASSUME DataInv, UNCHANGED <<table, puts, stored, log>>
    PROVE  DataInv'
BY DEF DataInv, TableIsNewest, VersionNamesRow, LogLinks, LogComplete, OneWinnerPerVersion,
       SameWrite

\* A deletion takes a row out of the table and forgets nothing.
LEMMA DataDelete ==
    ASSUME TypeOK, DataInv, NEW i \in Invs, DeleteItem(i)
    PROVE  DataInv'
<1>1. PICK c \in Cals : table' = [table EXCEPT ![c] = Absent]
  BY DEF DeleteItem, TypeOK, Invocation
<1>2. UNCHANGED <<puts, stored, log>>
  BY DEF DeleteItem
<1>3. TableIsNewest'
  BY <1>1, <1>2 DEF TypeOK, DataInv, TableIsNewest
<1> QED BY <1>2, <1>3 DEF DataInv, VersionNamesRow, LogLinks, LogComplete, OneWinnerPerVersion,
                          SameWrite

\* A PutItem starts a new series of versions, above everything stored before.
LEMMA DataPut ==
    ASSUME TypeOK, PhasesOK, DataInv, NEW i \in Invs, PutItem(i)
    PROVE  DataInv'
<1>1. PICK c \in inv[i].todo, row \in Row :
         /\ c \in Cals /\ row.version = 0 /\ row.inc = puts[c] + 1
         /\ Store(c, row) /\ puts' = [puts EXCEPT ![c] = @ + 1] /\ log' = log
  BY PutItemEffect
<1>2. /\ \A d \in Cals \ {c} : table'[d] = table[d] /\ stored'[d] = stored[d] /\ puts'[d] = puts[d]
      /\ table'[c] = row /\ stored'[c] = stored[c] \cup {row} /\ puts'[c] = puts[c] + 1
      /\ puts \in [Cals -> Nat]
  BY <1>1, StoreEffect DEF TypeOK
<1>3. \A d \in Cals : stored[d] \subseteq stored'[d] /\ stored[d] \subseteq Row
  BY <1>2 DEF TypeOK
<1>4. \A r \in stored[c] : r.inc \in Nat /\ 1 <= r.inc /\ r.inc <= puts[c] /\ r.version \in Nat
  BY <1>1, <1>3, BackendAssumption DEF DataInv, TableIsNewest, Row, Versions
<1>5. TableIsNewest'
  <2>1. ASSUME NEW d \in Cals
        PROVE  /\ \A r \in stored'[d] : 1 <= r.inc /\ r.inc <= puts'[d]
               /\ table'[d] # Absent =>
                     /\ table'[d].inc = puts'[d]
                     /\ \A r \in stored'[d] : r.inc = puts'[d] => r.version <= table'[d].version
    <3>1. CASE d = c
      BY <1>1, <1>2, <1>4, <3>1
    <3>2. CASE d # c
      BY <1>2, <3>2 DEF DataInv, TableIsNewest
    <3> QED BY <3>1, <3>2
  <2> QED BY <2>1 DEF TableIsNewest
<1>6. VersionNamesRow'
  <2>1. ASSUME NEW d \in Cals, NEW r \in stored'[d], NEW q \in stored'[d],
               r.inc = q.inc, r.version = q.version
        PROVE  r = q
    <3>1. CASE d = c
      BY <1>1, <1>2, <1>4, <2>1, <3>1 DEF DataInv, VersionNamesRow, SameWrite
    <3>2. CASE d # c
      BY <1>2, <2>1, <3>2 DEF DataInv, VersionNamesRow, SameWrite
    <3> QED BY <3>1, <3>2
  <2> QED BY <2>1 DEF VersionNamesRow, SameWrite
<1>7. LogLinks'
  BY <1>1, <1>3 DEF TypeOK, Entry, DataInv, LogLinks
<1>8. LogComplete'
  <2>1. ASSUME NEW d \in Cals, NEW r \in stored'[d], NEW v \in Versions, v < r.version
        PROVE  \E e \in log : e.cal = d /\ e.from = v
    <3>1. CASE r \in stored[d]
      BY <2>1, <3>1 DEF DataInv, LogComplete
    <3>2. CASE r \notin stored[d]
      BY <1>1, <1>2, <2>1, <3>2, BackendAssumption DEF Versions
    <3> QED BY <3>1, <3>2
  <2> QED BY <1>1, <2>1 DEF LogComplete
<1>9. OneWinnerPerVersion'
  BY <1>1 DEF DataInv, OneWinnerPerVersion
<1> QED BY <1>5, <1>6, <1>7, <1>8, <1>9 DEF DataInv

\* An accepted update leaves the one row that follows the newest.
LEMMA DataUpdate ==
    ASSUME TypeOK, PhasesOK, NoTornRows, DataInv, NEW i \in Invs, NEW c \in Cals, UpdateItem(i, c)
    PROVE  DataInv'
<1> DEFINE prev == table[c]
           copy == inv[i].read[c]
           row  == NewRow(i, c)
           edit == ActionOf(i, c).edit
           from == ActionOf(i, c).existingVersion
           new  == [cal |-> c, edit |-> edit, from |-> from, prev |-> prev, copy |-> copy, row |-> row]
<1>1. /\ prev \in Row /\ copy \in Row /\ row \in Row
      /\ prev.version = from /\ row.version = from + 1 /\ row.inc = prev.inc
      /\ EditsDays(edit) => row.days = NewDays(edit, copy.days)
      /\ ~EditsDays(edit) => row.days = prev.days
  BY UpdateItemFacts
<1>2. /\ Store(c, row) /\ puts' = puts /\ log' = log \cup {new}
  BY DEF UpdateItem, NewRow, ActionOf
<1>3. prev \in stored[c] /\ copy \in stored[c]
  BY <1>1, AbsentIsNoRow DEF NoTornRows
<1> HIDE DEF prev, row, copy, edit, from
<1>4. /\ \A d \in Cals \ {c} : table'[d] = table[d] /\ stored'[d] = stored[d]
      /\ table'[c] = row /\ stored'[c] = stored[c] \cup {row}
  BY <1>1, <1>2, StoreEffect
<1>5. \A d \in Cals : stored[d] \subseteq stored'[d] /\ stored[d] \subseteq Row
  BY <1>4 DEF TypeOK
<1>6. \A r \in stored[c] : r.inc \in Nat /\ 1 <= r.inc /\ r.inc <= puts[c] /\ r.version \in Nat
  BY <1>5, BackendAssumption DEF DataInv, TableIsNewest, Row, Versions
<1>7. /\ prev.inc = puts[c]
      /\ \A r \in stored[c] : r.inc = puts[c] => r.version <= from
  BY <1>1, AbsentIsNoRow DEF prev, DataInv, TableIsNewest
<1>8. from \in Nat /\ puts \in [Cals -> Nat]
  BY <1>1, BackendAssumption DEF TypeOK, Row, Versions
<1>9. TableIsNewest'
  <2>1. ASSUME NEW d \in Cals
        PROVE  /\ \A r \in stored'[d] : 1 <= r.inc /\ r.inc <= puts'[d]
               /\ table'[d] # Absent =>
                     /\ table'[d].inc = puts'[d]
                     /\ \A r \in stored'[d] : r.inc = puts'[d] => r.version <= table'[d].version
    <3>1. CASE d = c
      BY <1>1, <1>2, <1>3, <1>4, <1>6, <1>7, <1>8, <3>1
    <3>2. CASE d # c
      BY <1>2, <1>4, <3>2 DEF DataInv, TableIsNewest
    <3> QED BY <3>1, <3>2
  <2> QED BY <2>1 DEF TableIsNewest
<1>10. VersionNamesRow'
  <2>1. ASSUME NEW d \in Cals, NEW r \in stored'[d], NEW q \in stored'[d],
               r.inc = q.inc, r.version = q.version
        PROVE  r = q
    <3>1. CASE d = c
      BY <1>1, <1>4, <1>6, <1>7, <1>8, <2>1, <3>1 DEF DataInv, VersionNamesRow, SameWrite
    <3>2. CASE d # c
      BY <1>4, <2>1, <3>2 DEF DataInv, VersionNamesRow, SameWrite
    <3> QED BY <3>1, <3>2
  <2> QED BY <2>1 DEF VersionNamesRow, SameWrite
<1>11. LogLinks'
  <2>1. ASSUME NEW e \in log
        PROVE  {e.prev, e.copy, e.row} \subseteq stored'[e.cal]
    BY <1>5 DEF TypeOK, Entry, DataInv, LogLinks
  <2>2. {prev, copy, row} \subseteq stored'[c]
    BY <1>3, <1>4
  <2> QED BY <1>1, <1>2, <2>1, <2>2 DEF DataInv, LogLinks
<1>12. LogComplete'
  <2>1. ASSUME NEW d \in Cals, NEW r \in stored'[d], NEW v \in Versions, v < r.version
        PROVE  \E e \in log' : e.cal = d /\ e.from = v
    <3>1. CASE r \in stored[d]
      BY <1>2, <2>1, <3>1 DEF DataInv, LogComplete
    <3>2. CASE r \notin stored[d] /\ v < from
      <4>1. d = c
        BY <1>4, <2>1, <3>2
      <4> QED BY <1>1, <1>2, <1>3, <3>2, <4>1 DEF DataInv, LogComplete
    <3>3. CASE r \notin stored[d] /\ ~(v < from)
      <4>1. d = c /\ r = row
        BY <1>4, <2>1, <3>3
      <4>2. v = from
        BY <1>1, <1>8, <2>1, <3>3, <4>1, BackendAssumption DEF Versions
      <4>3. new \in log' /\ new.cal = c /\ new.from = from
        BY <1>2
      <4> HIDE DEF new
      <4> QED BY <4>1, <4>2, <4>3
    <3> QED BY <3>1, <3>2, <3>3
  <2> QED BY <2>1 DEF LogComplete
<1>13. OneWinnerPerVersion'
  <2>1. ASSUME NEW e \in log PROVE ~(e.cal = c /\ e.from = from /\ e.prev.inc = prev.inc)
    <3>1. e.row \in stored[e.cal] /\ e.row.version = e.from + 1 /\ e.row.inc = e.prev.inc
      BY DEF DataInv, LogLinks
    <3> QED BY <1>7, <1>8, <3>1
  <2> QED BY <1>2, <2>1 DEF DataInv, OneWinnerPerVersion
<1> QED BY <1>9, <1>10, <1>11, <1>12, <1>13 DEF DataInv

-----------------------------------------------------------------------------
(* The invocations. *)

\* The response rows of a successful end.
LEMMA QueryAnswers ==
    ASSUME TypeOK, NEW i \in Invs, Query(i)
    PROVE  \E rows \in [Cals -> OptRow] :
              /\ Answer(i, rows)
              /\ \A c \in Cals : rows[c] \in {table[c], Absent}
<1>1. PICK size \in 1 .. PageLimit(inv[i].req) :
         Answer(i, [c \in Cals |-> IF c \in Page(size) THEN table[c] ELSE Absent])
  BY DEF Query
<1> DEFINE rows == [c \in Cals |-> IF c \in Page(size) THEN table[c] ELSE Absent]
<1>2. rows \in [Cals -> OptRow] /\ \A c \in Cals : rows[c] \in {table[c], Absent}
  BY DEF TypeOK, OptRow
<1>3. Answer(i, rows)
  BY <1>1
<1> HIDE DEF rows
<1> QED BY <1>2, <1>3

\* A step of i touches no other invocation, and takes nothing back from what
\* clients know, what was stored and what is logged.
LEMMA Frame ==
    ASSUME TypeOK, PhasesOK, NEW i \in Invs, InvStep(i)
    PROVE  /\ \A j \in Invs \ {i} : inv'[j] = inv[j]
           /\ \A c \in Cals : known[c] \subseteq known'[c]
           /\ \A c \in Cals : stored[c] \subseteq stored'[c]
           /\ log \subseteq log'
<1>1. CASE PutItem(i)
  <2>1. PICK c \in inv[i].todo, row \in Row :
           /\ c \in Cals /\ Store(c, row) /\ log' = log
           /\ Answer(i, [NoRows EXCEPT ![c] = row]) \/ Repeat(i, {})
    BY <1>1, PutItemEffect
  <2>2. [NoRows EXCEPT ![c] = row] \in [Cals -> OptRow]
    BY DEF NoRows, OptRow
  <2>3. \A d \in Cals : stored[d] \subseteq stored'[d]
    BY <2>1, StoreEffect
  <2> QED BY <2>1, <2>2, <2>3, AnswerEffect, RepeatEffect
<1>2. CASE \E c \in Cals : UpdateItem(i, c)
  <2>1. PICK c \in Cals : UpdateItem(i, c)
    BY <1>2
  <2>2. Store(c, NewRow(i, c)) /\ log \subseteq log'
    BY <2>1 DEF UpdateItem, NewRow, ActionOf
  <2>3. \A d \in Cals : stored[d] \subseteq stored'[d]
    BY <2>1, <2>2, UpdateItemFacts, StoreEffect
  <2> QED BY <2>1, <2>2, <2>3, UpdateItemInv DEF TypeOK
<1>3. CASE DeleteItem(i)
  <2>1. NoRows \in [Cals -> OptRow] /\ UNCHANGED <<stored, log>>
    BY <1>3 DEF DeleteItem, NoRows, OptRow
  <2> QED BY <1>3, <2>1, AnswerEffect, RepeatEffect DEF DeleteItem, Answer
<1>4. CASE Reads(i)
  <2>0. UNCHANGED <<stored, log>>
    BY <1>4, ReadsEffect
  <2>1. CASE \E req \in Requests : Begin(i, req) \/ RejectSession(i, req)
    BY <2>0, <2>1 DEF TypeOK, Begin, RejectSession
  <2>2. CASE GetItem(i) \/ StartWriting(i) \/ Crash(i)
    BY <2>0, <2>2 DEF TypeOK, GetItem, StartWriting, Crash
  <2>3. CASE \/ GetItemNotFound(i) \/ ServiceError(i)
             \/ \E c \in Cals : UpdateItemRefused(i, c) \/ UnknownActionType(i, c)
    BY <2>0, <2>3, FailEffect
       DEF GetItemNotFound, ServiceError, UpdateItemRefused, UnknownActionType
  <2>4. CASE AnswerGet(i) \/ AnswerUpdate(i)
    <3>1. inv[i].read \in [Cals -> OptRow] /\ inv[i].out \in [Cals -> OptRow]
      BY DEF TypeOK, Invocation
    <3> QED BY <2>0, <2>4, <3>1, AnswerEffect DEF AnswerGet, AnswerUpdate, Answer
  <2>5. CASE Query(i)
    BY <2>0, <2>5, QueryAnswers, AnswerEffect
  <2> QED BY <1>4, <2>1, <2>2, <2>3, <2>4, <2>5 DEF Reads
<1> QED BY <1>1, <1>2, <1>3, <1>4, InvStepCases

\* An invocation that has ended, by an answer or not, is in no phase.
LEMMA EndedPhase ==
    ASSUME NEW i \in Invs, Ended(i)
    PROVE  PhaseOK(i)'
BY DEF Ended, PhaseOK, Loops

LEMMA PhasesStep ==
    ASSUME TypeOK, PhasesOK, NEW i \in Invs, InvStep(i)
    PROVE  PhasesOK'
<1>0. /\ \A j \in Invs \ {i} : inv'[j] = inv[j]
      /\ \A c \in Cals : known[c] \subseteq known'[c]
  BY Frame
<1>1. ASSUME NEW j \in Invs,
             /\ inv'[j].pc = inv[j].pc /\ inv'[j].req = inv[j].req
             /\ inv'[j].todo \subseteq inv[j].todo /\ inv'[j].read = inv[j].read
             /\ inv[j].pc = "read" => inv'[j].todo = inv[j].todo /\ inv'[j].out = inv[j].out
      PROVE  PhaseOK(j)'
  <2>1. inv[j].req \in UpdateRequests => DOMAIN inv[j].req.actions \subseteq Cals
    BY DEF UpdateRequests
  <2> QED BY <1>0, <1>1, <2>1 DEF PhasesOK, PhaseOK, Loops
<1>2. ASSUME NEW j \in Invs, j # i PROVE PhaseOK(j)'
  BY <1>0, <1>1, <1>2
<1>3. PhaseOK(i)'
  <2>1. CASE PutItem(i) \/ DeleteItem(i)
    <3>1. \/ \E rows \in [Cals -> OptRow] : Answer(i, rows)
          \/ Repeat(i, {})
      <4>1. CASE PutItem(i)
        <5>1. PICK c \in Cals, row \in Row :
                 Answer(i, [NoRows EXCEPT ![c] = row]) \/ Repeat(i, {})
          BY <4>1, PutItemEffect
        <5>2. [NoRows EXCEPT ![c] = row] \in [Cals -> OptRow]
          BY DEF NoRows, OptRow
        <5> QED BY <5>1, <5>2
      <4>2. CASE DeleteItem(i)
        <5>1. NoRows \in [Cals -> OptRow]
          BY DEF NoRows, OptRow
        <5> QED BY <4>2, <5>1 DEF DeleteItem, Answer
      <4> QED BY <2>1, <4>1, <4>2
    <3> QED BY <1>1, <3>1, AnswerEffect, RepeatEffect, EndedPhase
  <2>2. CASE \E c \in Cals : UpdateItem(i, c)
    <3>1. PICK c \in Cals : UpdateItem(i, c)
      BY <2>2
    <3>2. inv[i] \in Invocation /\ inv[i].pc = "write"
      BY <3>1, UpdateItemFacts
    <3>3. /\ inv'[i].pc = inv[i].pc /\ inv'[i].req = inv[i].req
          /\ inv'[i].todo \subseteq inv[i].todo /\ inv'[i].read = inv[i].read
      BY <3>1, UpdateItemEffect
    <3> QED BY <1>1, <3>2, <3>3
  <2>3. CASE \E req \in Requests : Begin(i, req) \/ RejectSession(i, req)
    <3>1. PICK req \in Requests : Begin(i, req) \/ RejectSession(i, req)
      BY <2>3
    <3>2. CASE RejectSession(i, req)
      <4>1. Ended(i)
        BY <3>2 DEF TypeOK, RejectSession, Ended, Blank
      <4> QED BY <4>1, EndedPhase
    <3>3. CASE Begin(i, req)
      <4>1. PICK c \in Cals : inv' = [inv EXCEPT ![i] = [Blank(req) EXCEPT
                 !.pc = NextPhase(req), !.todo = FirstIds(req, c)]]
        BY <3>3 DEF Begin
      <4>2. /\ inv'[i].pc = NextPhase(req) /\ inv'[i].req = req
            /\ inv'[i].todo = FirstIds(req, c) /\ known' = known
            /\ inv'[i].out = NoRows
        BY <3>3, <4>1 DEF TypeOK, Blank, Begin
      <4>3. CASE req.op = "update"
        <5>1. req \in UpdateRequests /\ DOMAIN req.actions \subseteq Cals
          BY <4>3, RequestShapes
        <5>2. \A d \in DOMAIN req.actions : /\ req.actions[d].existingVersion \in known[d]
                                            /\ req.actions[d].existingVersion < MaxVersion
          BY <3>3, <4>3 DEF Begin, Sendable, CreateRequests, ListRequests, GetRequests, DeleteRequests
        <5>3. inv'[i].pc = "read" /\ inv'[i].todo = DOMAIN req.actions
          BY <4>2, <4>3 DEF NextPhase, FirstIds
        <5> QED BY <4>2, <4>3, <5>1, <5>2, <5>3 DEF PhaseOK, Loops
      <4>4. CASE req.op # "update"
        <5>1. /\ req.op \in {"create", "get", "delete", "list"}
              /\ inv'[i].pc = NextPhase(req) /\ inv'[i].req = req /\ inv'[i].out = NoRows
          BY <4>2, <4>4, RequestShapes
        <5> QED BY <5>1 DEF PhaseOK, Loops, NextPhase
      <4> QED BY <4>3, <4>4
    <3> QED BY <3>1, <3>2, <3>3
  <2>4. CASE GetItem(i)
    <3>1. PICK c \in inv[i].todo : \E copy \in Copies(c) \ {Absent} :
             inv' = [inv EXCEPT ![i].read[c] = copy, ![i].todo = @ \ {c}]
      BY <2>4 DEF GetItem
    <3>2. PICK copy \in Copies(c) \ {Absent} :
             inv' = [inv EXCEPT ![i].read[c] = copy, ![i].todo = @ \ {c}]
      BY <3>1
    <3>3. /\ inv'[i].pc = inv[i].pc /\ inv'[i].req = inv[i].req
          /\ inv'[i].todo = inv[i].todo \ {c} /\ inv'[i].read = [inv[i].read EXCEPT ![c] = copy]
          /\ inv'[i].out = inv[i].out
      BY <3>2 DEF TypeOK, Invocation
    <3>4. inv[i].read \in [Cals -> OptRow] /\ copy # Absent /\ known' = known /\ inv[i].pc = "read"
      BY <2>4 DEF TypeOK, Invocation, GetItem
    <3>5. inv[i].req \in UpdateRequests => DOMAIN inv[i].req.actions \subseteq Cals
      BY DEF UpdateRequests
    <3> QED BY <3>3, <3>4, <3>5 DEF PhasesOK, PhaseOK, Loops
  <2>5. CASE StartWriting(i)
    <3>1. /\ inv'[i].pc = "write" /\ inv'[i].req = inv[i].req /\ inv'[i].read = inv[i].read
          /\ inv'[i].todo = DOMAIN inv[i].req.actions /\ known' = known
          /\ inv[i].pc = "read" /\ inv[i].req.op = "update" /\ inv[i].todo = {}
      BY <2>5 DEF TypeOK, Invocation, StartWriting
    <3> QED BY <3>1 DEF PhasesOK, PhaseOK, Loops
  <2>6. CASE Crash(i)
    <3>1. Ended(i)
      BY <2>6 DEF TypeOK, Crash, Ended, Blank
    <3> QED BY <3>1, EndedPhase
  <2>7. CASE \/ GetItemNotFound(i) \/ ServiceError(i)
             \/ \E c \in Cals : UpdateItemRefused(i, c) \/ UnknownActionType(i, c)
    BY <2>7, FailEffect, EndedPhase
       DEF GetItemNotFound, ServiceError, UpdateItemRefused, UnknownActionType
  <2>8. CASE AnswerGet(i) \/ AnswerUpdate(i)
    <3>1. inv[i].read \in [Cals -> OptRow] /\ inv[i].out \in [Cals -> OptRow]
      BY DEF TypeOK, Invocation
    <3> QED BY <2>8, <3>1, AnswerEffect, EndedPhase DEF AnswerGet, AnswerUpdate, Answer
  <2>9. CASE Query(i)
    BY <2>9, QueryAnswers, AnswerEffect, EndedPhase
  <2> QED BY <2>1, <2>2, <2>3, <2>4, <2>5, <2>6, <2>7, <2>8, <2>9, InvStepCases DEF Reads
<1> QED BY <1>2, <1>3 DEF PhasesOK

-----------------------------------------------------------------------------
(* Rows and answers. *)

RowsOK(i) == \A c \in Cals : {inv[i].read[c], inv[i].out[c]} \ {Absent} \subseteq stored[c]

LEMMA RowsStep ==
    ASSUME TypeOK, PhasesOK, NoTornRows, NEW i \in Invs, InvStep(i)
    PROVE  \A j \in Invs : RowsOK(j)'
<1>0. /\ \A j \in Invs \ {i} : inv'[j] = inv[j]
      /\ \A c \in Cals : stored[c] \subseteq stored'[c]
  BY Frame
<1>1. ASSUME NEW j \in Invs, inv'[j].read = inv[j].read, inv'[j].out = inv[j].out
      PROVE  RowsOK(j)'
  BY <1>0, <1>1 DEF NoTornRows, RowsOK
<1>2. ASSUME NEW j \in Invs, j # i PROVE RowsOK(j)'
  BY <1>0, <1>1, <1>2
<1>3. ASSUME NEW rows \in [Cals -> OptRow], Answer(i, rows),
             \A c \in Cals : {rows[c]} \ {Absent} \subseteq stored'[c]
      PROVE  RowsOK(i)'
  BY <1>3, AnswerEffect DEF RowsOK, NoRows
<1>4. ASSUME inv'[i].read = NoRows, inv'[i].out = NoRows PROVE RowsOK(i)'
  BY <1>4 DEF RowsOK, NoRows
<1>5. RowsOK(i)'
  <2>1. CASE PutItem(i)
    <3>1. PICK c \in Cals, row \in Row :
             /\ Store(c, row)
             /\ Answer(i, [NoRows EXCEPT ![c] = row]) \/ Repeat(i, {})
      BY <2>1, PutItemEffect
    <3>2. /\ [NoRows EXCEPT ![c] = row] \in [Cals -> OptRow]
          /\ \A d \in Cals : {[NoRows EXCEPT ![c] = row][d]} \ {Absent} \subseteq stored'[d]
      BY <3>1, StoreEffect DEF NoRows, OptRow
    <3> QED BY <1>1, <1>3, <3>1, <3>2, RepeatEffect
  <2>2. CASE \E c \in Cals : UpdateItem(i, c)
    <3>1. PICK c \in Cals : UpdateItem(i, c)
      BY <2>2
    <3>2. Store(c, NewRow(i, c)) /\ NewRow(i, c) \in Row
      BY <3>1, UpdateItemFacts DEF UpdateItem, NewRow, ActionOf
    <3>3. inv[i].out \in [Cals -> OptRow]
      BY DEF TypeOK, Invocation
    <3>4. stored'[c] = stored[c] \cup {NewRow(i, c)}
      BY <3>2, StoreEffect
    <3>5. \A d \in Cals : {[inv[i].out EXCEPT ![c] = NewRow(i, c)][d]} \ {Absent} \subseteq stored'[d]
      BY <1>0, <3>3, <3>4 DEF NoTornRows
    <3>6. \A d \in Cals : {inv[i].out[d], inv[i].read[d]} \ {Absent} \subseteq stored'[d]
      BY <1>0 DEF NoTornRows
    <3>7. inv'[i].read = inv[i].read /\ inv'[i].out \in {inv[i].out, [inv[i].out EXCEPT ![c] = NewRow(i, c)]}
      BY <3>1, UpdateItemEffect
    <3> QED BY <3>5, <3>6, <3>7 DEF RowsOK
  <2>3. CASE DeleteItem(i)
    <3>1. NoRows \in [Cals -> OptRow] /\ \A c \in Cals : NoRows[c] = Absent
      BY DEF NoRows, OptRow
    <3> QED BY <1>1, <1>3, <2>3, <3>1, RepeatEffect DEF DeleteItem, Answer
  <2>4. CASE Reads(i)
    <3>0. UNCHANGED <<table, lag, stored>>
      BY <2>4, ReadsEffect
    <3>1. CASE \E req \in Requests : Begin(i, req) \/ RejectSession(i, req)
      BY <1>4, <3>1 DEF TypeOK, Begin, RejectSession, Blank
    <3>2. CASE Crash(i)
      BY <1>4, <3>2 DEF TypeOK, Crash, Blank
    <3>3. CASE \/ GetItemNotFound(i) \/ ServiceError(i)
               \/ \E c \in Cals : UpdateItemRefused(i, c) \/ UnknownActionType(i, c)
      BY <1>4, <3>3, FailEffect
         DEF GetItemNotFound, ServiceError, UpdateItemRefused, UnknownActionType
    <3>4. CASE StartWriting(i)
      BY <1>1, <3>4 DEF TypeOK, Invocation, StartWriting
    <3>5. CASE AnswerGet(i) \/ AnswerUpdate(i)
      <4>1. inv[i].read \in [Cals -> OptRow] /\ inv[i].out \in [Cals -> OptRow]
        BY DEF TypeOK, Invocation
      <4>2. \A c \in Cals : {inv[i].read[c], inv[i].out[c]} \ {Absent} \subseteq stored'[c]
        BY <1>0 DEF NoTornRows
      <4> QED BY <1>3, <3>5, <4>1, <4>2 DEF AnswerGet, AnswerUpdate, Answer
    <3>6. CASE Query(i)
      <4>1. PICK rows \in [Cals -> OptRow] :
               Answer(i, rows) /\ \A c \in Cals : rows[c] \in {table[c], Absent}
        BY <3>6, QueryAnswers
      <4>2. \A c \in Cals : {rows[c]} \ {Absent} \subseteq stored'[c]
        BY <3>0, <4>1 DEF NoTornRows
      <4> QED BY <1>3, <4>1, <4>2
    <3>7. CASE GetItem(i)
      <4>1. PICK c \in inv[i].todo : \E copy \in Copies(c) \ {Absent} :
               inv' = [inv EXCEPT ![i].read[c] = copy, ![i].todo = @ \ {c}]
        BY <3>7 DEF GetItem
      <4>2. PICK copy \in Copies(c) \ {Absent} :
               inv' = [inv EXCEPT ![i].read[c] = copy, ![i].todo = @ \ {c}]
        BY <4>1
      <4>3. /\ inv'[i].read = [inv[i].read EXCEPT ![c] = copy] /\ inv'[i].out = inv[i].out
            /\ c \in Cals /\ inv[i].read \in [Cals -> OptRow]
        BY <4>2 DEF TypeOK, Invocation
      <4>4. copy \in stored[c]
        BY <4>3 DEF NoTornRows, Copies
      <4> QED BY <3>0, <4>3, <4>4 DEF RowsOK, NoTornRows
    <3> QED BY <2>4, <3>1, <3>2, <3>3, <3>4, <3>5, <3>6, <3>7 DEF Reads
  <2> QED BY <2>1, <2>2, <2>3, <2>4, InvStepCases
<1> QED BY <1>2, <1>5

\* The table and its replica show only what was stored.
LEMMA TableStep ==
    ASSUME TypeOK, PhasesOK, NoTornRows, NEW i \in Invs, InvStep(i)
    PROVE  \A c \in Cals : {table'[c], lag'[c]} \ {Absent} \subseteq stored'[c]
<1>0. \A c \in Cals : stored[c] \subseteq stored'[c]
  BY Frame
<1>1. CASE PutItem(i)
  <2>1. PICK c \in Cals, row \in Row : Store(c, row) /\ lag' = lag
    BY <1>1, PutItemEffect
  <2> QED BY <1>0, <2>1, StoreEffect DEF NoTornRows
<1>2. CASE \E c \in Cals : UpdateItem(i, c)
  <2>1. PICK c \in Cals : UpdateItem(i, c)
    BY <1>2
  <2>2. Store(c, NewRow(i, c)) /\ NewRow(i, c) \in Row /\ lag' = lag
    BY <2>1, UpdateItemFacts DEF UpdateItem, NewRow, ActionOf
  <2> QED BY <1>0, <2>2, StoreEffect DEF NoTornRows
<1>3. CASE DeleteItem(i)
  <2>1. PICK c \in Cals : table' = [table EXCEPT ![c] = Absent]
    BY <1>3 DEF DeleteItem, TypeOK, Invocation
  <2> QED BY <1>0, <1>3, <2>1 DEF NoTornRows, DeleteItem, TypeOK
<1>4. CASE Reads(i)
  BY <1>4, ReadsEffect DEF NoTornRows
<1> QED BY <1>1, <1>2, <1>3, <1>4, InvStepCases

\* A client learns versions only from rows that were stored.
LEMMA KnownStep ==
    ASSUME TypeOK, PhasesOK, NoTornRows, KnownStored, NEW i \in Invs, InvStep(i)
    PROVE  KnownStored'
<1>0. \A c \in Cals : stored[c] \subseteq stored'[c]
  BY Frame
<1>1. CASE known' = known
  BY <1>0, <1>1 DEF KnownStored
<1>2. ASSUME NEW rows \in [Cals -> OptRow], Answer(i, rows),
             \A c \in Cals : {rows[c]} \ {Absent} \subseteq stored'[c]
      PROVE  KnownStored'
  <2>1. ASSUME NEW c \in Cals, NEW v \in Versions, v \in known'[c]
        PROVE  \E r \in stored'[c] : r.version = v
    <3>1. v \in known[c] \/ (rows[c] # Absent /\ v = rows[c].version)
      BY <1>2, <2>1, AnswerEffect
    <3>2. CASE v \in known[c]
      BY <1>0, <3>2 DEF KnownStored
    <3>3. CASE rows[c] # Absent /\ v = rows[c].version
      BY <1>2, <3>3
    <3> QED BY <3>1, <3>2, <3>3
  <2> QED BY <2>1 DEF KnownStored
<1>3. CASE PutItem(i)
  <2>1. PICK c \in Cals, row \in Row :
           /\ Store(c, row)
           /\ Answer(i, [NoRows EXCEPT ![c] = row]) \/ Repeat(i, {})
    BY <1>3, PutItemEffect
  <2>2. /\ [NoRows EXCEPT ![c] = row] \in [Cals -> OptRow]
        /\ \A d \in Cals : {[NoRows EXCEPT ![c] = row][d]} \ {Absent} \subseteq stored'[d]
    BY <2>1, StoreEffect DEF NoRows, OptRow
  <2> QED BY <1>1, <1>2, <2>1, <2>2, RepeatEffect
<1>4. CASE \E c \in Cals : UpdateItem(i, c)
  BY <1>1, <1>4, UpdateItemInv
<1>5. CASE DeleteItem(i)
  <2>1. NoRows \in [Cals -> OptRow] /\ \A c \in Cals : NoRows[c] = Absent
    BY DEF NoRows, OptRow
  <2> QED BY <1>1, <1>2, <1>5, <2>1, RepeatEffect DEF DeleteItem, Answer
<1>6. CASE Reads(i)
  <2>1. CASE \/ \E req \in Requests : Begin(i, req) \/ RejectSession(i, req)
             \/ Crash(i) \/ StartWriting(i) \/ GetItem(i)
    BY <1>1, <2>1 DEF Begin, RejectSession, Crash, StartWriting, GetItem
  <2>2. CASE \/ GetItemNotFound(i) \/ ServiceError(i)
             \/ \E c \in Cals : UpdateItemRefused(i, c) \/ UnknownActionType(i, c)
    BY <1>1, <2>2, FailEffect
       DEF GetItemNotFound, ServiceError, UpdateItemRefused, UnknownActionType
  <2>3. CASE AnswerGet(i) \/ AnswerUpdate(i)
    <3>1. inv[i].read \in [Cals -> OptRow] /\ inv[i].out \in [Cals -> OptRow]
      BY DEF TypeOK, Invocation
    <3>2. \A c \in Cals : {inv[i].read[c], inv[i].out[c]} \ {Absent} \subseteq stored'[c]
      BY <1>0 DEF NoTornRows
    <3> QED BY <1>2, <2>3, <3>1, <3>2 DEF AnswerGet, AnswerUpdate, Answer
  <2>4. CASE Query(i)
    <3>1. PICK rows \in [Cals -> OptRow] :
             Answer(i, rows) /\ \A c \in Cals : rows[c] \in {table[c], Absent}
      BY <2>4, QueryAnswers
    <3>2. \A c \in Cals : {rows[c]} \ {Absent} \subseteq stored'[c]
      BY <1>0, <3>1 DEF NoTornRows
    <3> QED BY <1>2, <3>1, <3>2
  <2> QED BY <1>6, <2>1, <2>2, <2>3, <2>4 DEF Reads
<1> QED BY <1>3, <1>4, <1>5, <1>6, InvStepCases

\* What an invocation has written, it alone has written, and the log says so.
ProgressOK ==
    /\ ProgressLogged
    /\ SuccessMeansStored

\* The part of it that concerns one invocation.
Claim(i) ==
    /\ inv[i].pc = "write" =>
          \A c \in DOMAIN inv[i].req.actions \ inv[i].todo : Logged(i, c)
    /\ Succeeded(i, "update") => \A c \in DOMAIN inv[i].req.actions : Logged(i, c)

\* A claim outlives steps that leave the invocation as it is.
LEMMA ClaimKept ==
    ASSUME NEW j \in Invs, Claim(j), log \subseteq log',
           /\ inv'[j].pc = inv[j].pc /\ inv'[j].req = inv[j].req
           /\ inv'[j].todo = inv[j].todo /\ inv'[j].out = inv[j].out
           /\ inv'[j].outcome = inv[j].outcome
    PROVE  Claim(j)'
BY DEF Claim, Logged, Succeeded

LEMMA ClaimStep ==
    ASSUME TypeOK, PhasesOK, ProgressOK, NEW i \in Invs, InvStep(i)
    PROVE  \A j \in Invs : Claim(j)'
<1>0. /\ \A j \in Invs \ {i} : inv'[j] = inv[j]
      /\ log \subseteq log'
      /\ \A j \in Invs : Claim(j)
  BY Frame DEF ProgressOK, ProgressLogged, SuccessMeansStored, Claim
<1>1. ASSUME NEW j \in Invs, j # i PROVE Claim(j)'
  BY <1>0, <1>1, ClaimKept
<1> SUFFICES Claim(i)'
  BY <1>1
<1>2. ASSUME Repeat(i, {}) PROVE Claim(i)'
  BY <1>0, <1>2, RepeatEffect, ClaimKept
<1>3. ASSUME inv'[i].pc # "write", inv'[i].pc # "done" \/ inv'[i].outcome # "ok"
      PROVE  Claim(i)'
  BY <1>3 DEF Claim, Succeeded
<1>4. ASSUME NEW rows \in [Cals -> OptRow], Answer(i, rows), inv[i].req.op # "update"
      PROVE  Claim(i)'
  BY <1>4, AnswerEffect DEF Claim, Succeeded
<1>5. CASE PutItem(i)
  <2>1. PICK c \in Cals, row \in Row :
           Answer(i, [NoRows EXCEPT ![c] = row]) \/ Repeat(i, {})
    BY <1>5, PutItemEffect
  <2>2. [NoRows EXCEPT ![c] = row] \in [Cals -> OptRow] /\ inv[i].req.op = "create"
    BY <1>5 DEF NoRows, OptRow, PhasesOK, PhaseOK, PutItem
  <2> QED BY <1>2, <1>4, <2>1, <2>2
<1>6. CASE \E c \in Cals : UpdateItem(i, c)
  <2>1. PICK c \in Cals : UpdateItem(i, c)
    BY <1>6
  <2>2. /\ inv'[i].pc = "write" /\ inv'[i].req = inv[i].req /\ inv[i].pc = "write"
        /\ \/ /\ inv'[i].out = [inv[i].out EXCEPT ![c] = NewRow(i, c)]
              /\ inv'[i].todo = inv[i].todo \ {c}
           \/ inv'[i].out = inv[i].out /\ inv'[i].todo = inv[i].todo
        /\ inv'[i].outcome = inv[i].outcome /\ inv[i].out \in [Cals -> OptRow]
    BY <2>1, UpdateItemFacts, UpdateItemEffect DEF Invocation
  <2>3. CASE inv'[i].out = inv[i].out /\ inv'[i].todo = inv[i].todo
    BY <1>0, <2>2, <2>3, ClaimKept
  <2>4. CASE inv'[i].out = [inv[i].out EXCEPT ![c] = NewRow(i, c)] /\ inv'[i].todo = inv[i].todo \ {c}
    <3>1. \E e \in log' : /\ e.cal = c /\ e.row = NewRow(i, c)
                          /\ e.edit = inv[i].req.actions[c].edit
                          /\ e.from = inv[i].req.actions[c].existingVersion
      <4> DEFINE new == [cal |-> c, edit |-> ActionOf(i, c).edit,
                         from |-> ActionOf(i, c).existingVersion,
                         prev |-> table[c], copy |-> inv[i].read[c], row |-> NewRow(i, c)]
      <4>1. new \in log'
        BY <2>1 DEF UpdateItem, NewRow, ActionOf
      <4>2. /\ new.cal = c /\ new.row = NewRow(i, c)
            /\ new.edit = ActionOf(i, c).edit /\ new.from = ActionOf(i, c).existingVersion
        OBVIOUS
      <4> QED BY <4>1, <4>2 DEF ActionOf
    <3>2. Logged(i, c)'
      BY <2>2, <2>4, <3>1 DEF Logged
    <3>3. ASSUME NEW d \in DOMAIN inv[i].req.actions \ inv[i].todo, d # c
          PROVE  Logged(i, d)'
      <4>1. Logged(i, d)
        BY <1>0, <2>2, <3>3 DEF Claim
      <4>2. inv'[i].out[d] = inv[i].out[d]
        BY <2>2, <2>4, <3>3
      <4> QED BY <1>0, <2>2, <4>1, <4>2 DEF Logged
    <3> QED BY <2>2, <2>4, <3>2, <3>3 DEF Claim, Succeeded
  <2> QED BY <2>2, <2>3, <2>4
<1>7. CASE DeleteItem(i)
  <2>1. NoRows \in [Cals -> OptRow] /\ \A c \in Cals : NoRows[c] = Absent
    BY DEF NoRows, OptRow
  <2>2. CASE Repeat(i, {})
    BY <1>2, <2>2
  <2>3. CASE Answer(i, NoRows)
    <3>1. inv[i].req.op # "update"
      BY <1>7 DEF DeleteItem, PhasesOK, PhaseOK
    <3> QED BY <1>4, <2>1, <2>3, <3>1 DEF Answer
  <2> QED BY <1>7, <2>2, <2>3 DEF DeleteItem
<1>8. CASE Reads(i)
  <2>1. CASE \E req \in Requests : Begin(i, req) \/ RejectSession(i, req)
    <3>1. PICK req \in Requests : Begin(i, req) \/ RejectSession(i, req)
      BY <2>1
    <3>2. inv'[i].pc # "write" /\ inv'[i].outcome # "ok"
      <4>1. CASE RejectSession(i, req)
        BY <4>1 DEF TypeOK, RejectSession, Blank
      <4>2. CASE Begin(i, req)
        <5>1. NextPhase(req) # "write"
          BY RequestShapes DEF NextPhase
        <5> QED BY <4>2, <5>1 DEF TypeOK, Begin, Blank
      <4> QED BY <3>1, <4>1, <4>2
    <3> QED BY <1>3, <3>2
  <2>2. CASE Crash(i)
    BY <1>3, <2>2 DEF TypeOK, Crash, Blank
  <2>3. CASE \/ GetItemNotFound(i) \/ ServiceError(i)
             \/ \E c \in Cals : UpdateItemRefused(i, c) \/ UnknownActionType(i, c)
    BY <1>3, <2>3, FailEffect
       DEF GetItemNotFound, ServiceError, UpdateItemRefused, UnknownActionType, Ended
  <2>4. CASE StartWriting(i)
    <3>1. /\ inv'[i].pc = "write" /\ inv'[i].req = inv[i].req
          /\ inv'[i].todo = DOMAIN inv[i].req.actions
      BY <2>4 DEF TypeOK, Invocation, StartWriting
    <3> QED BY <3>1 DEF Claim, Succeeded
  <2>5. CASE AnswerGet(i)
    <3>1. inv[i].read \in [Cals -> OptRow] /\ inv[i].req.op # "update"
      BY <2>5 DEF TypeOK, Invocation, AnswerGet
    <3> QED BY <1>4, <2>5, <3>1 DEF AnswerGet, Answer
  <2>6. CASE Query(i)
    <3>1. inv[i].req.op # "update"
      BY <2>6 DEF Query, PhasesOK, PhaseOK
    <3> QED BY <1>4, <2>6, <3>1, QueryAnswers
  <2>7. CASE AnswerUpdate(i)
    <3>1. inv[i].out \in [Cals -> OptRow] /\ Answer(i, inv[i].out)
      BY <2>7 DEF TypeOK, Invocation, AnswerUpdate, Answer
    <3>2. \A c \in DOMAIN inv[i].req.actions : Logged(i, c)
      BY <1>0, <2>7 DEF Claim, AnswerUpdate
    <3>3. inv'[i].out = inv[i].out /\ inv'[i].req = inv[i].req /\ inv'[i].pc = "done"
      BY <3>1, AnswerEffect
    <3> QED BY <1>0, <3>2, <3>3 DEF Claim, Logged
  <2>8. CASE GetItem(i)
    <3>1. inv'[i].pc = "read"
      BY <2>8 DEF TypeOK, Invocation, GetItem
    <3> QED BY <3>1 DEF Claim, Succeeded
  <2> QED BY <1>8, <2>1, <2>2, <2>3, <2>4, <2>5, <2>6, <2>7, <2>8 DEF Reads
<1> QED BY <1>5, <1>6, <1>7, <1>8, InvStepCases

\* Of two invocations, one cannot write a version the other has written.
LEMMA AloneStep ==
    ASSUME TypeOK, PhasesOK, NoTornRows, DataInv, ProgressOK, NEW i \in Invs, InvStep(i),
           NEW j \in Invs, NEW k \in Invs, j # k, NEW c \in Cals,
           Wrote(j, c)', Wrote(k, c)'
    PROVE  ~SameWrite(inv'[j].out[c], inv'[k].out[c])
<1>0. \A m \in Invs \ {i} : inv'[m] = inv[m]
  BY Frame
<1> DEFINE Old(m) == Wrote(m, c) /\ inv'[m].out[c] = inv[m].out[c]
           New(m) == m = i /\ UpdateItem(i, c) /\ inv'[i].out[c] = NewRow(i, c)
<1>1. ASSUME NEW m \in Invs, Wrote(m, c)' PROVE Old(m) \/ New(m)
  <2>1. CASE m # i
    BY <1>0, <1>1, <2>1 DEF Wrote, Succeeded
  <2>2. CASE m = i
    <3>0. inv'[i].out[c] # Absent /\ (inv'[i].pc = "write" \/ Succeeded(i, "update")')
      BY <1>1, <2>2 DEF Wrote
    <3>1. CASE \E d \in Cals : UpdateItem(i, d)
      <4>1. PICK d \in Cals : UpdateItem(i, d)
        BY <3>1
      <4>2. inv[i].pc = "write" /\ inv[i].out \in [Cals -> OptRow]
        BY <4>1, UpdateItemFacts DEF Invocation
      <4>3. inv'[i].out \in {inv[i].out, [inv[i].out EXCEPT ![d] = NewRow(i, d)]}
        BY <4>1, UpdateItemEffect
      <4> QED BY <2>2, <3>0, <4>1, <4>2, <4>3 DEF Wrote
    <3>2. CASE Repeat(i, {}) \/ \E rows \in [Cals -> OptRow] : Answer(i, rows) /\ inv[i].req.op # "update"
      BY <2>2, <3>0, <3>2, RepeatEffect, AnswerEffect DEF Wrote, Succeeded
    <3>3. CASE PutItem(i)
      <4>1. PICK d \in Cals, row \in Row :
               Answer(i, [NoRows EXCEPT ![d] = row]) \/ Repeat(i, {})
        BY <3>3, PutItemEffect
      <4>2. [NoRows EXCEPT ![d] = row] \in [Cals -> OptRow] /\ inv[i].req.op = "create"
        BY <3>3 DEF NoRows, OptRow, PhasesOK, PhaseOK, PutItem
      <4> QED BY <3>2, <4>1, <4>2
    <3>4. CASE DeleteItem(i)
      <4>1. NoRows \in [Cals -> OptRow] /\ inv[i].req.op # "update"
        BY <3>4 DEF NoRows, OptRow, DeleteItem, PhasesOK, PhaseOK
      <4> QED BY <3>2, <3>4, <4>1 DEF DeleteItem, Answer
    <3>5. CASE Reads(i)
      <4>1. CASE \E req \in Requests : Begin(i, req) \/ RejectSession(i, req)
        <5>1. inv'[i].out = NoRows
          BY <4>1 DEF TypeOK, Begin, RejectSession, Blank
        <5> QED BY <3>0, <5>1 DEF NoRows
      <4>2. CASE Crash(i)
        BY <3>0, <4>2 DEF TypeOK, Crash, Blank, NoRows
      <4>3. CASE \/ GetItemNotFound(i) \/ ServiceError(i)
                 \/ \E d \in Cals : UpdateItemRefused(i, d) \/ UnknownActionType(i, d)
        BY <3>0, <4>3, FailEffect
           DEF GetItemNotFound, ServiceError, UpdateItemRefused, UnknownActionType, NoRows
      <4>4. CASE StartWriting(i)
        <5>1. inv'[i].out = inv[i].out /\ inv[i].out = NoRows
          BY <4>4 DEF TypeOK, Invocation, StartWriting, PhasesOK, PhaseOK
        <5> QED BY <3>0, <5>1 DEF NoRows
      <4>5. CASE AnswerGet(i)
        <5>1. inv[i].read \in [Cals -> OptRow] /\ inv[i].req.op # "update"
          BY <4>5 DEF TypeOK, Invocation, AnswerGet
        <5>2. Answer(i, inv[i].read)
          BY <4>5 DEF AnswerGet, Answer
        <5> QED BY <3>2, <5>1, <5>2
      <4>6. CASE Query(i)
        <5>1. inv[i].req.op # "update"
          BY <4>6 DEF Query, PhasesOK, PhaseOK
        <5> QED BY <3>2, <4>6, <5>1, QueryAnswers
      <4>7. CASE AnswerUpdate(i)
        <5>1. inv[i].out \in [Cals -> OptRow] /\ Answer(i, inv[i].out) /\ inv[i].pc = "write"
          BY <4>7 DEF TypeOK, Invocation, AnswerUpdate, Answer
        <5> QED BY <2>2, <3>0, <5>1, AnswerEffect DEF Wrote
      <4>8. CASE GetItem(i)
        <5>1. inv'[i].pc = "read"
          BY <4>8 DEF TypeOK, Invocation, GetItem
        <5> QED BY <3>0, <5>1 DEF Succeeded
      <4> QED BY <3>5, <4>1, <4>2, <4>3, <4>4, <4>5, <4>6, <4>7, <4>8 DEF Reads
    <3> QED BY <3>1, <3>3, <3>4, <3>5, InvStepCases
  <2> QED BY <2>1, <2>2
<1>2. CASE Old(j) /\ Old(k)
  BY <1>2 DEF ProgressOK, ProgressLogged
<1>3. ASSUME NEW m \in Invs, NEW n \in Invs, New(m), Old(n)
      PROVE  ~SameWrite(NewRow(i, c), inv[n].out[c])
  <2>1. /\ table[c] \in Row /\ NewRow(i, c).version = table[c].version + 1
        /\ NewRow(i, c).inc = table[c].inc
    BY <1>3, UpdateItemFacts
  <2>2. inv[n].out[c] \in stored[c] /\ inv[n].out[c] \in Row
    BY <1>3 DEF Wrote, NoTornRows, TypeOK
  <2>3. inv[n].out[c].inc = table[c].inc => inv[n].out[c].version <= table[c].version
    BY <2>1, <2>2, AbsentIsNoRow DEF DataInv, TableIsNewest
  <2>4. inv[n].out[c].version \in Nat /\ table[c].version \in Nat
    BY <2>1, <2>2, BackendAssumption DEF Row, Versions
  <2> QED BY <2>1, <2>3, <2>4 DEF SameWrite
<1> QED BY <1>1, <1>2, <1>3 DEF SameWrite

-----------------------------------------------------------------------------
(* The inductive invariant. *)

IInv == TypeOK /\ PhasesOK /\ NoTornRows /\ KnownStored /\ DataInv /\ ProgressOK

LEMMA InitIInv == Init => IInv
<1> SUFFICES ASSUME Init PROVE IInv
  OBVIOUS
<1>1. TypeOK /\ PhasesOK
  BY TypeInit
<1>2. NoTornRows /\ KnownStored
  BY DEF Init, NoTornRows, KnownStored, Blank, NoRows
<1>3. DataInv
  BY DEF Init, DataInv, TableIsNewest, VersionNamesRow, LogLinks, LogComplete,
         OneWinnerPerVersion, NoRows
<1>4. ProgressOK
  BY DEF Init, ProgressOK, ProgressLogged, SuccessMeansStored, Wrote, Succeeded, Blank, NoRows
<1> QED BY <1>1, <1>2, <1>3, <1>4 DEF IInv

LEMMA ReplicateIInv ==
    ASSUME IInv, NEW c \in Cals, Replicate(c)
    PROVE  IInv'
<1>1. UNCHANGED <<table, inv, known, puts, stored, log>> /\ lag' = [lag EXCEPT ![c] = table[c]]
  BY DEF Replicate
<1>2. TypeOK'
  BY ReplicateType DEF IInv
<1>3. PhasesOK'
  BY <1>1 DEF IInv, PhasesOK, PhaseOK, Loops
<1>4. NoTornRows'
  BY <1>1 DEF IInv, NoTornRows, TypeOK
<1>5. KnownStored'
  BY <1>1 DEF IInv, KnownStored
<1>6. DataInv'
  BY <1>1, DataUnchanged DEF IInv
<1>7. ProgressOK'
  BY <1>1 DEF IInv, ProgressOK, ProgressLogged, SuccessMeansStored, Wrote, Succeeded, Logged, SameWrite
<1> QED BY <1>2, <1>3, <1>4, <1>5, <1>6, <1>7 DEF IInv

LEMMA StutterIInv ==
    ASSUME IInv, UNCHANGED vars
    PROVE  IInv'
<1>1. UNCHANGED <<table, lag, inv, known, puts, stored, log>>
  BY DEF vars
<1>2. TypeOK'
  BY <1>1 DEF IInv, TypeOK
<1>3. PhasesOK'
  BY <1>1 DEF IInv, PhasesOK, PhaseOK, Loops
<1>4. NoTornRows' /\ KnownStored'
  BY <1>1 DEF IInv, NoTornRows, KnownStored
<1>5. DataInv'
  BY <1>1, DataUnchanged DEF IInv
<1>6. ProgressOK'
  BY <1>1 DEF IInv, ProgressOK, ProgressLogged, SuccessMeansStored, Wrote, Succeeded, Logged, SameWrite
<1> QED BY <1>2, <1>3, <1>4, <1>5, <1>6 DEF IInv

LEMMA InvStepIInv ==
    ASSUME IInv, Next, NEW i \in Invs, InvStep(i)
    PROVE  IInv'
<1>0. TypeOK /\ PhasesOK /\ NoTornRows /\ KnownStored /\ DataInv /\ ProgressOK
  BY DEF IInv
<1>1. TypeOK' /\ PhasesOK'
  BY <1>0, TypeStep, PhasesStep
<1>2. NoTornRows'
  BY <1>0, RowsStep, TableStep DEF NoTornRows, RowsOK
<1>3. KnownStored'
  BY <1>0, KnownStep
<1>4. DataInv'
  <2>1. CASE Reads(i)
    BY <1>0, <2>1, ReadsEffect, DataUnchanged
  <2> QED BY <1>0, <2>1, DataPut, DataDelete, DataUpdate, InvStepCases
<1>5. ProgressOK'
  <2>1. \A j \in Invs : Claim(j)'
    BY <1>0, ClaimStep
  <2>2. \A j, k \in Invs : \A c \in Cals :
           (j # k /\ Wrote(j, c)' /\ Wrote(k, c)') => ~SameWrite(inv'[j].out[c], inv'[k].out[c])
    BY <1>0, AloneStep
  <2>3. SuccessMeansStored'
    BY <2>1 DEF Claim, SuccessMeansStored
  <2>4. ProgressLogged'
    BY <2>1, <2>2 DEF Claim, ProgressLogged
  <2> QED BY <2>3, <2>4 DEF ProgressOK
<1> QED BY <1>1, <1>2, <1>3, <1>4, <1>5 DEF IInv

\* The inductive invariant holds throughout.
THEOREM Inductive == Spec => []IInv
<1>1. IInv /\ [Next]_vars => IInv'
  <2> SUFFICES ASSUME IInv, [Next]_vars PROVE IInv'
    OBVIOUS
  <2>1. CASE Next
    BY <2>1, NextSteps, InvStepIInv, ReplicateIInv
  <2>2. CASE UNCHANGED vars
    BY <2>2, StutterIInv
  <2> QED BY <2>1, <2>2
<1> QED BY <1>1, InitIInv, PTL DEF Spec

-----------------------------------------------------------------------------
(* The theorems. *)

\* Every variable always has its type (TypeOK).
THEOREM TypeCorrect == Spec => []TypeOK
BY Inductive, PTL DEF IInv

\* A version names one row of a calendar (VersionNamesRow), for any number of
\* calendars, invocations and repeated calls.
THEOREM VersionsNameRows == Spec => []VersionNamesRow
<1>1. IInv => VersionNamesRow
  BY DEF IInv, DataInv
<1> QED BY <1>1, Inductive, PTL

\* From one version of a calendar one update at most takes effect
\* (OneWinnerPerVersion): the OCC condition of updateCalendarInternal does its work.
THEOREM OptimisticConcurrency == Spec => []OneWinnerPerVersion
<1>1. IInv => OneWinnerPerVersion
  BY DEF IInv, DataInv
<1> QED BY <1>1, Inductive, PTL

\* An edit of days computed from the version it is conditioned on loses no day
\* (FreshReadKeepsDays): only stale reads can.
THEOREM FreshReadsKeepDays == Spec => []FreshReadKeepsDays
<1>1. ASSUME IInv PROVE FreshReadKeepsDays
  <2>1. ASSUME NEW e \in log, SameWrite(e.copy, e.prev)
        PROVE  e.row.days = NewDays(e.edit, e.prev.days)
    <3>1. e.cal \in Cals /\ {e.prev, e.copy} \subseteq stored[e.cal]
      BY <1>1 DEF IInv, TypeOK, Entry, DataInv, LogLinks
    <3>2. e.copy = e.prev
      BY <1>1, <2>1, <3>1 DEF IInv, DataInv, VersionNamesRow
    <3>3. EditsDays(e.edit) => e.row.days = NewDays(e.edit, e.copy.days)
      BY <1>1 DEF IInv, DataInv, LogLinks
    <3>4. ~EditsDays(e.edit) => e.row.days = e.prev.days
      BY <1>1 DEF IInv, DataInv, LogLinks
    <3>5. ~EditsDays(e.edit) => NewDays(e.edit, e.prev.days) = e.prev.days
      BY DEF EditsDays, NewDays
    <3> QED BY <3>2, <3>3, <3>4, <3>5
  <2> QED BY <2>1 DEF FreshReadKeepsDays
<1> QED BY <1>1, Inductive, PTL

\* Success is answered only for updates that were stored as asked
\* (SuccessMeansStored).
THEOREM SuccessIsTrue == Spec => []SuccessMeansStored
<1>1. IInv => SuccessMeansStored
  BY DEF IInv, ProgressOK
<1> QED BY <1>1, Inductive, PTL

\* Two invocations that were told of success never updated a calendar from the
\* same version (NoSharedSuccess).
THEOREM SuccessIsNotShared == Spec => []NoSharedSuccess
<1>1. IInv => NoSharedSuccess
  BY DEF IInv, ProgressOK, ProgressLogged, NoSharedSuccess, Wrote
<1> QED BY <1>1, Inductive, PTL

\* Whatever an invocation holds or answers was once stored (NoTornRows).
THEOREM RowsAreGenuine == Spec => []NoTornRows
BY Inductive, PTL DEF IInv

\* An update of a calendar still there is refused only after another update
\* took the version it names (RefusalHasWinner).
THEOREM RefusalsHaveWinners == Spec => []RefusalHasWinner
<1>1. ASSUME IInv PROVE RefusalHasWinner
  <2>1. ASSUME NEW i \in Invs, inv[i].pc = "write", NEW c \in inv[i].todo,
               table[c] # Absent, puts[c] = 1, ~VersionMatches(table[c], inv[i].req.actions[c])
        PROVE  \E e \in log : e.cal = c /\ e.from = inv[i].req.actions[c].existingVersion
    <3> DEFINE v == inv[i].req.actions[c].existingVersion
    <3>1. c \in Cals /\ inv[i].req \in UpdateRequests /\ c \in DOMAIN inv[i].req.actions
          /\ v \in known[c]
      BY <1>1, <2>1 DEF IInv, TypeOK, Invocation, PhasesOK, PhaseOK, Loops
    <3>2. v \in Versions
      BY <1>1, <3>1 DEF IInv, TypeOK
    <3>3. PICK r \in stored[c] : r.version = v
      BY <1>1, <3>1, <3>2 DEF IInv, KnownStored
    <3>4. r \in Row /\ table[c] \in Row /\ table[c] \in stored[c]
      BY <1>1, <2>1, <3>1 DEF IInv, TypeOK, OptRow, NoTornRows
    <3>5. r.inc = 1
      BY <1>1, <2>1, <3>1, <3>4 DEF IInv, DataInv, TableIsNewest, Row
    <3>6. v <= table[c].version
      BY <1>1, <2>1, <3>1, <3>3, <3>5 DEF IInv, DataInv, TableIsNewest
    <3>7. table[c].version # v
      BY <2>1 DEF VersionMatches
    <3>8. v < table[c].version
      BY <3>2, <3>4, <3>6, <3>7, BackendAssumption DEF Row, Versions
    <3> QED BY <1>1, <3>1, <3>2, <3>4, <3>8 DEF IInv, DataInv, LogComplete
  <2> QED BY <2>1 DEF RefusalHasWinner
<1> QED BY <1>1, Inductive, PTL

\* Updates never bring a deleted calendar back (UpdateNeverRecreates).
THEOREM DeletedStaysDeleted == Spec => UpdateNeverRecreates
<1> DEFINE A == \A c \in Cals : (table[c] = Absent /\ table'[c] # Absent) => puts'[c] = puts[c] + 1
<1>1. IInv /\ [Next]_vars => [A]_vars
  <2> SUFFICES ASSUME IInv, Next PROVE A
    OBVIOUS
  <2>0. TypeOK /\ PhasesOK
    BY DEF IInv
  <2>1. ASSUME NEW c \in Cals, Replicate(c) PROVE A
    BY <2>1 DEF Replicate
  <2>2. ASSUME NEW i \in Invs, InvStep(i) PROVE A
    <3>1. CASE Reads(i)
      BY <3>1, ReadsEffect
    <3>2. CASE DeleteItem(i)
      BY <2>0, <3>2 DEF DeleteItem, TypeOK
    <3>3. CASE PutItem(i)
      <4>1. PICK c \in Cals, row \in Row : Store(c, row) /\ puts' = [puts EXCEPT ![c] = @ + 1]
        BY <2>0, <3>3, PutItemEffect
      <4> QED BY <2>0, <4>1, StoreEffect DEF TypeOK
    <3>4. CASE \E c \in Cals : UpdateItem(i, c)
      <4>1. PICK c \in Cals : UpdateItem(i, c)
        BY <3>4
      <4>2. table[c] # Absent /\ Store(c, NewRow(i, c)) /\ NewRow(i, c) \in Row
        BY <2>0, <4>1, UpdateItemFacts, AbsentIsNoRow DEF UpdateItem, NewRow, ActionOf
      <4> QED BY <2>0, <4>2, StoreEffect
    <3> QED BY <2>2, <3>1, <3>2, <3>3, <3>4, InvStepCases
  <2> QED BY <2>1, <2>2, NextSteps
<1> QED BY <1>1, Inductive, PTL DEF Spec, UpdateNeverRecreates
-----------------------------------------------------------------------------
(* The listing. *)

\* A finite set of ids has a first and a last one.
LEMMA FiniteSetEnds ==
    ASSUME NEW S \in SUBSET Nat, IsFiniteSet(S), S # {}
    PROVE  /\ \E c \in S : \A d \in S : ~(d < c)
           /\ \E c \in S : \A d \in S : ~(c < d)
<1> DEFINE Below(c) == {d \in S : d < c}
           Above(c) == {d \in S : c < d}
           Belows == {Below(c) : c \in S}
           Aboves == {Above(c) : c \in S}
           R == StrictSubsetOrdering(S)
<1>1. IsWellFoundedOn(R, FiniteSubsetsOf(S))
  BY FS_StrictSubsetOrderingWellFounded
<1>2. FiniteSubsetsOf(S) = SUBSET S
  BY FS_FiniteSubsetsOfFinite
<1>3. /\ Belows \subseteq FiniteSubsetsOf(S) /\ Belows # {}
      /\ Aboves \subseteq FiniteSubsetsOf(S) /\ Aboves # {}
  <2>1. \A c \in S : Below(c) \in SUBSET S /\ Above(c) \in SUBSET S
    OBVIOUS
  <2>2. PICK c \in S : TRUE
    OBVIOUS
  <2> HIDE DEF Below, Above
  <2>3. Below(c) \in Belows /\ Above(c) \in Aboves
    OBVIOUS
  <2> QED BY <1>2, <2>1, <2>3
<1> HIDE DEF R
<1>4. PICK x \in Belows : \A y \in Belows : ~(<<y, x>> \in R)
  <2> HIDE DEF Belows
  <2> QED BY <1>1, <1>3, WFMin
<1>5. PICK z \in Aboves : \A y \in Aboves : ~(<<y, z>> \in R)
  <2> HIDE DEF Aboves
  <2> QED BY <1>1, <1>3, WFMin
<1>6. \E c \in S : \A d \in S : ~(d < c)
  <2>1. PICK c \in S : x = Below(c)
    BY <1>4
  <2>2. ASSUME NEW d \in S, d < c PROVE FALSE
    <3>1. Below(d) \in Belows /\ Below(d) \in SUBSET S /\ x \in SUBSET S
      BY <2>1
    <3>2. Below(d) \subseteq x
      <4>1. c \in Nat /\ d \in Nat /\ \A e \in S : e \in Nat
        OBVIOUS
      <4>2. \A e \in S : e < d => e < c
        BY <2>2, <4>1
      <4> QED BY <2>1, <4>2
    <3>3. d \in x /\ d \notin Below(d)
      BY <2>1, <2>2
    <3>4. <<Below(d), x>> \in R
      <4> HIDE DEF Below
      <4> QED BY <3>1, <3>2, <3>3 DEF R, StrictSubsetOrdering
    <3> QED BY <1>4, <3>1, <3>4
  <2> QED BY <2>2
<1>7. \E c \in S : \A d \in S : ~(c < d)
  <2>1. PICK c \in S : z = Above(c)
    BY <1>5
  <2>2. ASSUME NEW d \in S, c < d PROVE FALSE
    <3>1. Above(d) \in Aboves /\ Above(d) \in SUBSET S /\ z \in SUBSET S
      BY <2>1
    <3>2. Above(d) \subseteq z
      <4>1. c \in Nat /\ d \in Nat /\ \A e \in S : e \in Nat
        OBVIOUS
      <4>2. \A e \in S : d < e => c < e
        BY <2>2, <4>1
      <4> QED BY <2>1, <4>2
    <3>3. d \in z /\ d \notin Above(d)
      BY <2>1, <2>2
    <3>4. <<Above(d), z>> \in R
      <4> HIDE DEF Above
      <4> QED BY <3>1, <3>2, <3>3 DEF R, StrictSubsetOrdering
    <3> QED BY <1>5, <3>1, <3>4
  <2> QED BY <2>2
<1> QED BY <1>6, <1>7

\* What a page holds: the oldest calendars, as many as its size, or all.
LEMMA PageIsPrefix ==
    ASSUME NEW limit \in Nat, IsFiniteSet(Present)
    PROVE  /\ Page(limit) \subseteq Present
           /\ \A c \in Page(limit), d \in Present : d < c => d \in Page(limit)
           /\ Cardinality(Page(limit)) <= limit
           /\ Page(limit) # Present => Cardinality(Page(limit)) = limit
<1> DEFINE Older(c) == {d \in Present : d < c}
           page == Page(limit)
<1>1. /\ page \subseteq Present /\ Present \subseteq Nat
      /\ IsFiniteSet(page) /\ Cardinality(page) \in Nat
  <2>1. page \subseteq Present /\ Present \subseteq Nat
    BY BackendAssumption DEF Page, Present
  <2> QED BY <2>1, FS_Subset, FS_CardinalityType
<1>2. \A c \in Present : /\ IsFiniteSet(Older(c)) /\ Cardinality(Older(c)) \in Nat
                         /\ c \in page <=> Cardinality(Older(c)) < limit
  <2> TAKE c \in Present
  <2>1. IsFiniteSet(Older(c))
    BY FS_Subset
  <2> QED BY <2>1, FS_CardinalityType DEF Page
<1>3. ASSUME NEW c \in page, NEW d \in Present, d < c PROVE d \in page
  <2>1. Older(d) \in SUBSET Older(c)
    <3>1. c \in Nat /\ d \in Nat /\ \A e \in Present : e \in Nat
      BY <1>1
    <3>2. \A e \in Present : e < d => e < c
      BY <1>3, <3>1
    <3> QED BY <3>2
  <2>2. c \in Present
    BY <1>1
  <2>3. Cardinality(Older(d)) <= Cardinality(Older(c))
    <3> DEFINE s == Older(c)
               t == Older(d)
    <3>1. IsFiniteSet(s) /\ t \in SUBSET s
      BY <1>2, <2>1, <2>2
    <3> HIDE DEF s, t
    <3>2. Cardinality(t) <= Cardinality(s)
      BY <3>1, FS_Subset
    <3> QED BY <3>2 DEF s, t
  <2> QED BY <1>2, <2>2, <2>3
<1> HIDE DEF page
<1>4. Cardinality(page) <= limit
  <2>1. CASE page = {}
    BY <2>1, FS_EmptySet
  <2>2. CASE page # {}
    <3>1. page \in SUBSET Nat
      BY <1>1
    <3>2. PICK c \in page : \A d \in page : ~(c < d)
      BY <1>1, <2>2, <3>1, FiniteSetEnds
    <3>3. page \ {c} \in SUBSET Older(c)
      BY <1>1, <3>1, <3>2
    <3>4. IsFiniteSet(Older(c)) /\ Cardinality(Older(c)) \in Nat /\ Cardinality(Older(c)) < limit
      BY <1>1, <1>2
    <3>5. Cardinality(page \ {c}) <= Cardinality(Older(c))
      <4> HIDE DEF Older
      <4> QED BY <3>3, <3>4, FS_Subset
    <3>6. Cardinality(page \ {c}) = Cardinality(page) - 1
      BY <1>1, FS_RemoveElement
    <3> QED BY <1>1, <3>4, <3>5, <3>6
  <2> QED BY <2>1, <2>2
<1>5. ASSUME page # Present PROVE Cardinality(page) = limit
  <2> DEFINE rest == Present \ page
  <2>1. rest # {} /\ rest \in SUBSET Nat /\ IsFiniteSet(rest)
    <3>1. rest \in SUBSET Present
      OBVIOUS
    <3>2. IsFiniteSet(rest)
      BY <3>1, FS_Subset
    <3> QED BY <1>1, <1>5, <3>2
  <2>2. PICK c \in rest : \A d \in rest : ~(d < c)
    BY <2>1, FiniteSetEnds
  <2>3. Older(c) \in SUBSET page
    BY <2>2
  <2>4. Cardinality(Older(c)) \in Nat /\ ~(Cardinality(Older(c)) < limit)
    BY <1>2, <2>2
  <2>5. Cardinality(Older(c)) <= Cardinality(page)
    <3> HIDE DEF Older
    <3> QED BY <1>1, <2>3, FS_Subset
  <2> QED BY <1>1, <1>4, <2>4, <2>5
<1> QED BY <1>1, <1>3, <1>4, <1>5 DEF page

\* The table holds finitely many rows at any moment: each step adds one at most.
LEMMA PresentFinite == Spec => []IsFiniteSet(Present)
<1>1. Init => IsFiniteSet(Present)
  <2> SUFFICES ASSUME Init PROVE IsFiniteSet(Present)
    OBVIOUS
  <2>1. Present = {}
    BY DEF Init, Present, NoRows
  <2> QED BY <2>1, FS_EmptySet
<1>2. IInv /\ IsFiniteSet(Present) /\ [Next]_vars => IsFiniteSet(Present)'
  <2> SUFFICES ASSUME IInv, IsFiniteSet(Present), [Next]_vars PROVE IsFiniteSet(Present)'
    OBVIOUS
  <2>0. TypeOK /\ PhasesOK
    BY DEF IInv
  <2>1. ASSUME NEW c, \A d \in Cals \ {c} : table'[d] = table[d] PROVE IsFiniteSet(Present)'
    <3>1. Present' \in SUBSET (Present \cup {c})
      BY <2>1 DEF Present
    <3>2. IsFiniteSet(Present \cup {c})
      BY FS_AddElement
    <3> HIDE DEF Present
    <3> QED BY <3>1, <3>2, FS_Subset
  <2>2. CASE UNCHANGED table
    BY <2>1, <2>2
  <2>3. ASSUME NEW i \in Invs, InvStep(i) PROVE IsFiniteSet(Present)'
    <3>1. CASE Reads(i)
      BY <2>2, <3>1, ReadsEffect
    <3>2. CASE PutItem(i)
      <4>1. PICK c \in inv[i].todo, row \in Row : c \in Cals /\ Store(c, row)
        BY <2>0, <3>2, PutItemEffect
      <4> QED BY <2>0, <2>1, <4>1, StoreEffect
    <3>3. CASE DeleteItem(i)
      <4>1. PICK c \in inv[i].todo : table' = [table EXCEPT ![c] = Absent]
        BY <3>3 DEF DeleteItem
      <4> QED BY <2>0, <2>1, <4>1 DEF TypeOK
    <3>4. ASSUME NEW c \in Cals, UpdateItem(i, c) PROVE IsFiniteSet(Present)'
      <4>1. \A d \in Cals \ {c} : table'[d] = table[d]
        BY <2>0, <3>4 DEF TypeOK, UpdateItem, Store
      <4> QED BY <2>1, <4>1
    <3> QED BY <2>3, <3>1, <3>2, <3>3, <3>4, InvStepCases
  <2>4. ASSUME NEW c \in Cals, Replicate(c) PROVE IsFiniteSet(Present)'
    BY <2>2, <2>4 DEF Replicate
  <2>5. CASE UNCHANGED vars
    BY <2>2, <2>5 DEF vars
  <2>6. CASE Next
    <3> HIDE DEF Present
    <3> QED BY <2>3, <2>4, <2>6, NextSteps
  <2> QED BY <2>5, <2>6
<1> QED BY <1>1, <1>2, Inductive, PTL DEF Spec

\* The calendars a response carries.
Given(i) == {c \in Cals : inv[i].out[c] # Absent}

\* What ListCalendars answers: rows as they are, no more than the limit, none
\* left out before one that is given, and some of them if there are any.
ListsOldest(i) ==
    /\ Given(i)' \subseteq Present /\ \A c \in Given(i)' : inv'[i].out[c] = table[c]
    /\ \A c \in Given(i)', d \in Present : d < c => d \in Given(i)'
    /\ Cardinality(Given(i)') <= PageLimit(inv[i].req)
    /\ Present # {} => Given(i)' # {}

\* A listing (calendar_dao.go:233-361) gives the oldest calendars as they are, as
\* many as the request, maxResultsLimit and DynamoDB's page allow; with no
\* token, the others are out of reach.
THEOREM ListingsGiveOldest == Spec => [][\A i \in Invs : Query(i) => ListsOldest(i)]_vars
<1>1. ASSUME IInv, IsFiniteSet(Present), NEW i \in Invs, Query(i) PROVE ListsOldest(i)
  <2> DEFINE limit == PageLimit(inv[i].req)
  <2>1. limit \in Nat
    <3>1. inv[i].req \in Requests /\ inv[i].req.op = "list"
      BY <1>1 DEF IInv, TypeOK, Invocation, PhasesOK, PhaseOK, Query, NoRequest
    <3>2. inv[i].req.maxResults \in Nat
      BY <3>1, BackendAssumption DEF Requests, ListRequests, CreateRequests, GetRequests,
                                     UpdateRequests, DeleteRequests
    <3> QED BY <3>2, BackendAssumption DEF PageLimit
  <2>2. PICK size \in 1 .. limit :
           Answer(i, [c \in Cals |-> IF c \in Page(size) THEN table[c] ELSE Absent])
    BY <1>1 DEF Query
  <2> HIDE DEF limit
  <2> DEFINE page == Page(size)
             rows == [c \in Cals |-> IF c \in page THEN table[c] ELSE Absent]
  <2>3. size \in Nat /\ 1 <= size /\ size <= limit
    BY <2>1
  <2>4. /\ page \subseteq Present
        /\ \A c \in page, d \in Present : d < c => d \in page
        /\ Cardinality(page) <= size
        /\ page # Present => Cardinality(page) = size
    BY <1>1, <2>3, PageIsPrefix
  <2>5. Cardinality(page) \in Nat /\ (page = {} => Cardinality(page) = 0)
    <3>1. IsFiniteSet(page)
      BY <1>1, <2>4, FS_Subset
    <3> QED BY <3>1, FS_CardinalityType, FS_EmptySet
  <2>6. rows \in [Cals -> OptRow] /\ Answer(i, rows)
    BY <1>1, <2>2 DEF IInv, TypeOK, OptRow
  <2>7. inv'[i].out = rows
    <3> HIDE DEF rows
    <3> QED BY <1>1, <2>6, AnswerEffect DEF IInv
  <2>8. Given(i)' = page /\ \A c \in page : inv'[i].out[c] = table[c]
    <3>1. page \subseteq Cals /\ \A c \in page : table[c] # Absent
      BY <2>4 DEF Present
    <3> HIDE DEF page
    <3> QED BY <2>7, <3>1 DEF Given
  <2> HIDE DEF page
  <2>9. Cardinality(page) <= limit /\ (Present # {} => page # {})
    BY <2>1, <2>3, <2>4, <2>5
  <2>10. /\ Given(i)' \subseteq Present /\ \A c \in Given(i)' : inv'[i].out[c] = table[c]
         /\ \A c \in Given(i)', d \in Present : d < c => d \in Given(i)'
         /\ Cardinality(Given(i)') <= limit
         /\ Present # {} => Given(i)' # {}
    BY <2>4, <2>8, <2>9
  <2> QED BY <2>10 DEF ListsOldest, limit
<1>2. IInv /\ IsFiniteSet(Present) => \A i \in Invs : Query(i) => ListsOldest(i)
  BY <1>1
<1> QED BY <1>2, Inductive, PresentFinite, PTL
-----------------------------------------------------------------------------
(* The way to an answer. *)

\* How many steps an invocation can still take: one for each id to read and one
\* to go on, MaxAttempts for each UpdateItem and one to answer, and what the SDK
\* may still try of any other call.
ReadsLeft(i) ==
    1 + Cardinality(inv[i].todo)
      + (IF inv[i].req.op = "update"
         THEN 1 + MaxAttempts * Cardinality(DOMAIN inv[i].req.actions) ELSE 0)

Left(i) ==
    CASE inv[i].pc \in {"put", "delete", "query"} -> MaxAttempts - inv[i].tries
      [] inv[i].pc = "read"  -> ReadsLeft(i)
      [] inv[i].pc = "write" -> 1 + MaxAttempts * Cardinality(inv[i].todo) - inv[i].tries
      [] OTHER -> 0

\* No call is tried more often than the SDK does, and only a call under way is.
TriesOK(i) ==
    /\ inv[i].tries < MaxAttempts
    /\ inv[i].pc = "read" => inv[i].tries = 0
    /\ inv[i].pc = "write" /\ inv[i].tries > 0 => inv[i].todo # {}

\* What Left is a measure of: the ids an invocation has left, and the tries.
LEMMA LeftCounts ==
    ASSUME TypeOK, PhasesOK, IsFiniteSet(Cals), NEW i \in Invs, TriesOK(i)
    PROVE  /\ IsFiniteSet(inv[i].todo) /\ Cardinality(inv[i].todo) \in Nat
           /\ Loops(i) => Cardinality(DOMAIN inv[i].req.actions) \in Nat
           /\ inv[i].tries \in Nat /\ MaxAttempts \in Nat
           /\ Left(i) \in Nat
           /\ Running(i) => Left(i) > 0
<1>1. inv[i] \in Invocation /\ MaxAttempts \in Nat \ {0}
  BY BackendAssumption DEF TypeOK
<1>2. inv[i].todo \in SUBSET Cals /\ inv[i].tries \in Nat /\ inv[i].pc \in Phases
  BY <1>1 DEF Invocation
<1>3. IsFiniteSet(inv[i].todo) /\ Cardinality(inv[i].todo) \in Nat
  BY <1>2, FS_Subset, FS_CardinalityType
<1>4. Loops(i) => Cardinality(DOMAIN inv[i].req.actions) \in Nat
  <2> SUFFICES ASSUME Loops(i) PROVE Cardinality(DOMAIN inv[i].req.actions) \in Nat
    OBVIOUS
  <2>1. DOMAIN inv[i].req.actions \in SUBSET Cals
    BY DEF PhasesOK, PhaseOK, UpdateRequests
  <2> QED BY <2>1, FS_Subset, FS_CardinalityType
<1>5. Left(i) \in Nat /\ (Running(i) => Left(i) > 0)
  <2> DEFINE n == Cardinality(inv[i].todo)
             t == inv[i].tries
  <2>1. CASE inv[i].pc \in {"put", "delete", "query"}
    BY <1>1, <1>2, <2>1 DEF Left, TriesOK
  <2>2. CASE inv[i].pc = "read"
    <3> DEFINE k == Cardinality(DOMAIN inv[i].req.actions)
               rest == IF inv[i].req.op = "update" THEN 1 + MaxAttempts * k ELSE 0
    <3>1. inv[i].req.op = "update" => k \in Nat
      BY <1>4, <2>2 DEF Loops
    <3> HIDE DEF k
    <3>2. rest \in Nat
      BY <1>1, <3>1
    <3> HIDE DEF rest
    <3>3. Left(i) = 1 + n + rest
      BY <2>2 DEF Left, ReadsLeft, rest, k
    <3> QED BY <1>3, <3>2, <3>3
  <2>3. CASE inv[i].pc = "write"
    <3>1. Left(i) = 1 + MaxAttempts * n - t
      BY <2>3 DEF Left
    <3>2. t < MaxAttempts /\ (t > 0 => n > 0)
      BY <1>3, <2>3, FS_EmptySet DEF TriesOK
    <3>3. n = 0 \/ MaxAttempts * n >= MaxAttempts
      BY <1>1, <1>3
    <3>4. MaxAttempts * n \in Nat /\ (n = 0 => MaxAttempts * n = 0)
      BY <1>1, <1>3
    <3> HIDE DEF n, t
    <3> QED BY <1>1, <1>2, <1>3, <3>1, <3>2, <3>3, <3>4 DEF n, t
  <2>4. CASE inv[i].pc \in {"idle", "done"}
    BY <2>4 DEF Left, Running, Unused
  <2> QED BY <1>2, <2>1, <2>2, <2>3, <2>4 DEF Phases
<1> QED BY <1>1, <1>2, <1>3, <1>4, <1>5

LEMMA OneIdLess ==
    ASSUME NEW S, IsFiniteSet(S), NEW c \in S, NEW T, T = S \ {c}
    PROVE  Cardinality(T) = Cardinality(S) - 1
BY FS_RemoveElement

\* An invocation that ends has nothing left, one that repeats a call a try less.
LEMMA EndLeaves ==
    ASSUME NEW i \in Invs, inv'[i].tries = 0, Ended(i)
    PROVE  TriesOK(i)' /\ Left(i)' = 0
BY BackendAssumption DEF Ended, TriesOK, Left

LEMMA AnswerTries ==
    ASSUME TypeOK, NEW i \in Invs, (\E rows : Answer(i, rows)) \/ Fail(i) \/ Crash(i)
    PROVE  inv'[i].tries = 0 /\ Ended(i)
<1>1. CASE \E rows : Answer(i, rows)
  <2>1. PICK rows : Answer(i, rows)
    BY <1>1
  <2>2. inv'[i] = [Blank(inv[i].req) EXCEPT !.pc = "done", !.outcome = "ok", !.out = rows]
    BY <2>1 DEF TypeOK, Answer
  <2> QED BY <2>2 DEF Ended, Blank
<1>2. CASE Fail(i)
  BY <1>2 DEF TypeOK, Fail, Ended, Blank
<1>3. CASE Crash(i)
  BY <1>3 DEF TypeOK, Crash, Ended, Blank
<1> QED BY <1>1, <1>2, <1>3

LEMMA RepeatLeaves ==
    ASSUME TypeOK, PhasesOK, IsFiniteSet(Cals), NEW i \in Invs, TriesOK(i), NEW busy \in SUBSET Cals,
           inv[i].pc \in {"put", "delete", "write"}, inv[i].todo # {}, Repeat(i, busy)
    PROVE  TriesOK(i)' /\ Left(i)' < Left(i)
<1>1. /\ inv'[i].pc = inv[i].pc /\ inv'[i].todo = inv[i].todo
      /\ inv'[i].tries = inv[i].tries + 1 /\ inv[i].tries + 1 < MaxAttempts
  BY DEF TypeOK, Invocation, Repeat
<1>2. /\ Cardinality(inv[i].todo) \in Nat /\ inv[i].tries \in Nat /\ MaxAttempts \in Nat
      /\ MaxAttempts * Cardinality(inv[i].todo) \in Nat
  BY LeftCounts
<1>3. TriesOK(i)'
  BY <1>1 DEF TriesOK
<1>4. CASE inv[i].pc \in {"put", "delete"}
  BY <1>1, <1>2, <1>3, <1>4 DEF Left
<1>5. CASE inv[i].pc = "write"
  <2> DEFINE k == MaxAttempts * Cardinality(inv[i].todo)
  <2>1. Left(i) = 1 + k - inv[i].tries /\ Left(i)' = 1 + k - (inv[i].tries + 1)
    BY <1>1, <1>5 DEF Left
  <2> HIDE DEF k
  <2> QED BY <1>2, <1>3, <2>1 DEF k
<1> QED BY <1>4, <1>5

\* Every step an invocation takes brings it nearer to its end.
LEMMA InvStepLeaves ==
    ASSUME TypeOK, PhasesOK, IsFiniteSet(Cals), NEW i \in Invs, TriesOK(i), InvStep(i)
    PROVE  TriesOK(i)' /\ (Running(i) => Left(i)' < Left(i))
<1>0. /\ inv[i] \in Invocation /\ inv \in [Invs -> Invocation]
      /\ IsFiniteSet(inv[i].todo) /\ Cardinality(inv[i].todo) \in Nat
      /\ MaxAttempts \in Nat \ {0} /\ inv[i].tries \in Nat
      /\ Left(i) \in Nat /\ (Running(i) => Left(i) > 0)
  BY LeftCounts, BackendAssumption DEF TypeOK
<1>1. CASE \/ \E rows : Answer(i, rows)
           \/ Fail(i) \/ Crash(i)
  BY <1>0, <1>1, AnswerTries, EndLeaves
<1>2. CASE \E req \in Requests : RejectSession(i, req)
  <2>1. inv'[i].tries = 0 /\ Ended(i) /\ ~Running(i)
    BY <1>0, <1>2 DEF RejectSession, Ended, Blank, Running
  <2> QED BY <2>1, EndLeaves
<1>3. CASE \E req \in Requests : Begin(i, req)
  <2>1. inv'[i].tries = 0 /\ ~Running(i)
    BY <1>0, <1>3 DEF Begin, Blank, Running
  <2> QED BY <1>0, <2>1 DEF TriesOK
<1>4. CASE PutItem(i)
  BY <1>1, <1>4, RepeatLeaves DEF PutItem
<1>5. CASE DeleteItem(i)
  BY <1>1, <1>5, RepeatLeaves DEF DeleteItem
<1>6. CASE GetItem(i)
  <2>1. PICK c \in inv[i].todo :
           /\ inv'[i].todo = inv[i].todo \ {c} /\ inv'[i].pc = "read" /\ inv[i].pc = "read"
           /\ inv'[i].req = inv[i].req /\ inv'[i].tries = inv[i].tries
    BY <1>0, <1>6 DEF GetItem, Invocation
  <2>2. Cardinality(inv'[i].todo) = Cardinality(inv[i].todo) - 1
    BY <1>0, <2>1, OneIdLess
  <2>3. TriesOK(i)'
    BY <2>1 DEF TriesOK
  <2> DEFINE rest == IF inv[i].req.op = "update"
                     THEN 1 + MaxAttempts * Cardinality(DOMAIN inv[i].req.actions) ELSE 0
             n == Cardinality(inv[i].todo)
  <2>4. Left(i) = 1 + n + rest /\ Left(i)' = 1 + (n - 1) + rest
    BY <2>1, <2>2 DEF Left, ReadsLeft
  <2>5. rest \in Nat
    <3> DEFINE k == Cardinality(DOMAIN inv[i].req.actions)
    <3>1. inv[i].req.op = "update" => k \in Nat
      BY <2>1, LeftCounts DEF Loops
    <3> HIDE DEF k
    <3> QED BY <1>0, <3>1 DEF k
  <2> HIDE DEF rest, n
  <2> QED BY <1>0, <2>3, <2>4, <2>5 DEF n
<1>7. CASE StartWriting(i)
  <2>1. /\ inv[i].pc = "read" /\ inv[i].todo = {} /\ inv[i].req.op = "update"
        /\ inv'[i].pc = "write" /\ inv'[i].todo = DOMAIN inv[i].req.actions
        /\ inv'[i].tries = inv[i].tries /\ inv[i].tries = 0
    BY <1>0, <1>7 DEF StartWriting, Invocation, TriesOK
  <2> DEFINE k == Cardinality(DOMAIN inv[i].req.actions)
  <2>2. k \in Nat
    BY <2>1, LeftCounts DEF Loops
  <2>3. Left(i) = 1 + 0 + (1 + MaxAttempts * k) /\ Left(i)' = 1 + MaxAttempts * k - 0
    BY <2>1, FS_EmptySet DEF Left, ReadsLeft
  <2>4. TriesOK(i)'
    BY <1>0, <2>1 DEF TriesOK
  <2> HIDE DEF k
  <2>5. MaxAttempts * k \in Nat
    BY <1>0, <2>2
  <2> QED BY <2>3, <2>4, <2>5
<1>8. ASSUME NEW c \in Cals, UpdateItem(i, c) PROVE TriesOK(i)' /\ Left(i)' < Left(i)
  <2>1. inv[i].pc = "write" /\ c \in inv[i].todo
    BY <1>8 DEF UpdateItem, AtAction
  <2>2. CASE Repeat(i, {c})
    BY <2>1, <2>2, RepeatLeaves
  <2>3. CASE inv' = [inv EXCEPT ![i].out[c] = NewRow(i, c), ![i].todo = @ \ {c},
                                ![i].tries = 0, ![i].busy = {}]
    <3>1. inv'[i].pc = "write" /\ inv'[i].todo = inv[i].todo \ {c} /\ inv'[i].tries = 0
      BY <1>0, <2>1, <2>3 DEF Invocation
    <3>2. Cardinality(inv'[i].todo) = Cardinality(inv[i].todo) - 1
      BY <1>0, <2>1, <3>1, OneIdLess
    <3> DEFINE n == Cardinality(inv[i].todo)
               t == inv[i].tries
    <3>3. Left(i) = 1 + MaxAttempts * n - t /\ Left(i)' = 1 + MaxAttempts * (n - 1) - 0
      BY <2>1, <3>1, <3>2 DEF Left
    <3>4. t < MaxAttempts /\ TriesOK(i)'
      BY <1>0, <3>1 DEF TriesOK
    <3> HIDE DEF n, t
    <3>5. MaxAttempts * (n - 1) = MaxAttempts * n - MaxAttempts /\ MaxAttempts * n \in Nat
      BY <1>0 DEF n
    <3> QED BY <1>0, <3>3, <3>4, <3>5 DEF t
  <2> QED BY <1>8, <2>2, <2>3 DEF UpdateItem, NewRow, ActionOf
<1>9. CASE \/ GetItemNotFound(i) \/ ServiceError(i)
           \/ \E c \in Cals : UpdateItemRefused(i, c) \/ UnknownActionType(i, c)
  BY <1>1, <1>9 DEF GetItemNotFound, ServiceError, UpdateItemRefused, UnknownActionType
<1>10. CASE AnswerGet(i) \/ AnswerUpdate(i) \/ Query(i)
  BY <1>1, <1>10 DEF AnswerGet, AnswerUpdate, Query
<1> QED BY <1>1, <1>2, <1>3, <1>4, <1>5, <1>6, <1>7, <1>8, <1>9, <1>10 DEF InvStep

\* An invocation that runs only ever goes forward, whatever others do and
\* however often the SDK repeats a call: at most Left more steps, and it has
\* ended (the safety half of InvocationsEnd).  A request names finitely many ids.
THEOREM RequestsAdvance ==
    ASSUME IsFiniteSet(Cals)
    PROVE  Spec => [][\A i \in Invs : Running(i) =>
                         inv'[i] = inv[i] \/ (Left(i) \in Nat /\ Left(i)' < Left(i))]_vars
<1> DEFINE Tries == \A i \in Invs : TriesOK(i)
           A == \A i \in Invs : Running(i) =>
                   inv'[i] = inv[i] \/ (Left(i) \in Nat /\ Left(i)' < Left(i))
<1>1. Init => Tries
  BY BackendAssumption DEF Init, TriesOK, Blank
<1>2. ASSUME IInv, Tries, [Next]_vars PROVE Tries' /\ A
  <2>0. TypeOK /\ PhasesOK
    BY <1>2 DEF IInv
  <2>1. ASSUME NEW i \in Invs, inv'[i] = inv[i] PROVE TriesOK(i)'
    BY <1>2, <2>1 DEF TriesOK
  <2>2. CASE UNCHANGED inv
    BY <2>1, <2>2
  <2>3. ASSUME NEW i \in Invs, InvStep(i) PROVE Tries' /\ A
    <3>1. \A j \in Invs \ {i} : inv'[j] = inv[j] /\ TriesOK(j)'
      BY <2>0, <2>1, <2>3, Frame
    <3>2. TriesOK(i)' /\ (Running(i) => Left(i) \in Nat /\ Left(i)' < Left(i))
      BY <1>2, <2>0, <2>3, InvStepLeaves, LeftCounts
    <3> QED BY <3>1, <3>2
  <2>4. CASE Next
    BY <2>2, <2>3, <2>4, NextSteps DEF Replicate
  <2>5. CASE UNCHANGED vars
    BY <2>2, <2>5 DEF vars
  <2> QED BY <1>2, <2>4, <2>5
<1>3. IInv /\ Tries /\ [Next]_vars => Tries' /\ A
  BY <1>2
<1> QED BY <1>1, <1>3, Inductive, PTL DEF Spec
=============================================================================
