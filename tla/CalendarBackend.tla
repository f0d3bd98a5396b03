-------------------------- MODULE CalendarBackend --------------------------
(***************************************************************************)
(* The calendar half of the Go Lambda (lambda/calendar_dao.go): concurrent *)
(* invocations that create, get, update, delete and list the calendars of  *)
(* one user, against the DynamoDB calendar table.                          *)
(*                                                                         *)
(* An invocation is one run of a handle...RequestInner function.  Each of  *)
(* its DynamoDB calls is one step, so other invocations run in between.    *)
(* DynamoDB gives: conditional single-row writes that are atomic, strongly *)
(* consistent Query, and GetItem with ConsistentRead=false that may be     *)
(* answered from a replica that lags.  The AWS SDK repeats a call whose    *)
(* response is lost, up to MaxAttempts times in all.                       *)
(***************************************************************************)
EXTENDS Naturals, FiniteSets

CONSTANTS
    Cals,               \* calendar ids (ULIDs; their order is creation order)
    Names, Colors,      \* values of the Name and Color attributes
    Days,               \* days a calendar may highlight
    Invs,               \* slots for concurrently running invocations
    Absent,             \* no row under the key
    MaxVersion,         \* bound: versions above it are not explored
    MaxAttempts,        \* bound: tries the SDK makes of one DynamoDB call
    MaxResultsLimit,    \* maxResultsLimit, calendar_dao.go:57
    Traffic             \* the requests clients send

ASSUME BackendAssumption ==
    /\ Cals \subseteq Nat
    /\ MaxVersion \in Nat
    /\ MaxAttempts \in Nat \ {0}
    /\ MaxResultsLimit \in Nat \ {0}

Versions == 0 .. MaxVersion

\* A row of the calendar table.  inc is a history field the code does not
\* store: it numbers the PutItems that wrote the row afresh.
Row == [name: Names, color: Colors, version: Versions, days: SUBSET Days, inc: Nat]

\* The absence of a row is no row, with the history field or without it.
ASSUME AbsentAssumption ==
    Absent \notin Row \cup [name: Names, color: Colors, version: Versions, days: SUBSET Days]

OptRow == Row \cup {Absent}

\* UpdateCalendarActionType with the field each type reads.
Edits ==
    [kind: {"CHANGE_NAME"}, name: Names]
    \cup [kind: {"CHANGE_COLOR"}, color: Colors]
    \cup [kind: {"CHANGE_NAME_AND_COLOR"}, name: Names, color: Colors]
    \cup [kind: {"ADD_HIGHLIGHTED_DAY", "REMOVE_HIGHLIGHTED_DAY"}, day: Days]
    \cup [kind: {"UNKNOWN"}]

Actions == [existingVersion: Versions, edit: Edits]

CreateRequests == [op: {"create"}, name: Names, color: Colors]
GetRequests    == [op: {"get"}, ids: SUBSET Cals]
UpdateRequests == [op: {"update"}, actions: UNION {[S -> Actions] : S \in SUBSET Cals}]
DeleteRequests == [op: {"delete"}, id: Cals]
ListRequests   == [op: {"list"}, maxResults: 0 .. MaxResultsLimit + 1]

NoRequest == [op |-> "none"]

Requests == CreateRequests \cup GetRequests \cup UpdateRequests
            \cup DeleteRequests \cup ListRequests

ASSUME TrafficAssumption == Traffic \subseteq Requests

Phases == {"idle", "put", "read", "write", "delete", "query", "done"}

\* An invocation: the request, the phase it is in, the ids its loop has left,
\* the copies GetCalendars read, the rows for the response, how often the
\* current call was sent, and the calendar of an UpdateItem being repeated.
Invocation ==
    [req: Requests \cup {NoRequest}, pc: Phases, todo: SUBSET Cals, read: [Cals -> OptRow],
     out: [Cals -> OptRow], outcome: {"none", "ok", "session", "error"},
     tries: Nat, busy: SUBSET Cals]

\* One entry per UpdateItem that took effect: the row it replaced, the copy
\* the handler computed the new days from, and the row it left.
Entry == [cal: Cals, edit: Edits, from: Versions, prev: Row, copy: Row, row: Row]

VARIABLES
    table,      \* the calendar table: the row under each key, or Absent
    lag,        \* the replica a GetItem with ConsistentRead=false may read
    inv,        \* the invocations
    known,      \* versions of each calendar that a response has carried
    puts,       \* history: PutItems applied to each key
    stored,     \* history: every row each key has ever held
    log         \* history: every UpdateItem that took effect

vars == <<table, lag, inv, known, puts, stored, log>>

-----------------------------------------------------------------------------
(* Reading and rewriting rows. *)

addHighlightedDay(days, day) == days \cup {day}

removeHighlightedDay(days, day) == days \ {day}

\* The days an edit stores, from the days of the copy that was read.
NewDays(edit, days) ==
    CASE edit.kind = "ADD_HIGHLIGHTED_DAY"    -> addHighlightedDay(days, edit.day)
      [] edit.kind = "REMOVE_HIGHLIGHTED_DAY" -> removeHighlightedDay(days, edit.day)
      [] OTHER                                -> days

EditsDays(edit) == edit.kind \in {"ADD_HIGHLIGHTED_DAY", "REMOVE_HIGHLIGHTED_DAY"}

NewName(edit, name) ==
    IF edit.kind \in {"CHANGE_NAME", "CHANGE_NAME_AND_COLOR"} THEN edit.name ELSE name

NewColor(edit, color) ==
    IF edit.kind \in {"CHANGE_COLOR", "CHANGE_NAME_AND_COLOR"} THEN edit.color ELSE color

\* Mutants: the version is not raised; the days are stored as they were read;
\* the version counts down.
UpdatedSameVersion(row, copy, action) ==
    [row EXCEPT !.name    = NewName(action.edit, row.name),
                !.color   = NewColor(action.edit, row.color),
                !.days    = IF EditsDays(action.edit)
                              THEN NewDays(action.edit, copy.days) ELSE row.days]

UpdatedAsRead(row, copy, action) ==
    [row EXCEPT !.version = action.existingVersion + 1,
                !.days    = copy.days]

UpdatedDown(row, copy, action) ==
    [row EXCEPT !.version = action.existingVersion - 1,
                !.days    = IF EditsDays(action.edit)
                              THEN NewDays(action.edit, copy.days) ELSE row.days]

\* UpdateItem's SET clauses: Version always, the other attributes only when
\* the edit gives them; the rest of the stored row stays.
Updated(row, copy, action) ==
    [row EXCEPT !.version = action.existingVersion + 1,
                !.name    = NewName(action.edit, row.name),
                !.color   = NewColor(action.edit, row.color),
                !.days    = IF EditsDays(action.edit)
                              THEN NewDays(action.edit, copy.days) ELSE row.days]

\* Mutants: no condition on Version, or one that is off by one.
AnyVersion(row, action) == row # Absent

NextVersion(row, action) == row # Absent /\ row.version = action.existingVersion + 1

\* The ConditionExpression: a row exists and its Version is the client's.
VersionMatches(row, action) ==
    row # Absent /\ row.version = action.existingVersion

\* Mutant: attributes fetched by two reads.
TornCopies(c) ==
    IF Absent \in {table[c], lag[c]} THEN {table[c], lag[c]}
    ELSE {table[c], [lag[c] EXCEPT !.version = table[c].version]}

\* What the eventually consistent GetItem may return.
Copies(c) == {table[c], lag[c]}

Store(c, row) ==
    /\ table'  = [table EXCEPT ![c] = row]
    /\ stored' = [stored EXCEPT ![c] = @ \cup {row}]

NoRows == [c \in Cals |-> Absent]

-----------------------------------------------------------------------------
(* Requests arriving, and responses leaving. *)

KnownCals == {c \in Cals : known[c] # {}}

\* A request a client can make: it names calendars and existing versions
\* that some response has told it.
Sendable(req) ==
    \/ req \in CreateRequests \cup ListRequests
    \/ req \in GetRequests /\ req.ids \subseteq KnownCals
    \/ req \in DeleteRequests /\ req.id \in KnownCals
    \/ /\ req \in UpdateRequests
       /\ \A c \in DOMAIN req.actions :
             /\ req.actions[c].existingVersion \in known[c]
             /\ req.actions[c].existingVersion < MaxVersion

\* Mutant: ids are not unique.
AnyId(c) == \A i \in Invs : inv[i].pc = "put" => c \notin inv[i].todo

\* A ULID nothing else uses.
Fresh(c) ==
    puts[c] = 0 /\ \A i \in Invs : inv[i].pc = "put" => c \notin inv[i].todo

NextPhase(req) ==
    CASE req.op = "create" -> "put"
      [] req.op \in {"get", "update"} -> "read"
      [] req.op = "delete" -> "delete"
      [] OTHER -> "query"

\* The ids the request's first loop or call is about.
FirstIds(req, c) ==
    CASE req.op = "create" -> {c}
      [] req.op = "get"    -> req.ids
      [] req.op = "update" -> DOMAIN req.actions
      [] req.op = "delete" -> {req.id}
      [] OTHER             -> {}

Blank(req) ==
    [req |-> req, pc |-> "idle", todo |-> {}, read |-> NoRows, out |-> NoRows,
     outcome |-> "none", tries |-> 0, busy |-> {}]

Unused(i) == inv[i].pc \in {"idle", "done"}

\* handle...RequestInner starts, VerifySession accepts the session, and the
\* handler goes to its first call on the calendar table.
Begin(i, req) ==
    /\ Unused(i)
    /\ Sendable(req)
    /\ \E c \in Cals :
          /\ req.op = "create" => Fresh(c)
          /\ inv' = [inv EXCEPT ![i] = [Blank(req) EXCEPT !.pc = NextPhase(req),
                                                          !.todo = FirstIds(req, c)]]
    /\ UNCHANGED <<table, lag, known, puts, stored, log>>

\* VerifySession fails: success=false, COULD_NOT_VERIFY_SESSION_ERROR.
RejectSession(i, req) ==
    /\ Unused(i)
    /\ Sendable(req)
    /\ inv' = [inv EXCEPT ![i] = [Blank(NoRequest) EXCEPT !.pc = "done", !.outcome = "session"]]
    /\ UNCHANGED <<table, lag, known, puts, stored, log>>

\* The invocation answers success with these rows, whose versions the client
\* then knows; its memory is gone but for the response.
Answer(i, rows) ==
    /\ inv' = [inv EXCEPT ![i] = [Blank(inv[i].req) EXCEPT
                  !.pc = "done", !.outcome = "ok", !.out = rows]]
    /\ known' = [c \in Cals |-> IF rows[c] = Absent THEN known[c]
                                ELSE known[c] \cup {rows[c].version}]

\* The handler returns an error: main.go answers HTTP 400, and the response
\* carries no row.
Fail(i) ==
    /\ inv' = [inv EXCEPT ![i] = [Blank(NoRequest) EXCEPT !.pc = "done", !.outcome = "error"]]
    /\ UNCHANGED known

\* The SDK gets no response to the call it made and will send it again.
Repeat(i, busy) ==
    /\ inv[i].tries + 1 < MaxAttempts
    /\ inv' = [inv EXCEPT ![i].tries = @ + 1, ![i].busy = busy]
    /\ UNCHANGED known

-----------------------------------------------------------------------------
(* CreateCalendar. *)

NewCalendar(req, inc) ==
    [name |-> req.name, color |-> req.color, version |-> 0, days |-> {}, inc |-> inc]

\* The unconditional PutItem: the row is written whatever the key holds.
PutItem(i) ==
    /\ inv[i].pc = "put"
    /\ \E c \in inv[i].todo :
          LET row == NewCalendar(inv[i].req, puts[c] + 1)
          IN  /\ Store(c, row)
              /\ puts' = [puts EXCEPT ![c] = @ + 1]
              /\ \/ Answer(i, [NoRows EXCEPT ![c] = row])
                 \/ Repeat(i, {})
    /\ UNCHANGED <<lag, log>>

-----------------------------------------------------------------------------
(* GetCalendars, which UpdateCalendars calls too. *)

\* Mutant: the loop does not move to the next id.
GetItemAgain(i) ==
    /\ inv[i].pc = "read"
    /\ \E c \in inv[i].todo : \E copy \in Copies(c) \ {Absent} :
          inv' = [inv EXCEPT ![i].read[c] = copy]
    /\ UNCHANGED <<table, lag, known, puts, stored, log>>

\* getCalendarInternal on the least id left (the ids are sorted).
GetItem(i) ==
    /\ inv[i].pc = "read"
    /\ \E c \in inv[i].todo :
          /\ \A d \in inv[i].todo : c <= d
          /\ \E copy \in Copies(c) \ {Absent} :
                inv' = [inv EXCEPT ![i].read[c] = copy, ![i].todo = @ \ {c}]
    /\ UNCHANGED <<table, lag, known, puts, stored, log>>

\* ErrCalendarNotFound ends GetCalendars and the handler.
GetItemNotFound(i) ==
    /\ inv[i].pc = "read"
    /\ \E c \in inv[i].todo :
          /\ \A d \in inv[i].todo : c <= d
          /\ Absent \in Copies(c)
    /\ Fail(i)
    /\ UNCHANGED <<table, lag, puts, stored, log>>

\* handleGetCalendarsRequestInner answers with what was read.
AnswerGet(i) ==
    /\ inv[i].pc = "read" /\ inv[i].todo = {} /\ inv[i].req.op = "get"
    /\ Answer(i, inv[i].read)
    /\ UNCHANGED <<table, lag, puts, stored, log>>

-----------------------------------------------------------------------------
(* UpdateCalendars. *)

\* All the calendars are read: on to the loop over the actions.
StartWriting(i) ==
    /\ inv[i].pc = "read" /\ inv[i].todo = {} /\ inv[i].req.op = "update"
    /\ inv' = [inv EXCEPT ![i].pc = "write", ![i].todo = DOMAIN inv[i].req.actions]
    /\ UNCHANGED <<table, lag, known, puts, stored, log>>

\* The action the loop is at: any one left (Go's map order), or the one whose
\* UpdateItem is being repeated.
AtAction(i, c) ==
    /\ inv[i].pc = "write"
    /\ c \in inv[i].todo
    /\ inv[i].busy \subseteq {c}

\* Mutant: UpdateItem without a condition, which creates the row it does not find.
UpsertItem(i, c) ==
    LET action == inv[i].req.actions[c]
        base   == IF table[c] = Absent THEN inv[i].read[c] ELSE table[c]
        row    == Updated(base, inv[i].read[c], action)
    IN  /\ AtAction(i, c)
        /\ action.edit.kind # "UNKNOWN"
        /\ Store(c, row)
        /\ inv' = [inv EXCEPT ![i].out[c] = row, ![i].todo = @ \ {c}]
        /\ UNCHANGED <<lag, known, puts, log>>

\* updateCalendarInternal, its condition holding: the row is written, and the
\* loop goes on or the SDK repeats the call.
UpdateItem(i, c) ==
    LET action == inv[i].req.actions[c]
        row    == Updated(table[c], inv[i].read[c], action)
    IN  /\ AtAction(i, c)
        /\ action.edit.kind # "UNKNOWN"
        /\ VersionMatches(table[c], action)
        /\ Store(c, row)
        /\ log' = log \cup {[cal |-> c, edit |-> action.edit,
                             from |-> action.existingVersion,
                             prev |-> table[c], copy |-> inv[i].read[c], row |-> row]}
        /\ \/ /\ inv' = [inv EXCEPT ![i].out[c] = row, ![i].todo = @ \ {c},
                                    ![i].tries = 0, ![i].busy = {}]
              /\ UNCHANGED known
           \/ Repeat(i, {c})
        /\ UNCHANGED <<lag, puts>>

\* Mutant: a refused update is skipped, and the loop goes on.
RefusedAndSkipped(i, c) ==
    /\ AtAction(i, c)
    /\ inv[i].req.actions[c].edit.kind # "UNKNOWN"
    /\ ~VersionMatches(table[c], inv[i].req.actions[c])
    /\ inv' = [inv EXCEPT ![i].todo = @ \ {c}, ![i].tries = 0, ![i].busy = {}]
    /\ UNCHANGED <<table, lag, known, puts, stored, log>>

\* ConditionalCheckFailedException: nil, err for the whole request; the
\* updates made before it stay.
UpdateItemRefused(i, c) ==
    /\ AtAction(i, c)
    /\ inv[i].req.actions[c].edit.kind # "UNKNOWN"
    /\ ~VersionMatches(table[c], inv[i].req.actions[c])
    /\ Fail(i)
    /\ UNCHANGED <<table, lag, puts, stored, log>>

\* ErrUpdateCalendarsUnknownActionType.
UnknownActionType(i, c) ==
    /\ AtAction(i, c)
    /\ inv[i].req.actions[c].edit.kind = "UNKNOWN"
    /\ Fail(i)
    /\ UNCHANGED <<table, lag, puts, stored, log>>

\* handleUpdateCalendarsRequestInner answers with the ALL_NEW rows.
AnswerUpdate(i) ==
    /\ inv[i].pc = "write" /\ inv[i].todo = {}
    /\ Answer(i, inv[i].out)
    /\ UNCHANGED <<table, lag, puts, stored, log>>

-----------------------------------------------------------------------------
(* DeleteCalendar. *)

\* The unconditional DeleteItem; deleting a key that holds nothing succeeds.
DeleteItem(i) ==
    /\ inv[i].pc = "delete"
    /\ \E c \in inv[i].todo : table' = [table EXCEPT ![c] = Absent]
    /\ Answer(i, NoRows) \/ Repeat(i, {})
    /\ UNCHANGED <<lag, puts, stored, log>>

-----------------------------------------------------------------------------
(* ListCalendars. *)

PageLimit(req) ==
    IF req.maxResults > MaxResultsLimit \/ req.maxResults <= 0
    THEN MaxResultsLimit ELSE req.maxResults

Present == {c \in Cals : table[c] # Absent}

\* The first rows in key order, so many of them.
Page(size) == {c \in Present : Cardinality({d \in Present : d < c}) < size}

\* The strongly consistent Query.  Its page ends at the limit, or before it when
\* DynamoDB has read as many bytes as a page may hold.  The rows left out stay
\* unread: NextToken is nil from the start and never assigned.
Query(i) ==
    /\ inv[i].pc = "query"
    /\ \E size \in 1 .. PageLimit(inv[i].req) :
          Answer(i, [c \in Cals |-> IF c \in Page(size) THEN table[c] ELSE Absent])
    /\ UNCHANGED <<table, lag, puts, stored, log>>

-----------------------------------------------------------------------------
(* The environment. *)

Running(i) == ~Unused(i)

\* A DynamoDB, KMS or conversion error ends the handler; what the call did
\* may have been applied (PutItem, UpdateItem, DeleteItem repeated, then this).
ServiceError(i) ==
    /\ Running(i)
    /\ Fail(i)
    /\ UNCHANGED <<table, lag, puts, stored, log>>

\* The Lambda times out or dies: no response, and its memory is gone.
Crash(i) ==
    /\ Running(i)
    /\ inv' = [inv EXCEPT ![i] = Blank(NoRequest)]
    /\ UNCHANGED <<table, lag, known, puts, stored, log>>

\* The replica of one row catches up.
Replicate(c) ==
    /\ lag[c] # table[c]
    /\ lag' = [lag EXCEPT ![c] = table[c]]
    /\ UNCHANGED <<table, inv, known, puts, stored, log>>

-----------------------------------------------------------------------------

Init ==
    /\ table  = NoRows
    /\ lag    = NoRows
    /\ known  = [c \in Cals |-> {}]
    /\ puts   = [c \in Cals |-> 0]
    /\ stored = [c \in Cals |-> {}]
    /\ log    = {}
    /\ inv    = [i \in Invs |-> Blank(NoRequest)]

\* One step of a handler that is running.
Handler(i) ==
    \/ PutItem(i)
    \/ GetItem(i) \/ GetItemNotFound(i) \/ AnswerGet(i)
    \/ StartWriting(i) \/ AnswerUpdate(i)
    \/ \E c \in Cals : UpdateItem(i, c) \/ UpdateItemRefused(i, c) \/ UnknownActionType(i, c)
    \/ DeleteItem(i)
    \/ Query(i)
    \/ ServiceError(i)

Next ==
    \/ \E i \in Invs :
          \/ \E req \in Traffic : Begin(i, req) \/ RejectSession(i, req)
          \/ Handler(i)
          \/ Crash(i)
    \/ \E c \in Cals : Replicate(c)

Spec == Init /\ [][Next]_vars

\* A handler that was started goes on: Lambda runs it until it answers.
FairSpec == Spec /\ \A i \in Invs : WF_vars(Handler(i))

-----------------------------------------------------------------------------
(* Properties. *)

\* Every variable has its type.
TypeOK ==
    /\ table  \in [Cals -> OptRow]
    /\ lag    \in [Cals -> OptRow]
    /\ inv    \in [Invs -> Invocation]
    /\ known  \in [Cals -> SUBSET Versions]
    /\ puts   \in [Cals -> Nat]
    /\ stored \in [Cals -> SUBSET Row]
    /\ log    \subseteq Entry

SameWrite(r, s) == r.inc = s.inc /\ r.version = s.version

\* A version names one state of a calendar: two rows ever stored under a key
\* by the same PutItem and with the same version are the same row.  A client
\* holding (id, version) therefore knows what it edits, the point of the
\* "OCC version field".
VersionNamesRow ==
    \A c \in Cals : \A r, s \in stored[c] : SameWrite(r, s) => r = s

\* Optimistic concurrency: of all the updates sent from one version of a
\* calendar, by whichever invocations, with whatever retries, one at most
\* ever takes effect (per PutItem of the calendar).
OneWinnerPerVersion ==
    \A e, f \in log :
       (e.cal = f.cal /\ e.from = f.from /\ e.prev.inc = f.prev.inc) => e = f

\* Highlighted days are computed from the copy read earlier.  When that copy
\* has the version the update is conditioned on, the edit loses no day: it is
\* applied to the days of the row it replaces.
FreshReadKeepsDays ==
    \A e \in log : SameWrite(e.copy, e.prev) => e.row.days = NewDays(e.edit, e.prev.days)

\* Every row an invocation holds or answers with, and every row the lagging
\* replica shows, was once stored under that key: no answer mixes two states.
NoTornRows ==
    /\ \A c \in Cals : {table[c], lag[c]} \ {Absent} \subseteq stored[c]
    /\ \A i \in Invs, c \in Cals :
          {inv[i].read[c], inv[i].out[c]} \ {Absent} \subseteq stored[c]

Succeeded(i, op) == inv[i].pc = "done" /\ inv[i].outcome = "ok" /\ inv[i].req.op = op

\* The update of c by invocation i is in the log, as requested and as answered.
Logged(i, c) ==
    \E e \in log : /\ e.cal = c /\ e.row = inv[i].out[c]
                   /\ e.edit = inv[i].req.actions[c].edit
                   /\ e.from = inv[i].req.actions[c].existingVersion

\* UpdateCalendars answers success only when each action of the request was
\* stored: the row it answers is the one that action, from that version, left.
SuccessMeansStored ==
    \A i \in Invs : Succeeded(i, "update") =>
       \A c \in DOMAIN inv[i].req.actions : Logged(i, c)

\* No two invocations are both told that they made the same version.
NoSharedSuccess ==
    \A i, j \in Invs : \A c \in Cals :
       (/\ i # j /\ Succeeded(i, "update") /\ Succeeded(j, "update")
        /\ Absent \notin {inv[i].out[c], inv[j].out[c]})
       => ~SameWrite(inv[i].out[c], inv[j].out[c])

\* No false conflict: while a calendar is there, as its one PutItem began it,
\* an update is refused only when some update already took the version it
\* names (which may be this very UpdateItem, repeated by the SDK).
RefusalHasWinner ==
    \A i \in Invs : inv[i].pc = "write" =>
       \A c \in inv[i].todo :
          (/\ table[c] # Absent /\ puts[c] = 1
           /\ ~VersionMatches(table[c], inv[i].req.actions[c]))
          => \E e \in log : e.cal = c /\ e.from = inv[i].req.actions[c].existingVersion

\* A deleted calendar stays deleted whatever updates are still under way:
\* only a PutItem brings a row under a key that holds none.
UpdateNeverRecreates ==
    [][\A c \in Cals : (table[c] = Absent /\ table'[c] # Absent) => puts'[c] = puts[c] + 1]_vars

\* Every invocation ends, answered or not.
InvocationsEnd == \A i \in Invs : Running(i) ~> Unused(i)

-----------------------------------------------------------------------------
(* The inductive invariant behind them. *)

Loops(i) == inv[i].pc \in {"read", "write"} /\ inv[i].req.op = "update"

\* Where an invocation is says what its request is and what it has read.
PhaseOK(i) ==
    /\ inv[i].pc = "put" => inv[i].req.op = "create"
    /\ inv[i].pc = "read" => inv[i].req.op \in {"get", "update"} /\ inv[i].out = NoRows
    /\ inv[i].pc = "write" => inv[i].req.op = "update"
    /\ inv[i].pc = "delete" => inv[i].req.op = "delete"
    /\ inv[i].pc = "query" => inv[i].req.op = "list"
    /\ Loops(i) =>
          /\ inv[i].req \in UpdateRequests
          /\ inv[i].todo \subseteq DOMAIN inv[i].req.actions
          /\ \A c \in DOMAIN inv[i].req.actions :
                /\ inv[i].req.actions[c].existingVersion \in known[c]
                /\ inv[i].req.actions[c].existingVersion < MaxVersion
                /\ (inv[i].pc = "write" \/ c \notin inv[i].todo) => inv[i].read[c] # Absent

PhasesOK == \A i \in Invs : PhaseOK(i)

\* What clients know of a calendar was stored.
KnownStored ==
    \A c \in Cals, v \in Versions :
       v \in known[c] => \E r \in stored[c] : r.version = v

\* Rows belong to the PutItems made so far, and the row in the table is the
\* latest of the last PutItem.
TableIsNewest ==
    \A c \in Cals :
       /\ \A r \in stored[c] : 1 <= r.inc /\ r.inc <= puts[c]
       /\ table[c] # Absent =>
             /\ table[c].inc = puts[c]
             /\ \A r \in stored[c] : r.inc = puts[c] => r.version <= table[c].version

\* Each logged update led from one stored row to the next, with the days it
\* computed from a stored copy.
LogLinks ==
    \A e \in log :
       /\ {e.prev, e.copy, e.row} \subseteq stored[e.cal]
       /\ e.prev.version = e.from /\ e.row.version = e.from + 1 /\ e.row.inc = e.prev.inc
       /\ EditsDays(e.edit) => e.row.days = NewDays(e.edit, e.copy.days)
       /\ ~EditsDays(e.edit) => e.row.days = e.prev.days

\* No version is skipped: each was left by an update once a later one exists.
LogComplete ==
    \A c \in Cals : \A r \in stored[c], v \in Versions :
       v < r.version => \E e \in log : e.cal = c /\ e.from = v

\* The row in out[c] is that of an UpdateItem of this invocation.
Wrote(i, c) ==
    inv[i].out[c] # Absent /\ (inv[i].pc = "write" \/ Succeeded(i, "update"))

\* While a batch runs, what it has done is logged, and by it alone.
ProgressLogged ==
    /\ \A i \in Invs : inv[i].pc = "write" =>
          \A c \in DOMAIN inv[i].req.actions \ inv[i].todo : Logged(i, c)
    /\ \A i, j \in Invs : \A c \in Cals :
          (i # j /\ Wrote(i, c) /\ Wrote(j, c)) => ~SameWrite(inv[i].out[c], inv[j].out[c])

-----------------------------------------------------------------------------
(* What the proto's words would promise, and the code does not. *)

\* What the proto calls an "OCC version field" promises of highlighted days
\* too: an accepted edit is applied to the days of the version it names.
EditsApplyToNamedVersion ==
    \A e \in log : EditsDays(e.edit) => e.row.days = NewDays(e.edit, e.prev.days)

\* The same field across the whole life of a calendar, repeated PutItems
\* included: one accepted update from each version.
OneWinnerPerVersionEver ==
    \A e, f \in log : (e.cal = f.cal /\ e.from = f.from) => e = f

-----------------------------------------------------------------------------
(* The promise this implements, when no call is repeated. *)

\* A row without its history field.
Visible(row) ==
    IF row = Absent THEN Absent
    ELSE [name |-> row.name, color |-> row.color, version |-> row.version, days |-> row.days]

Promise == INSTANCE VersionedCalendars WITH
    cal <- [c \in Cals |-> Visible(table[c])],
    had <- [c \in Cals |-> {r.days : r \in stored[c]}]

\* The handlers, call by call and interleaved, implement VersionedCalendars.
ImplementsPromise == Promise!Spec
=============================================================================
