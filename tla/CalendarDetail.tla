--------------------------- MODULE CalendarDetail ---------------------------
(***************************************************************************)
(* The page of one calendar: taps on days become add- and                  *)
(* removeHighlightedDay requests (view/calendar_month_widget.dart,          *)
(* state/calendar_repository.dart, state/calendar_detail_model.dart),       *)
(* several at a time, through BackendClient, to a service that other        *)
(* devices use as well.                                                     *)
(*                                                                         *)
(* The service is CalendarBackend as one calendar sees it: an update is a   *)
(* conditional UpdateItem on the version, its days come from a GetItem that *)
(* may lag, and so do the rows the page downloads.  The calendar is created *)
(* once and not deleted.                                                    *)
(***************************************************************************)
EXTENDS BackendClient

CONSTANTS
    Days,
    MaxTaps,        \* bound: taps in all
    MaxOthers       \* bound: edits of other devices

ASSUME DetailAssumption == MaxTaps \in Nat /\ MaxOthers \in Nat

VARIABLES
    cloud,          \* the stored calendar: its version and highlighted days
    model,          \* the page's CalendarModel
    refreshing,     \* _refreshingDateTimes of the page's model
    here,           \* the slots whose sends were made from this page
    tapped,         \* number of taps so far
    others,         \* number of edits of other devices
    stored,         \* history: the rows the calendar has been stored with
    applied,        \* history: how often the service applied each tap
    told            \* history: the taps whose repository call succeeded

vars == <<send, wire, cloud, model, refreshing, here, tapped, others, stored, applied, told>>

Taps == 1 .. MaxTaps
Row == [version: Nat, days: SUBSET Days]

\* UpdateCalendarsRequest with its one action.
Request == [tap: Taps, add: BOOLEAN, day: Days, version: Nat]

Toggle(days, day, add) == IF add THEN days \cup {day} ELSE days \ {day}

\* Answers: the new row, or an exception once it is read, be it success=false
\* or the plain text of an HTTP 400, which is no UpdateCalendarsResponse.
Success(row) == [kind |-> "success", row |-> row]
Refusal == [kind |-> "refused"]
Successes == [kind: {"success"}, row: Row]

\* Nothing to send or to read is none of these.
ASSUME NothingAssumption ==
    NoPayload \notin Request /\ NoAnswer \notin {Refusal, ServerError} \cup Successes

-----------------------------------------------------------------------------
(* The service. *)

\* Mutant: the version is not compared.
AcceptsAll(m) == TRUE

Accepts(m) == m.payload.version = cloud.version

Answers(m, a) ==
    wire' = (wire \ {m}) \cup IF m.to = NoOne THEN {} ELSE {[m EXCEPT !.answer = a]}

Pending(m) == m \in wire /\ m.answer = NoAnswer

\* The calendar is stored with this row.
Stored(row) ==
    /\ cloud' = row
    /\ stored' = stored \cup {row}

\* The row an update leaves, its days those of the copy it read.
Edited(version, copy, day, add) ==
    [version |-> version + 1, days |-> Toggle(copy.days, day, add)]

\* Mutant: the answer is the row the write replaced (ALL_OLD).
ApplyAnsweringOld(m) ==
    /\ Pending(m) /\ Accepts(m)
    /\ \E copy \in stored :
          Stored(Edited(m.payload.version, copy, m.payload.day, m.payload.add))
    /\ applied' = [applied EXCEPT ![m.payload.tap] = @ + 1]
    /\ Answers(m, Success(cloud)) \/ Answers(m, Refusal) \/ Answers(m, ServerError)
    /\ UNCHANGED <<send, model, refreshing, here, tapped, others, told>>

\* The conditional UpdateItem takes effect and is answered with the row it
\* left (ReturnValues ALL_NEW).  The answer may become a 5xx; or the SDK makes
\* the call again, and its own write refuses it.
Apply(m) ==
    /\ Pending(m) /\ Accepts(m)
    /\ \E copy \in stored :
          Stored(Edited(m.payload.version, copy, m.payload.day, m.payload.add))
    /\ applied' = [applied EXCEPT ![m.payload.tap] = @ + 1]
    /\ Answers(m, Success(cloud')) \/ Answers(m, Refusal) \/ Answers(m, ServerError)
    /\ UNCHANGED <<send, model, refreshing, here, tapped, others, told>>

\* The version is another, the session is not valid, or a call failed.
Refuse(m) ==
    /\ Pending(m)
    /\ Answers(m, Refusal) \/ Answers(m, ServerError)
    /\ UNCHANGED <<send, cloud, model, refreshing, here, tapped, others, stored, applied, told>>

OtherDevice(d) ==
    /\ others < MaxOthers
    /\ others' = others + 1
    /\ \E add \in BOOLEAN, copy \in stored : Stored(Edited(cloud.version, copy, d, add))
    /\ UNCHANGED <<send, wire, model, refreshing, here, tapped, applied, told>>

-----------------------------------------------------------------------------
(* The page. *)

\* A tap on a day that is highlighted removes it, else adds it, with the
\* version the page has.
Tap(i, d) ==
    /\ tapped < MaxTaps
    /\ tapped' = tapped + 1
    /\ Send(i, [tap |-> tapped + 1, add |-> d \notin model.days, day |-> d, version |-> model.version])
    /\ refreshing' = refreshing \cup {d}
    /\ here' = here \cup {i}
    /\ UNCHANGED <<wire, cloud, model, others, stored, applied, told>>

\* The repository call ends, and its slot is free.
Ends(i) ==
    /\ send' = [send EXCEPT ![i] = Free]
    /\ here' = here \ {i}
    /\ UNCHANGED <<wire, cloud, tapped, others, stored, applied>>

Unmark(i) == refreshing' = IF i \in here THEN refreshing \ {send[i].payload.day} ELSE refreshing

\* setupUpdatedCalendarModels, then the mark is removed.
Succeeds(i) ==
    /\ send[i].phase = "answered" /\ send[i].answer # Refusal
    /\ model' = IF i \in here THEN send[i].answer.row ELSE model
    /\ told' = told \cup {send[i].payload.tap}
    /\ Unmark(i)
    /\ Ends(i)

\* Mutant: a refusal is not looked at.
RefusalTold(i) ==
    /\ send[i].phase = "answered" /\ send[i].answer = Refusal
    /\ told' = told \cup {send[i].payload.tap}
    /\ Unmark(i)
    /\ Ends(i)
    /\ UNCHANGED model

\* CouldNotDeserializeResponse-, CouldNotVerifySession- or
\* InternalServerErrorException: the mark is removed.
IsRefused(i) ==
    /\ send[i].phase = "answered" /\ send[i].answer = Refusal
    /\ Unmark(i)
    /\ Ends(i)
    /\ UNCHANGED <<model, told>>

\* BackendClientSendFailedException, which nobody catches: the mark stays.
SendFails(i) ==
    /\ send[i].phase = "failed"
    /\ Ends(i)
    /\ UNCHANGED <<model, refreshing, told>>

\* Mutant: the sends of the page before end on the new one.
OpenKeepingSends ==
    /\ model' \in stored
    /\ refreshing' = {}
    /\ UNCHANGED <<send, wire, cloud, here, tapped, others, stored, applied, told>>

\* The page is opened anew and downloads the calendar: a GetItem that may lag,
\* behind what the page showed before too.  Sends of the old page go on
\* without it.
Open ==
    /\ model' \in stored
    /\ refreshing' = {}
    /\ here' = {}
    /\ UNCHANGED <<send, wire, cloud, tapped, others, stored, applied, told>>

-----------------------------------------------------------------------------

Init ==
    /\ send = [i \in Slots |-> Free]
    /\ wire = {}
    /\ cloud = [version |-> 0, days |-> {}]
    /\ model = cloud
    /\ refreshing = {}
    /\ here = {}
    /\ tapped = 0 /\ others = 0
    /\ stored = {cloud}
    /\ applied = [t \in Taps |-> 0]
    /\ told = {}

PageStep(i) == Succeeds(i) \/ IsRefused(i) \/ SendFails(i)

\* The client alone moves.
ClientOnly == UNCHANGED <<cloud, model, refreshing, here, tapped, others, stored, applied, told>>

Next ==
    \/ \E i \in Slots : PageStep(i) \/ (ClientOnly /\ ClientStep(i)) \/ \E d \in Days : Tap(i, d)
    \/ \E m \in wire : Apply(m) \/ Refuse(m)
    \/ \E d \in Days : OtherDevice(d)
    \/ Open

Spec == Init /\ [][Next]_vars

\* Timers fire and callbacks run; no body need ever arrive.
FairSpec ==
    Spec /\ \A i \in Slots : WF_vars(PageStep(i) \/ (ClientOnly /\ Proceed(i)))

-----------------------------------------------------------------------------
(* Properties. *)

Message ==
    [to: Slots \cup {NoOne}, attempt: 0 .. maxRetryCount - 1, payload: Request,
     answer: {NoAnswer, Refusal, ServerError} \cup Successes]

\* Every variable has its type, and a send makes no more tries than it may.
TypeOK ==
    /\ send \in [Slots -> [phase: Phases, attempt: 0 .. maxRetryCount - 1,
                           payload: Request \cup {NoPayload}, broken: BOOLEAN,
                           answer: {NoAnswer, Refusal} \cup Successes]]
    /\ wire \subseteq Message
    /\ cloud \in Row /\ model \in Row /\ stored \subseteq Row
    /\ refreshing \subseteq Days /\ here \subseteq Slots
    /\ tapped \in Nat /\ others \in Nat
    /\ applied \in [Taps -> Nat] /\ told \subseteq Taps

\* However often a tap is sent, and whenever the service gets to it, it takes
\* effect once at most; and its call succeeds only if it did.  (It may have
\* taken effect and be refused, or fail.)
AppliedOnce == \A t \in Taps : applied[t] <= 1 /\ (t \in told => applied[t] = 1)

\* The page never runs ahead of the service, and has its days when it has its
\* version.
ModelFollowsCloud ==
    model.version <= cloud.version /\ (model.version = cloud.version => model.days = cloud.days)

\* While a page is open, answers in whatever order never take it back to an
\* older version.  (Opened again it may start from an older row: the download
\* lags.)
AnswersNeverGoBack ==
    [][Open \/ ( /\ model'.version >= model.version
                 /\ model'.version = model.version => model' = model)]_vars

\* A tap of the open page whose call succeeds leaves its day as it asked,
\* whatever copy the service edited and whatever answered in between.
SuccessShowsTap ==
    [][\A i \in Slots : Succeeds(i) /\ i \in here =>
          (send[i].payload.day \in model'.days <=> send[i].payload.add)]_vars

\* Every send ends, unless it waits for a body that never comes.
SendsEnd == \A i \in Slots : Busy(i) ~> (~Busy(i) \/ send[i].phase = "body")
=============================================================================
