---------------------------- MODULE BackendClient ----------------------------
(***************************************************************************)
(* The application's HTTP client, client/CustomHttpClient.dart: `send`      *)
(* tries a request up to maxRetryCount times, each try in the three awaits  *)
(* of `sendInternal` (connection, headers, body).  All sends share one      *)
(* HttpClient, and a try that fails by a timeout or an HTTP 5xx, like any   *)
(* last try, closes it with force: the tries of the other sends break.      *)
(*                                                                          *)
(* The network may lose a request or an answer at any moment, and deliver a *)
(* request that nobody waits for any more.  What a request says and what    *)
(* the service answers is left to the module that extends this one.         *)
(***************************************************************************)
EXTENDS Naturals

CONSTANTS
    Slots,          \* slots for concurrent sends
    NoOne,          \* the addressee of an answer nobody waits for
    NoPayload, NoAnswer,
    maxRetryCount   \* 3, CustomHttpClient.dart:27

ASSUME ClientAssumption ==
    /\ NoOne \notin Slots
    /\ maxRetryCount \in Nat \ {0}

VARIABLES
    send,   \* the sends, by slot
    wire    \* requests on their way, and answers on theirs back

client == <<send, wire>>

Free == [phase |-> "idle", attempt |-> 0, payload |-> NoPayload, broken |-> FALSE, answer |-> NoAnswer]

Phases == {"idle", "connect", "headers", "body", "delay", "answered", "failed"}

\* A try is under way.
Trying(i) == send[i].phase \in {"connect", "headers", "body"}

Busy(i) == send[i].phase # "idle"

\* An HTTP status of 500 to 599, whatever the service did.
ServerError == [kind |-> "5xx"]

-----------------------------------------------------------------------------

\* Nobody waits for the answers to these slots any more; the requests are out.
Cut(slots) ==
    {m \in wire : m.to \notin slots} \cup
    {[m EXCEPT !.to = NoOne] : m \in {n \in wire : n.to \in slots /\ n.answer = NoAnswer}}

\* Mutant: a last try that failed is tried again.
AttemptFailsAgain(i, closes) ==
    /\ send' = [send EXCEPT ![i] = [@ EXCEPT !.phase = "delay", !.broken = FALSE, !.answer = NoAnswer]]
    /\ wire' = Cut({i})

\* The catch clause of `send`.
AttemptFails(i, closes) ==
    LET last == send[i].attempt + 1 = maxRetryCount
        broken == IF closes \/ last THEN {j \in Slots \ {i} : Trying(j)} ELSE {}
    IN  /\ send' = [j \in Slots |->
              IF j = i THEN [send[i] EXCEPT !.phase = IF last THEN "failed" ELSE "delay",
                                            !.broken = FALSE, !.answer = NoAnswer]
              ELSE [send[j] EXCEPT !.broken = @ \/ j \in broken]]
        /\ wire' = Cut(broken \cup {i})

-----------------------------------------------------------------------------

\* A call of `send`, part of the caller's step.
Send(i, payload) ==
    /\ ~Busy(i)
    /\ send' = [send EXCEPT ![i] = [Free EXCEPT !.phase = "connect", !.payload = payload]]

\* The connection is there and the request goes out.
Connected(i) ==
    /\ send[i].phase = "connect" /\ ~send[i].broken
    /\ send' = [send EXCEPT ![i].phase = "headers"]
    /\ wire' = wire \cup {[to |-> i, attempt |-> send[i].attempt,
                           payload |-> send[i].payload, answer |-> NoAnswer]}

\* The headers of the answer: a 5xx is an exception, anything else has a body.
HeadersArrive(i) ==
    /\ send[i].phase = "headers" /\ ~send[i].broken
    /\ \E m \in wire :
          /\ m.to = i /\ m.answer # NoAnswer
          /\ IF m.answer = ServerError THEN AttemptFails(i, TRUE)
             ELSE /\ send' = [send EXCEPT ![i].phase = "body", ![i].answer = m.answer]
                  /\ wire' = wire \ {m}

BodyArrives(i) ==
    /\ send[i].phase = "body" /\ ~send[i].broken
    /\ send' = [send EXCEPT ![i].phase = "answered"]
    /\ UNCHANGED wire

\* Mutant: only the connection has a timeout.
ConnectionTimesOut(i) ==
    /\ send[i].phase = "connect" /\ ~send[i].broken
    /\ AttemptFails(i, TRUE)

\* connectionTimeout and operationTimeout; the body has none.
TimesOut(i) ==
    /\ send[i].phase \in {"connect", "headers"} /\ ~send[i].broken
    /\ AttemptFails(i, TRUE)

\* The connection ends: closed with the client, or by the network.
Breaks(i) == Trying(i) /\ AttemptFails(i, FALSE)

\* calculateRetryDuration has passed.
Retry(i) ==
    /\ send[i].phase = "delay"
    /\ send' = [send EXCEPT ![i].phase = "connect", ![i].attempt = @ + 1]
    /\ UNCHANGED wire

\* What the client does with time: everything but the wait for a body.
Proceed(i) ==
    \/ Connected(i) \/ HeadersArrive(i) \/ TimesOut(i) \/ Retry(i)
    \/ send[i].broken /\ Breaks(i)

ClientStep(i) == Proceed(i) \/ BodyArrives(i) \/ Breaks(i)
=============================================================================
