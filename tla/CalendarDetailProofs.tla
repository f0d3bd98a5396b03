------------------------ MODULE CalendarDetailProofs ------------------------
(***************************************************************************)
(* Theorems about CalendarDetail, for any number of slots, days, taps,     *)
(* edits of other devices and tries of a send.                             *)
(***************************************************************************)
EXTENDS CalendarDetail, TLAPS

-----------------------------------------------------------------------------
(* The inductive invariant. *)

\* What a send has in each phase, and a retry is still allowed after a delay.
PhasesOK ==
    \A i \in Slots :
       /\ IF send[i].phase \in {"body", "answered"} THEN send[i].answer # NoAnswer
          ELSE send[i].answer = NoAnswer
       /\ Busy(i) => send[i].payload \in Request
       /\ send[i].phase = "delay" => send[i].attempt + 1 < maxRetryCount

\* Only a send that waits for headers is written to, once, about what it asked.
WireOK ==
    \A m \in wire : m.to \in Slots =>
       /\ send[m.to].phase = "headers" /\ send[m.to].payload = m.payload
       /\ \A n \in wire : n.to = m.to => n = m

\* The requests somebody may still send, or the service may still get.
Requested == {send[i].payload : i \in {j \in Slots : Busy(j)}} \cup {m.payload : m \in wire}

\* All copies of a tap's request are the same, and no request precedes its tap.
RequestsOK ==
    /\ \A p, q \in Requested : p.tap = q.tap => p = q
    /\ \A p \in Requested : p.tap <= tapped
    /\ \A t \in Taps : t > tapped => applied[t] = 0

\* A tap takes effect once, because the version its request names is then past.
EffectsOK ==
    /\ \A t \in Taps : applied[t] <= 1
    /\ \A p \in Requested : applied[p.tap] = 1 => p.version < cloud.version
    /\ \A t \in told : applied[t] = 1

\* No row is ahead of the stored one, nor another of its version.
Follows(row) == row.version <= cloud.version /\ (row.version = cloud.version => row.days = cloud.days)

\* Nor is any that a read may return.
StoredOK == \A row \in stored : Follows(row)

\* A success is the row that the request's effect left, past or present, the
\* day as the request asked.
Earned(p, row) ==
    /\ applied[p.tap] = 1 /\ row.version = p.version + 1 /\ Follows(row)
    /\ p.day \in row.days <=> p.add

SuccessesOK ==
    /\ \A i \in Slots : send[i].answer \in Successes => Earned(send[i].payload, send[i].answer.row)
    /\ \A m \in wire : m.answer \in Successes => Earned(m.payload, m.answer.row)

\* A success with this row is on its way to slot i.
Delivers(i, row) ==
    \/ send[i].answer = Success(row)
    \/ \E m \in wire : m.to = i /\ m.answer = Success(row)

\* No send of this page named a version the page has not, a success still to
\* come is news to the page, and there is one at most.
HereOK ==
    /\ \A i \in here : Busy(i) /\ send[i].payload.version <= model.version
    /\ \A i \in here : \A row \in Row : Delivers(i, row) => row.version > model.version
    /\ \A i, j \in here : \A row, other \in Row : (Delivers(i, row) /\ Delivers(j, other)) => i = j

IInv ==
    /\ TypeOK /\ PhasesOK /\ WireOK /\ RequestsOK /\ EffectsOK /\ SuccessesOK /\ HereOK
    /\ StoredOK /\ ModelFollowsCloud

-----------------------------------------------------------------------------
(* The client. *)

Answer == {NoAnswer, Refusal, ServerError} \cup Successes

SendRecord ==
    [phase: Phases, attempt: 0 .. maxRetryCount - 1, payload: Request \cup {NoPayload},
     broken: BOOLEAN, answer: {NoAnswer, Refusal} \cup Successes]

\* What BackendClient's variables have to satisfy by themselves.
ClientOK == send \in [Slots -> SendRecord] /\ wire \subseteq Message /\ PhasesOK /\ WireOK

LEMMA ClientOfIInv == IInv => ClientOK
BY DEF IInv, TypeOK, ClientOK, SendRecord

\* Successes are records of their own kind, with a row.
LEMMA SuccessShape ==
    /\ \A row \in Row : Success(row) \in Successes /\ Success(row).row = row
    /\ \A a \in Successes : a.row \in Row /\ a = Success(a.row)
    /\ Refusal \notin Successes /\ ServerError \notin Successes /\ NoAnswer \notin Successes
    /\ Refusal # ServerError /\ Refusal # NoAnswer /\ ServerError # NoAnswer
BY NothingAssumption DEF Success, Successes, Refusal, ServerError

\* What a step of the client may change: it invents neither payloads nor answers.
Harmless ==
    /\ \A j \in Slots : Busy(j)' => Busy(j) /\ send'[j].payload = send[j].payload
    /\ \A n \in wire' : n.payload \in Requested /\ (n.answer \in Successes => n \in wire)
    /\ \A j \in Slots : send'[j].answer \in Successes =>
          \/ send[j].answer = send'[j].answer
          \/ \E m \in wire : m.to = j /\ m.answer = send'[j].answer

\* The messages that are left when slots are cut off.
LEMMA CutMessages ==
    ASSUME wire \subseteq Message, NEW slots \in SUBSET Slots
    PROVE  /\ Cut(slots) \subseteq Message
           /\ \A n \in Cut(slots) : n.to \notin slots
           /\ \A n \in Cut(slots) : n \in wire \/ (n.to = NoOne /\ n.answer = NoAnswer /\
                                                  \E m \in wire : n.payload = m.payload)
<1>1. ASSUME NEW m \in wire
      PROVE  [m EXCEPT !.to = NoOne] \in Message /\ [m EXCEPT !.to = NoOne].to = NoOne
             /\ [m EXCEPT !.to = NoOne].payload = m.payload /\ [m EXCEPT !.to = NoOne].answer = m.answer
  BY DEF Message
<1>2. NoOne \notin slots
  BY ClientAssumption
<1> QED BY <1>1, <1>2 DEF Cut

\* The catch clause keeps the client's invariant.
LEMMA CatchKeeps ==
    ASSUME ClientOK, NEW i \in Slots, NEW closes \in BOOLEAN, Trying(i), AttemptFails(i, closes)
    PROVE  ClientOK' /\ Harmless
<1> DEFINE last == send[i].attempt + 1 = maxRetryCount
           broken == IF closes \/ last THEN {j \in Slots \ {i} : Trying(j)} ELSE {}
           mine == [send[i] EXCEPT !.phase = IF last THEN "failed" ELSE "delay",
                                   !.broken = FALSE, !.answer = NoAnswer]
<1>0. send[i] \in SendRecord /\ maxRetryCount \in Nat \ {0} /\ \A j \in Slots : send[j] \in SendRecord
  BY ClientAssumption DEF ClientOK
<1>1. send' = [j \in Slots |-> IF j = i THEN mine
                              ELSE [send[j] EXCEPT !.broken = @ \/ j \in broken]]
      /\ wire' = Cut(broken \cup {i})
  BY DEF AttemptFails
<1>2. mine \in SendRecord /\ mine.payload = send[i].payload /\ mine.answer = NoAnswer
      /\ mine.phase \in {"failed", "delay"} /\ mine.attempt = send[i].attempt
  BY <1>0 DEF SendRecord, Phases
<1>3. mine.phase = "delay" => mine.attempt + 1 < maxRetryCount
  <2>1. send[i].attempt \in 0 .. maxRetryCount - 1
    BY <1>0 DEF SendRecord
  <2>2. mine.phase = "delay" => send[i].attempt + 1 # maxRetryCount
    BY <1>0 DEF SendRecord
  <2> HIDE DEF mine
  <2> QED BY <1>0, <1>2, <2>1, <2>2
<1>4. broken \in SUBSET Slots
  OBVIOUS
<1> HIDE DEF mine, broken
<1>5. ASSUME NEW j \in Slots \ {i}
      PROVE  send'[j] = [send[j] EXCEPT !.broken = send[j].broken \/ j \in broken]
             /\ send'[j] \in SendRecord
             /\ send'[j].phase = send[j].phase /\ send'[j].payload = send[j].payload
             /\ send'[j].answer = send[j].answer /\ send'[j].attempt = send[j].attempt
  <2>1. send'[j] = [send[j] EXCEPT !.broken = send[j].broken \/ j \in broken]
    BY <1>1
  <2>2. (send[j].broken \/ j \in broken) \in BOOLEAN
    BY <1>0 DEF SendRecord
  <2> QED BY <1>0, <2>1 DEF SendRecord
<1>6. send'[i] = mine
  BY <1>1
<1>7. send' \in [Slots -> SendRecord]
  BY <1>1, <1>2, <1>5, <1>6
<1>8. /\ wire' \subseteq Message
      /\ \A n \in wire' : n.to # i
      /\ \A n \in wire' : n \in wire \/ (n.to = NoOne /\ n.answer = NoAnswer /\
                                         \E m \in wire : n.payload = m.payload)
  BY <1>1, <1>4, CutMessages DEF ClientOK
<1>9. PhasesOK'
  <2> SUFFICES ASSUME NEW j \in Slots
               PROVE  /\ IF send'[j].phase \in {"body", "answered"} THEN send'[j].answer # NoAnswer
                         ELSE send'[j].answer = NoAnswer
                      /\ send'[j].phase # "idle" => send'[j].payload \in Request
                      /\ send'[j].phase = "delay" => send'[j].attempt + 1 < maxRetryCount
    BY DEF PhasesOK, Busy
  <2>1. CASE j = i
    BY <1>2, <1>3, <1>6, <2>1 DEF ClientOK, PhasesOK, Busy, Trying
  <2>2. CASE j # i
    BY <1>5, <2>2 DEF ClientOK, PhasesOK, Busy
  <2> QED BY <2>1, <2>2
<1>10. WireOK'
  <2> SUFFICES ASSUME NEW n \in wire', n.to \in Slots
               PROVE  /\ send'[n.to].phase = "headers" /\ send'[n.to].payload = n.payload
                      /\ \A o \in wire' : o.to = n.to => o = n
    BY DEF WireOK
  <2>1. n \in wire /\ n.to # i
    BY <1>8, ClientAssumption
  <2>2. \A o \in wire' : o.to = n.to => o \in wire
    BY <1>8, ClientAssumption
  <2> QED BY <1>5, <2>1, <2>2 DEF ClientOK, WireOK
<1>11. Harmless
  <2>0. Busy(i)
    BY DEF Trying, Busy
  <2>1. \A n \in wire' : n.payload \in Requested /\ (n.answer \in Successes => n \in wire)
    BY <1>8, SuccessShape DEF Requested
  <2>2. \A j \in Slots : Busy(j)' => Busy(j) /\ send'[j].payload = send[j].payload
    BY <1>2, <1>5, <1>6, <2>0 DEF Busy
  <2>3. \A j \in Slots : send'[j].answer \in Successes => send[j].answer = send'[j].answer
    BY <1>2, <1>5, <1>6, SuccessShape
  <2> QED BY <2>1, <2>2, <2>3 DEF Harmless
<1> QED BY <1>7, <1>8, <1>9, <1>10, <1>11 DEF ClientOK

\* A step that changes slot i alone, and leaves what it asked.
LEMMA OneSlot ==
    ASSUME ClientOK, NEW i \in Slots, NEW rec \in SendRecord, send' = [send EXCEPT ![i] = rec],
           rec.payload = send[i].payload, rec.phase # "idle", send[i].phase # "idle",
           IF rec.phase \in {"body", "answered"} THEN rec.answer # NoAnswer ELSE rec.answer = NoAnswer,
           rec.phase # "delay"
    PROVE  /\ send' \in [Slots -> SendRecord] /\ PhasesOK'
           /\ send'[i] = rec /\ \A j \in Slots \ {i} : send'[j] = send[j]
           /\ \A j \in Slots : (send'[j].phase = "idle" <=> send[j].phase = "idle")
                             /\ send'[j].payload = send[j].payload
<1>1. send'[i] = rec /\ \A j \in Slots \ {i} : send'[j] = send[j]
  BY DEF ClientOK
<1>2. send' \in [Slots -> SendRecord]
  BY DEF ClientOK
<1>3. PhasesOK'
  <2> SUFFICES ASSUME NEW j \in Slots
               PROVE  /\ IF send'[j].phase \in {"body", "answered"} THEN send'[j].answer # NoAnswer
                         ELSE send'[j].answer = NoAnswer
                      /\ send'[j].phase # "idle" => send'[j].payload \in Request
                      /\ send'[j].phase = "delay" => send'[j].attempt + 1 < maxRetryCount
    BY DEF PhasesOK, Busy
  <2> QED BY <1>1 DEF ClientOK, PhasesOK, Busy
<1> QED BY <1>1, <1>2, <1>3

LEMMA ConnectedKeeps ==
    ASSUME ClientOK, NEW i \in Slots, Connected(i)
    PROVE  ClientOK' /\ Harmless
<1> DEFINE rec == [send[i] EXCEPT !.phase = "headers"]
           new == [to |-> i, attempt |-> send[i].attempt, payload |-> send[i].payload, answer |-> NoAnswer]
<1>0. send[i] \in SendRecord /\ send[i].phase = "connect" /\ send[i].payload \in Request
      /\ send[i].answer = NoAnswer
  BY DEF ClientOK, PhasesOK, Busy, Connected
<1>1. rec \in SendRecord /\ rec.payload = send[i].payload /\ rec.phase = "headers" /\ rec.answer = NoAnswer
  BY <1>0 DEF SendRecord, Phases
<1>2. new \in Message /\ new.to = i /\ new.payload = send[i].payload /\ new.answer = NoAnswer
  BY <1>0 DEF SendRecord, Message
<1>3. send' = [send EXCEPT ![i] = rec] /\ wire' = wire \cup {new}
  BY DEF Connected
<1> HIDE DEF rec, new
<1>4. /\ send' \in [Slots -> SendRecord] /\ PhasesOK'
      /\ send'[i] = rec /\ \A j \in Slots \ {i} : send'[j] = send[j]
      /\ \A j \in Slots : (send'[j].phase = "idle" <=> send[j].phase = "idle")
                        /\ send'[j].payload = send[j].payload
  BY <1>0, <1>1, <1>3, OneSlot
<1>5. wire' \subseteq Message
  BY <1>2, <1>3 DEF ClientOK
<1>6. WireOK'
  <2> SUFFICES ASSUME NEW n \in wire', n.to \in Slots
               PROVE  /\ send'[n.to].phase = "headers" /\ send'[n.to].payload = n.payload
                      /\ \A o \in wire' : o.to = n.to => o = n
    BY DEF WireOK
  <2>0. \A o \in wire : o.to # i
    BY <1>0 DEF ClientOK, WireOK
  <2>1. CASE n = new
    BY <1>1, <1>2, <1>3, <1>4, <2>0, <2>1
  <2>2. CASE n \in wire
    BY <1>0, <1>2, <1>3, <1>4, <2>0, <2>2 DEF ClientOK, WireOK
  <2> QED BY <1>3, <2>1, <2>2
<1>7. Harmless
  <2>1. \A n \in wire' : n.payload \in Requested /\ (n.answer \in Successes => n \in wire)
    BY <1>0, <1>2, <1>3, SuccessShape DEF Requested, Busy
  <2>2. \A j \in Slots : send'[j].answer \in Successes => send[j].answer = send'[j].answer
    BY <1>1, <1>4, SuccessShape
  <2> QED BY <1>4, <2>1, <2>2 DEF Harmless, Busy
<1> QED BY <1>4, <1>5, <1>6, <1>7 DEF ClientOK

\* Headers other than a 5xx: the answer is on its way.
LEMMA HeadersKeep ==
    ASSUME ClientOK, NEW i \in Slots, send[i].phase = "headers", NEW m \in wire, m.to = i,
           m.answer # NoAnswer, m.answer # ServerError,
           send' = [send EXCEPT ![i].phase = "body", ![i].answer = m.answer], wire' = wire \ {m}
    PROVE  ClientOK' /\ Harmless
<1> DEFINE rec == [send[i] EXCEPT !.phase = "body", !.answer = m.answer]
<1>0. send[i] \in SendRecord /\ m \in Message
  BY DEF ClientOK
<1>1. rec \in SendRecord /\ rec.payload = send[i].payload /\ rec.phase = "body" /\ rec.answer = m.answer
  BY <1>0 DEF SendRecord, Phases, Message
<1>2. send' = [send EXCEPT ![i] = rec]
  BY DEF ClientOK
<1> HIDE DEF rec
<1>4. /\ send' \in [Slots -> SendRecord] /\ PhasesOK'
      /\ send'[i] = rec /\ \A j \in Slots \ {i} : send'[j] = send[j]
      /\ \A j \in Slots : (send'[j].phase = "idle" <=> send[j].phase = "idle")
                        /\ send'[j].payload = send[j].payload
  BY <1>1, <1>2, OneSlot
<1>5. wire' \subseteq wire /\ \A n \in wire' : n.to # i
  BY DEF ClientOK, WireOK
<1>6. WireOK'
  BY <1>4, <1>5 DEF ClientOK, WireOK
<1>7. Harmless
  <2>1. \A n \in wire' : n.payload \in Requested /\ (n.answer \in Successes => n \in wire)
    BY <1>5 DEF Requested
  <2>2. \A j \in Slots : send'[j].answer \in Successes =>
            send[j].answer = send'[j].answer \/ (m.to = j /\ m.answer = send'[j].answer)
    BY <1>1, <1>4
  <2> QED BY <1>4, <2>1, <2>2 DEF Harmless, Busy
<1> QED BY <1>4, <1>5, <1>6, <1>7 DEF ClientOK

LEMMA BodyKeeps ==
    ASSUME ClientOK, NEW i \in Slots, BodyArrives(i)
    PROVE  ClientOK' /\ Harmless
<1> DEFINE rec == [send[i] EXCEPT !.phase = "answered"]
<1>0. send[i] \in SendRecord /\ send[i].phase = "body" /\ send[i].answer # NoAnswer
  BY DEF ClientOK, PhasesOK, BodyArrives
<1>1. rec \in SendRecord /\ rec.payload = send[i].payload /\ rec.phase = "answered"
      /\ rec.answer = send[i].answer
  BY <1>0 DEF SendRecord, Phases
<1>2. send' = [send EXCEPT ![i] = rec] /\ wire' = wire
  BY DEF BodyArrives
<1> HIDE DEF rec
<1>4. /\ send' \in [Slots -> SendRecord] /\ PhasesOK'
      /\ send'[i] = rec /\ \A j \in Slots \ {i} : send'[j] = send[j]
      /\ \A j \in Slots : (send'[j].phase = "idle" <=> send[j].phase = "idle")
                        /\ send'[j].payload = send[j].payload
  BY <1>0, <1>1, <1>2, OneSlot
<1>6. WireOK'
  BY <1>0, <1>2, <1>4 DEF ClientOK, WireOK
<1>7. Harmless
  BY <1>1, <1>2, <1>4 DEF Harmless, Requested, Busy
<1> QED BY <1>2, <1>4, <1>6, <1>7 DEF ClientOK

LEMMA RetryKeeps ==
    ASSUME ClientOK, NEW i \in Slots, Retry(i)
    PROVE  ClientOK' /\ Harmless
<1> DEFINE rec == [send[i] EXCEPT !.phase = "connect", !.attempt = send[i].attempt + 1]
<1>0. send[i] \in SendRecord /\ send[i].phase = "delay" /\ send[i].answer = NoAnswer
      /\ send[i].attempt + 1 < maxRetryCount /\ maxRetryCount \in Nat
  BY ClientAssumption DEF ClientOK, PhasesOK, Retry
<1>1. rec \in SendRecord /\ rec.payload = send[i].payload /\ rec.phase = "connect"
      /\ rec.answer = send[i].answer
  <2>1. send[i].attempt + 1 \in 0 .. maxRetryCount - 1
    BY <1>0 DEF SendRecord
  <2> QED BY <1>0, <2>1 DEF SendRecord, Phases
<1>2. send' = [send EXCEPT ![i] = rec] /\ wire' = wire
  BY DEF ClientOK, Retry
<1> HIDE DEF rec
<1>4. /\ send' \in [Slots -> SendRecord] /\ PhasesOK'
      /\ send'[i] = rec /\ \A j \in Slots \ {i} : send'[j] = send[j]
      /\ \A j \in Slots : (send'[j].phase = "idle" <=> send[j].phase = "idle")
                        /\ send'[j].payload = send[j].payload
  BY <1>0, <1>1, <1>2, OneSlot
<1>6. WireOK'
  BY <1>0, <1>2, <1>4 DEF ClientOK, WireOK
<1>7. Harmless
  BY <1>1, <1>2, <1>4 DEF Harmless, Requested, Busy
<1> QED BY <1>2, <1>4, <1>6, <1>7 DEF ClientOK

\* No step of the client breaks its invariant or does harm.
LEMMA ClientKeeps ==
    ASSUME ClientOK, NEW i \in Slots, ClientStep(i)
    PROVE  ClientOK' /\ Harmless
<1>1. CASE Connected(i)
  BY <1>1, ConnectedKeeps
<1>2. CASE HeadersArrive(i)
  <2>1. Trying(i)
    BY <1>2 DEF HeadersArrive, Trying
  <2>2. PICK m \in wire : /\ m.to = i /\ m.answer # NoAnswer
                          /\ IF m.answer = ServerError THEN AttemptFails(i, TRUE)
                             ELSE /\ send' = [send EXCEPT ![i].phase = "body", ![i].answer = m.answer]
                                  /\ wire' = wire \ {m}
    BY <1>2 DEF HeadersArrive
  <2>3. CASE m.answer = ServerError
    BY <2>1, <2>2, <2>3, CatchKeeps
  <2>4. CASE m.answer # ServerError
    BY <1>2, <2>2, <2>4, HeadersKeep DEF HeadersArrive
  <2> QED BY <2>3, <2>4
<1>3. CASE TimesOut(i)
  BY <1>3, CatchKeeps DEF TimesOut, Trying
<1>4. CASE Retry(i)
  BY <1>4, RetryKeeps
<1>5. CASE Breaks(i)
  BY <1>5, CatchKeeps DEF Breaks
<1>6. CASE BodyArrives(i)
  BY <1>6, BodyKeeps
<1> QED BY <1>1, <1>2, <1>3, <1>4, <1>5, <1>6 DEF ClientStep, Proceed

\* Nor does it end a send, or begin one.
LEMMA ClientKeepsBusy ==
    ASSUME ClientOK, NEW i \in Slots, ClientStep(i)
    PROVE  \A j \in Slots : Busy(j)' <=> Busy(j)
<1>1. ASSUME NEW closes \in BOOLEAN, Trying(i), AttemptFails(i, closes)
      PROVE  \A j \in Slots : Busy(j)' <=> Busy(j)
  <2>1. \A j \in Slots \ {i} : send'[j].phase = send[j].phase
    BY <1>1 DEF AttemptFails, ClientOK, SendRecord
  <2>2. send'[i].phase \in {"failed", "delay"}
    BY <1>1 DEF AttemptFails, ClientOK, SendRecord
  <2> QED BY <1>1, <2>1, <2>2 DEF Trying, Busy
<1>2. ASSUME NEW phase \in {"connect", "headers", "body", "answered"}, send[i].phase # "idle",
             send'[i].phase = phase, \A j \in Slots \ {i} : send'[j] = send[j]
      PROVE  \A j \in Slots : Busy(j)' <=> Busy(j)
  BY <1>2 DEF Busy
<1>3. CASE Connected(i)
  BY <1>2, <1>3 DEF Connected, ClientOK, SendRecord
<1>4. CASE HeadersArrive(i)
  <2>1. CASE AttemptFails(i, TRUE)
    BY <1>1, <1>4, <2>1 DEF HeadersArrive, Trying
  <2>2. CASE \E a : send' = [send EXCEPT ![i].phase = "body", ![i].answer = a]
    BY <1>2, <1>4, <2>2 DEF HeadersArrive, ClientOK, SendRecord
  <2> QED BY <1>4, <2>1, <2>2 DEF HeadersArrive
<1>5. CASE TimesOut(i)
  BY <1>1, <1>5 DEF TimesOut, Trying
<1>6. CASE Retry(i)
  BY <1>2, <1>6 DEF Retry, ClientOK, SendRecord
<1>7. CASE Breaks(i)
  BY <1>1, <1>7 DEF Breaks
<1>8. CASE BodyArrives(i)
  BY <1>2, <1>8 DEF BodyArrives, ClientOK, SendRecord
<1> QED BY <1>3, <1>4, <1>5, <1>6, <1>7, <1>8 DEF ClientStep, Proceed

-----------------------------------------------------------------------------
(* What the page and the service rely on. *)

DataOK == RequestsOK /\ EffectsOK /\ SuccessesOK /\ HereOK /\ StoredOK /\ ModelFollowsCloud

\* TypeOK without the client's variables.
PageTypes ==
    /\ cloud \in Row /\ model \in Row /\ stored \subseteq Row
    /\ refreshing \subseteq Days /\ here \subseteq Slots
    /\ tapped \in Nat /\ others \in Nat
    /\ applied \in [Taps -> Nat] /\ told \subseteq Taps

LEMMA Parts == IInv <=> (ClientOK /\ PageTypes /\ DataOK)
BY DEF IInv, TypeOK, ClientOK, SendRecord, PageTypes, DataOK

\* Requests are requests.
LEMMA RequestedType == ClientOK => Requested \subseteq Request
BY DEF ClientOK, PhasesOK, Requested, Message

\* A step that is harmless on the client's side, frees slots at most and leaves
\* the page no older than its sends and older than what is still to come, keeps
\* everything.
LEMMA PageKeeps ==
    ASSUME ClientOK, ClientOK', PageTypes, PageTypes', DataOK, Harmless,
           here' \subseteq here, \A i \in here' : Busy(i)',
           \A t \in told' : applied[t] = 1,
           ModelFollowsCloud', \A i \in here' : model.version <= model'.version,
           \A i \in here' : \A row \in Row : Delivers(i, row) => row.version > model'.version,
           UNCHANGED <<cloud, tapped, stored, applied>>
    PROVE  DataOK'
<1>1. Requested' \subseteq Requested
  BY DEF Harmless, Requested
<1>2. RequestsOK'
  BY <1>1 DEF DataOK, RequestsOK
<1>3. EffectsOK'
  BY <1>1 DEF DataOK, EffectsOK
<1>4. \A p, row : Earned(p, row)' <=> Earned(p, row)
  BY DEF Earned, Follows
<1>5. SuccessesOK'
  <2>1. ASSUME NEW m \in wire', m.answer \in Successes
        PROVE  Earned(m.payload, m.answer.row)
    BY <2>1 DEF Harmless, DataOK, SuccessesOK
  <2>2. ASSUME NEW i \in Slots, send'[i].answer \in Successes
        PROVE  Earned(send'[i].payload, send'[i].answer.row)
    <3>0. send'[i].payload = send[i].payload
      BY <2>2, SuccessShape DEF Harmless, ClientOK, PhasesOK, Busy
    <3>1. CASE send[i].answer = send'[i].answer
      BY <2>2, <3>0, <3>1 DEF DataOK, SuccessesOK
    <3>2. CASE \E m \in wire : m.to = i /\ m.answer = send'[i].answer
      BY <2>2, <3>0, <3>2 DEF DataOK, SuccessesOK, ClientOK, WireOK
    <3> QED BY <2>2, <3>1, <3>2 DEF Harmless
  <2> QED BY <1>4, <2>1, <2>2 DEF SuccessesOK
<1>6. ASSUME NEW i \in Slots, NEW row \in Row, Delivers(i, row)' PROVE Delivers(i, row)
  <2>1. CASE send'[i].answer = Success(row)
    BY <2>1, SuccessShape DEF Harmless, Delivers
  <2>2. CASE \E m \in wire' : m.to = i /\ m.answer = Success(row)
    BY <2>2, SuccessShape DEF Harmless, Delivers
  <2> QED BY <1>6, <2>1, <2>2 DEF Delivers
<1>7. HereOK'
  <2>1. \A i \in here' : i \in Slots /\ i \in here
    BY DEF PageTypes
  <2>2. ASSUME NEW i \in here' PROVE Busy(i)' /\ send'[i].payload.version <= model'.version
    <3>1. send'[i].payload = send[i].payload /\ send[i].payload.version <= model.version
      BY <2>1, <2>2 DEF Harmless, DataOK, HereOK
    <3>2. send[i].payload.version \in Nat
      BY <2>1, <2>2 DEF DataOK, HereOK, ClientOK, PhasesOK, Request
    <3>3. model.version \in Nat /\ model'.version \in Nat
      BY DEF PageTypes, Row
    <3>4. model.version <= model'.version
      BY <2>2
    <3> QED BY <2>2, <3>1, <3>2, <3>3, <3>4
  <2>3. \A i \in here' : \A row \in Row : Delivers(i, row)' => row.version > model'.version
    BY <1>6, <2>1
  <2>4. \A i, j \in here' : \A row, other \in Row : (Delivers(i, row)' /\ Delivers(j, other)') => i = j
    BY <1>6, <2>1 DEF DataOK, HereOK
  <2> QED BY <2>2, <2>3, <2>4 DEF HereOK
<1>8. StoredOK'
  BY DEF DataOK, StoredOK, Follows
<1> QED BY <1>2, <1>3, <1>5, <1>7, <1>8 DEF DataOK

\* In particular when it moves nothing but the client.
LEMMA HarmlessKeeps ==
    ASSUME ClientOK, ClientOK', PageTypes, PageTypes', DataOK, Harmless,
           here' \subseteq here, \A i \in here' : Busy(i)',
           UNCHANGED <<cloud, model, tapped, stored, applied, told>>
    PROVE  DataOK'
<1>1. model.version <= model'.version /\ ModelFollowsCloud'
  BY DEF PageTypes, Row, DataOK, ModelFollowsCloud
<1>2. \A t \in told' : applied[t] = 1
  BY DEF DataOK, EffectsOK
<1>3. \A i \in here' : \A row \in Row : Delivers(i, row) => row.version > model'.version
  BY DEF DataOK, HereOK
<1> QED BY <1>1, <1>2, <1>3, PageKeeps

LEMMA PartsNext == (ClientOK' /\ PageTypes' /\ DataOK') => IInv'
BY DEF IInv, TypeOK, ClientOK, SendRecord, PageTypes, DataOK

LEMMA ClientOnlyKeeps ==
    ASSUME IInv, NEW i \in Slots, ClientStep(i), ClientOnly
    PROVE  IInv'
<1>1. ClientOK /\ PageTypes /\ DataOK
  BY Parts
<1>2. ClientOK' /\ Harmless
  BY <1>1, ClientKeeps DEF ClientOnly
<1>3. PageTypes'
  BY <1>1 DEF PageTypes, ClientOnly
<1>4. \A j \in Slots : Busy(j)' <=> Busy(j)
  BY <1>1, ClientKeepsBusy DEF ClientOnly
<1>5. \A j \in here' : Busy(j)'
  BY <1>1, <1>4 DEF ClientOnly, PageTypes, DataOK, HereOK
<1>6. DataOK'
  BY <1>1, <1>2, <1>3, <1>5, HarmlessKeeps DEF ClientOnly
<1> QED BY <1>2, <1>3, <1>6, PartsNext

-----------------------------------------------------------------------------
(* The service. *)

\* An answer goes to the one who waits for it, if anyone does.
LEMMA AnswersEffect ==
    ASSUME ClientOK, NEW m \in wire, Pending(m), NEW a \in {Refusal, ServerError} \cup Successes,
           Answers(m, a), send' = send
    PROVE  /\ ClientOK'
           /\ \A n \in wire' : n \in wire \/ (n.to = m.to /\ n.payload = m.payload /\ n.answer = a)
<1> DEFINE new == [m EXCEPT !.answer = a]
<1>1. new \in Message /\ new.to = m.to /\ new.payload = m.payload /\ new.answer = a
  BY DEF ClientOK, Message
<1>2. wire' \subseteq (wire \ {m}) \cup {new}
  BY DEF Answers
<1> HIDE DEF new
<1>3. wire' \subseteq Message
  BY <1>1, <1>2 DEF ClientOK
<1>4. WireOK'
  BY <1>1, <1>2 DEF ClientOK, WireOK
<1>5. PhasesOK'
  BY DEF ClientOK, PhasesOK, Busy
<1> QED BY <1>1, <1>2, <1>3, <1>4, <1>5 DEF ClientOK

LEMMA RefuseKeeps ==
    ASSUME IInv, NEW m \in wire, Refuse(m)
    PROVE  IInv'
<1>1. ClientOK /\ PageTypes /\ DataOK
  BY Parts
<1>2. PICK a \in {Refusal, ServerError} : Answers(m, a)
  BY DEF Refuse
<1>3. Pending(m) /\ send' = send
  BY DEF Refuse
<1>4. /\ ClientOK'
      /\ \A n \in wire' : n \in wire \/ (n.to = m.to /\ n.payload = m.payload /\ n.answer = a)
  BY <1>1, <1>2, <1>3, AnswersEffect
<1>5. Harmless
  BY <1>2, <1>3, <1>4, SuccessShape DEF Harmless, Requested, Busy
<1>6. PageTypes'
  BY <1>1 DEF PageTypes, Refuse
<1>7. DataOK'
  <2>1. \A i \in here' : Busy(i)'
    BY <1>1 DEF Refuse, Busy, DataOK, HereOK
  <2> QED BY <1>1, <1>4, <1>5, <1>6, <2>1, HarmlessKeeps DEF Refuse
<1> QED BY <1>4, <1>6, <1>7, PartsNext

\* A success on its way is a row as of now or before.
LEMMA DeliveredIsPast ==
    ASSUME ClientOK, DataOK, NEW i \in Slots, NEW row \in Row, Delivers(i, row)
    PROVE  Follows(row)
<1>1. CASE send[i].answer = Success(row)
  BY <1>1, SuccessShape DEF DataOK, SuccessesOK, Earned
<1>2. CASE \E m \in wire : m.to = i /\ m.answer = Success(row)
  BY <1>2, SuccessShape DEF DataOK, SuccessesOK, Earned
<1> QED BY <1>1, <1>2 DEF Delivers

LEMMA ToggleType ==
    ASSUME NEW days \in SUBSET Days, NEW day \in Days, NEW add \in BOOLEAN
    PROVE  Toggle(days, day, add) \in SUBSET Days
BY DEF Toggle

\* When the stored calendar gets a new version, whatever follows it still does.
LEMMA CloudGrows ==
    ASSUME NEW row, cloud \in Row, row \in Row, cloud' \in Row, cloud'.version = cloud.version + 1, Follows(row)
    PROVE  row.version < cloud'.version /\ Follows(row)'
<1>1. row.version \in Nat /\ cloud.version \in Nat
  BY DEF Row
<1> QED BY <1>1 DEF Follows

\* The row an update leaves is a row, whatever copy it edited, one version on,
\* with its day as asked.
LEMMA EditedRow ==
    ASSUME NEW version \in Nat, NEW copy \in Row, NEW day \in Days, NEW add \in BOOLEAN
    PROVE  /\ Edited(version, copy, day, add) \in Row
           /\ Edited(version, copy, day, add).version = version + 1
           /\ day \in Edited(version, copy, day, add).days <=> add
<1>1. Toggle(copy.days, day, add) \in SUBSET Days
  BY ToggleType DEF Row
<1> QED BY <1>1 DEF Edited, Row, Toggle

\* The rows there have been follow the new one.
LEMMA StoredKeeps ==
    ASSUME NEW row \in Row, cloud \in Row, stored \subseteq Row, row.version = cloud.version + 1,
           StoredOK, Stored(row)
    PROVE  StoredOK' /\ cloud' = row /\ stored' \subseteq Row
<1>1. cloud' = row /\ stored' = stored \cup {row}
  BY DEF Stored
<1>2. ASSUME NEW old \in stored PROVE Follows(old)'
  <2>1. old \in Row /\ Follows(old)
    BY DEF StoredOK
  <2> QED BY <1>1, <2>1, CloudGrows
<1>3. Follows(row)'
  <2>1. row.version \in Nat
    BY DEF Row
  <2> QED BY <1>1, <2>1 DEF Follows
<1> QED BY <1>1, <1>2, <1>3 DEF StoredOK

LEMMA ApplyKeeps ==
    ASSUME IInv, NEW m \in wire, Apply(m)
    PROVE  IInv'
<1> DEFINE p == m.payload
<1>0. ClientOK /\ PageTypes /\ DataOK
  BY Parts
<1>1. p \in Requested /\ p \in Request /\ p.version = cloud.version /\ p.version \in Nat
  BY <1>0, RequestedType DEF Requested, Apply, Accepts, Request
<1>2. p.tap \in Taps /\ p.day \in Days /\ p.add \in BOOLEAN
  BY <1>1 DEF Request
<1>3. cloud \in Row /\ cloud.version \in Nat /\ cloud.days \in SUBSET Days
      /\ model \in Row /\ model.version \in Nat /\ here \subseteq Slots
      /\ applied \in [Taps -> Nat] /\ told \subseteq Taps /\ tapped \in Nat
  BY <1>0 DEF PageTypes, Row
<1>4. /\ cloud' \in Row /\ cloud'.version = cloud.version + 1
      /\ p.day \in cloud'.days <=> p.add
      /\ StoredOK' /\ stored' \subseteq Row
  <2>1. PICK copy \in stored : Stored(Edited(p.version, copy, p.day, p.add))
    BY DEF Apply
  <2>2. PICK row : row = Edited(p.version, copy, p.day, p.add)
    OBVIOUS
  <2>3. copy \in Row /\ stored \subseteq Row
    BY <1>0 DEF PageTypes
  <2>4. row \in Row /\ row.version = cloud.version + 1 /\ (p.day \in row.days <=> p.add)
    BY <1>1, <1>2, <2>2, <2>3, EditedRow
  <2>5. StoredOK' /\ cloud' = row /\ stored' \subseteq Row
    BY <1>0, <1>3, <2>1, <2>2, <2>3, <2>4, StoredKeeps DEF DataOK
  <2> QED BY <2>4, <2>5
<1>5. PICK a \in {Success(cloud'), Refusal, ServerError} : Answers(m, a)
  BY DEF Apply
<1>6. a \in {Refusal, ServerError} \cup Successes /\ (a \in Successes => a = Success(cloud') /\ a.row = cloud')
  BY <1>4, <1>5, SuccessShape
<1>7. /\ ClientOK'
      /\ \A n \in wire' : n \in wire \/ (n.to = m.to /\ n.payload = p /\ n.answer = a)
  BY <1>0, <1>5, <1>6, AnswersEffect DEF Apply
<1>8. send' = send /\ UNCHANGED <<model, here, tapped, told>>
      /\ applied' = [applied EXCEPT ![p.tap] = applied[p.tap] + 1]
  BY DEF Apply
<1> HIDE DEF p
<1>9. applied[p.tap] = 0
  <2>1. applied[p.tap] # 1
    BY <1>0, <1>1, <1>3 DEF DataOK, EffectsOK
  <2>2. applied[p.tap] <= 1 /\ applied[p.tap] \in Nat
    BY <1>0, <1>2, <1>3 DEF DataOK, EffectsOK
  <2> QED BY <2>1, <2>2
<1>10. applied' \in [Taps -> Nat] /\ applied'[p.tap] = 1
       /\ \A t \in Taps \ {p.tap} : applied'[t] = applied[t]
  BY <1>2, <1>3, <1>8, <1>9
<1>11. Requested' \subseteq Requested
  BY <1>1, <1>7, <1>8 DEF Requested, Busy
<1>12. \A q \in Requested : q \in Request /\ q.version \in Nat /\ q.tap \in Taps
  BY <1>0, RequestedType DEF Request
<1>13. RequestsOK'
  <2>1. \A t \in Taps : t > tapped => applied'[t] = 0
    <3>1. ~(p.tap > tapped)
      BY <1>0, <1>1, <1>2, <1>3 DEF DataOK, RequestsOK, Taps
    <3> QED BY <1>0, <1>10, <3>1 DEF DataOK, RequestsOK
  <2> QED BY <1>0, <1>8, <1>11, <2>1 DEF DataOK, RequestsOK
<1>14. EffectsOK'
  <2>1. \A t \in Taps : applied'[t] <= 1
    BY <1>0, <1>10 DEF DataOK, EffectsOK
  <2>2. ASSUME NEW q \in Requested', applied'[q.tap] = 1 PROVE q.version < cloud'.version
    <3>1. CASE q.tap = p.tap
      <4>1. q = p
        BY <1>0, <1>1, <1>11, <3>1 DEF DataOK, RequestsOK
      <4> QED BY <1>1, <1>3, <1>4, <4>1
    <3>2. CASE q.tap # p.tap
      <4>1. q.version < cloud.version
        BY <1>0, <1>10, <1>11, <1>12, <2>2, <3>2 DEF DataOK, EffectsOK
      <4> QED BY <1>3, <1>4, <1>11, <1>12, <4>1
    <3> QED BY <3>1, <3>2
  <2>3. \A t \in told' : applied'[t] = 1
    BY <1>0, <1>3, <1>8, <1>10 DEF DataOK, EffectsOK
  <2> QED BY <2>1, <2>2, <2>3 DEF EffectsOK
<1>15. ASSUME NEW q \in Requested, NEW row \in Row, Earned(q, row)
       PROVE  Earned(q, row)'
  <2>1. q.tap # p.tap /\ q.tap \in Taps
    BY <1>9, <1>12, <1>15 DEF Earned
  <2>2. Follows(row)'
    BY <1>3, <1>4, <1>15, CloudGrows DEF Earned
  <2> QED BY <1>10, <1>15, <2>1, <2>2 DEF Earned
<1>15a. PICK left : left = cloud'
  BY <1>4
<1>16. Earned(p, left)'
  <2>1. Follows(left)'
    BY <1>3, <1>4, <1>15a DEF Follows
  <2> QED BY <1>1, <1>4, <1>10, <1>15a, <2>1 DEF Earned
<1>17. SuccessesOK'
  <2>1. ASSUME NEW i \in Slots, send[i].answer \in Successes
        PROVE  Earned(send[i].payload, send[i].answer.row)'
    <3>1. send[i].payload \in Requested
      <4>1. Busy(i)
        BY <1>0, <2>1, SuccessShape DEF ClientOK, PhasesOK, Busy
      <4> QED BY <4>1 DEF Requested
    <3>2. send[i].answer.row \in Row
      BY <2>1, SuccessShape
    <3>3. Earned(send[i].payload, send[i].answer.row)
      BY <1>0, <2>1 DEF DataOK, SuccessesOK
    <3>4. PICK q \in Requested, row \in Row : q = send[i].payload /\ row = send[i].answer.row
      BY <3>1, <3>2
    <3>5. Earned(q, row)'
      BY <1>15, <3>3, <3>4
    <3> QED BY <1>8, <3>4, <3>5
  <2>2. ASSUME NEW n \in wire', n.answer \in Successes
        PROVE  Earned(n.payload, n.answer.row)'
    <3>1. CASE n \in wire
      <4>1. n.payload \in Requested /\ n.answer.row \in Row /\ Earned(n.payload, n.answer.row)
        BY <1>0, <2>2, <3>1, SuccessShape DEF DataOK, SuccessesOK, Requested
      <4>2. PICK q \in Requested, row \in Row : q = n.payload /\ row = n.answer.row
        BY <4>1
      <4>3. Earned(q, row)'
        BY <1>15, <4>1, <4>2
      <4> QED BY <4>2, <4>3
    <3>2. CASE n.payload = p /\ n.answer = a
      <4>1. n.answer.row = left
        BY <1>6, <1>15a, <2>2, <3>2
      <4> QED BY <1>16, <3>2, <4>1
    <3> QED BY <1>7, <3>1, <3>2
  <2> QED BY <1>8, <2>1, <2>2 DEF SuccessesOK

<1>18. ASSUME NEW i \in Slots, NEW row \in Row, Delivers(i, row)'
       PROVE  Delivers(i, row) \/ (m.to = i /\ row = cloud')
  <2>1. CASE send'[i].answer = Success(row)
    BY <1>8, <2>1 DEF Delivers
  <2>2. ASSUME NEW n \in wire', n.to = i, n.answer = Success(row)
        PROVE  Delivers(i, row) \/ (m.to = i /\ row = cloud')
    <3>1. CASE n \in wire
      BY <2>2, <3>1 DEF Delivers
    <3>2. CASE n.to = m.to /\ n.answer = a
      BY <1>6, <2>2, <3>2, SuccessShape
    <3> QED BY <1>7, <3>1, <3>2
  <2> QED BY <1>18, <2>1, <2>2 DEF Delivers
<1>19. ASSUME NEW i \in here, m.to = i
       PROVE  model.version = cloud.version
  <2>1. send[i].payload = p /\ send[i].payload.version <= model.version
    BY <1>0, <1>3, <1>19 DEF ClientOK, WireOK, DataOK, HereOK, p
  <2> QED BY <1>0, <1>1, <1>3, <2>1 DEF DataOK, ModelFollowsCloud
<1>20. ASSUME NEW i \in here, NEW row \in Row, Delivers(i, row)
       PROVE  row.version > model.version /\ model.version # cloud.version
  <2>1. row.version > model.version
    BY <1>0, <1>20 DEF DataOK, HereOK
  <2>2. row.version <= cloud.version
    BY <1>0, <1>3, <1>20, DeliveredIsPast DEF Follows
  <2>3. row.version \in Nat
    BY DEF Row
  <2> QED BY <1>3, <2>1, <2>2, <2>3
<1>21. HereOK'
  <2>1. \A i \in here' : Busy(i)' /\ send'[i].payload.version <= model'.version
    BY <1>0, <1>8 DEF DataOK, HereOK, Busy
  <2>2. ASSUME NEW i \in here', NEW row \in Row, Delivers(i, row)' PROVE row.version > model'.version
    <3>1. i \in here /\ i \in Slots
      BY <1>3, <1>8
    <3>2. CASE Delivers(i, row)
      BY <1>8, <1>20, <3>1, <3>2
    <3>3. CASE m.to = i /\ row = cloud'
      BY <1>3, <1>4, <1>8, <1>19, <3>1, <3>3
    <3> QED BY <1>18, <2>2, <3>1, <3>2, <3>3
  <2>3. ASSUME NEW i \in here', NEW j \in here', NEW row \in Row, NEW other \in Row,
               Delivers(i, row)', Delivers(j, other)'
        PROVE  i = j
    <3>1. {i, j} \subseteq here /\ {i, j} \subseteq Slots
      BY <1>3, <1>8
    <3>2. CASE Delivers(i, row) /\ Delivers(j, other)
      BY <1>0, <3>1, <3>2 DEF DataOK, HereOK
    <3>3. CASE m.to = i /\ m.to = j
      BY <3>3
    <3>4. CASE m.to = i /\ Delivers(j, other)
      BY <1>19, <1>20, <3>1, <3>4
    <3>5. CASE m.to = j /\ Delivers(i, row)
      BY <1>19, <1>20, <3>1, <3>5
    <3> QED BY <1>18, <2>3, <3>1, <3>2, <3>3, <3>4, <3>5
  <2> QED BY <2>1, <2>2, <2>3 DEF HereOK
<1>22. ModelFollowsCloud'
  BY <1>0, <1>3, <1>4, <1>8 DEF DataOK, ModelFollowsCloud
<1>23. PageTypes'
  BY <1>0, <1>4, <1>10 DEF PageTypes, Apply
<1> QED BY <1>4, <1>7, <1>13, <1>14, <1>17, <1>21, <1>22, <1>23, PartsNext DEF DataOK

\* An edit of another device.
LEMMA OtherDeviceKeeps ==
    ASSUME IInv, NEW d \in Days, OtherDevice(d)
    PROVE  IInv'
<1>0. ClientOK /\ PageTypes /\ DataOK
  BY Parts
<1>1. cloud \in Row /\ cloud.version \in Nat /\ model.version \in Nat /\ others \in Nat
  BY <1>0 DEF PageTypes, Row
<1>2. cloud' \in Row /\ cloud'.version = cloud.version + 1 /\ StoredOK' /\ stored' \subseteq Row
  <2>1. PICK add \in BOOLEAN, copy \in stored : Stored(Edited(cloud.version, copy, d, add))
    BY DEF OtherDevice
  <2>2. PICK row : row = Edited(cloud.version, copy, d, add)
    OBVIOUS
  <2>3. copy \in Row /\ stored \subseteq Row
    BY <1>0 DEF PageTypes
  <2>4. row \in Row /\ row.version = cloud.version + 1
    BY <1>1, <2>2, <2>3, EditedRow
  <2>5. StoredOK' /\ cloud' = row /\ stored' \subseteq Row
    BY <1>0, <1>1, <2>1, <2>2, <2>3, <2>4, StoredKeeps DEF DataOK
  <2> QED BY <2>4, <2>5
<1>3. UNCHANGED <<send, wire, model, refreshing, here, tapped, applied, told>> /\ others' = others + 1
  BY DEF OtherDevice
<1>4. Requested' = Requested /\ \A q \in Requested : q.version \in Nat
  BY <1>0, <1>3, RequestedType DEF Requested, Busy, Request
<1>5. ClientOK'
  BY <1>0, <1>3 DEF ClientOK, PhasesOK, WireOK, Busy
<1>6. RequestsOK'
  BY <1>0, <1>3, <1>4 DEF DataOK, RequestsOK
<1>7. EffectsOK'
  BY <1>0, <1>1, <1>2, <1>3, <1>4 DEF DataOK, EffectsOK
<1>8. SuccessesOK'
  <2>1. ASSUME NEW q, NEW row \in Row, Earned(q, row) PROVE Earned(q, row)'
    BY <1>1, <1>2, <1>3, <2>1, CloudGrows DEF Earned
  <2>2. ASSUME NEW i \in Slots, send[i].answer \in Successes
        PROVE  Earned(send[i].payload, send[i].answer.row)'
    <3>0. PICK q : q = send[i].payload
      OBVIOUS
    <3>1. PICK row \in Row : row = send[i].answer.row
      BY <2>2, SuccessShape
    <3>2. Earned(q, row)
      BY <1>0, <2>2, <3>0, <3>1 DEF DataOK, SuccessesOK
    <3>3. Earned(q, row)'
      BY <2>1, <3>2
    <3> QED BY <1>3, <3>0, <3>1, <3>3
  <2>3. ASSUME NEW n \in wire, n.answer \in Successes
        PROVE  Earned(n.payload, n.answer.row)'
    <3>0. PICK q : q = n.payload
      OBVIOUS
    <3>1. PICK row \in Row : row = n.answer.row
      BY <2>3, SuccessShape
    <3>2. Earned(q, row)
      BY <1>0, <2>3, <3>0, <3>1 DEF DataOK, SuccessesOK
    <3>3. Earned(q, row)'
      BY <2>1, <3>2
    <3> QED BY <3>0, <3>1, <3>3
  <2> QED BY <1>3, <2>2, <2>3 DEF SuccessesOK
<1>9. HereOK'
  BY <1>0, <1>3 DEF DataOK, HereOK, Busy, Delivers
<1>10. ModelFollowsCloud'
  BY <1>0, <1>1, <1>2, <1>3 DEF DataOK, ModelFollowsCloud
<1>11. PageTypes'
  BY <1>0, <1>1, <1>2, <1>3 DEF PageTypes
<1> QED BY <1>2, <1>5, <1>6, <1>7, <1>8, <1>9, <1>10, <1>11, PartsNext DEF DataOK

-----------------------------------------------------------------------------
(* The page. *)

\* A call that ends frees its slot; nothing is on its way to it.
LEMMA EndsEffect ==
    ASSUME ClientOK, PageTypes, DataOK, NEW i \in Slots, send[i].phase \in {"answered", "failed"}, Ends(i)
    PROVE  /\ ClientOK' /\ Harmless
           /\ here' \subseteq here /\ \A j \in here' : j # i /\ Busy(j)'
<1>1. send'[i] = Free /\ \A j \in Slots \ {i} : send'[j] = send[j]
  BY DEF ClientOK, Ends
<1>2. wire' = wire /\ here' = here \ {i}
  BY DEF Ends
<1>3. Free \in SendRecord /\ Free.phase = "idle" /\ Free.answer = NoAnswer
  BY ClientAssumption DEF Free, SendRecord, Phases
<1>4. ClientOK'
  <2>1. send' \in [Slots -> SendRecord]
    BY <1>1, <1>3 DEF ClientOK, Ends
  <2>2. PhasesOK'
    <3> SUFFICES ASSUME NEW j \in Slots
                 PROVE  /\ IF send'[j].phase \in {"body", "answered"} THEN send'[j].answer # NoAnswer
                           ELSE send'[j].answer = NoAnswer
                        /\ send'[j].phase # "idle" => send'[j].payload \in Request
                        /\ send'[j].phase = "delay" => send'[j].attempt + 1 < maxRetryCount
      BY DEF PhasesOK, Busy
    <3> QED BY <1>1, <1>3 DEF ClientOK, PhasesOK, Busy
  <2>3. WireOK'
    BY <1>1, <1>2 DEF ClientOK, WireOK
  <2> QED BY <1>2, <2>1, <2>2, <2>3 DEF ClientOK
<1>5. Harmless
  BY <1>1, <1>2, <1>3, SuccessShape DEF Harmless, Requested, Busy
<1>6. \A j \in here' : j # i /\ Busy(j)'
  BY <1>1, <1>2 DEF PageTypes, DataOK, HereOK, Busy
<1> QED BY <1>2, <1>4, <1>5, <1>6

\* Both ways to end without a success.
LEMMA FailureKeeps ==
    ASSUME IInv, NEW i \in Slots, IsRefused(i) \/ SendFails(i)
    PROVE  IInv'
<1>1. ClientOK /\ PageTypes /\ DataOK
  BY Parts
<1>2. Ends(i) /\ send[i].phase \in {"answered", "failed"} /\ UNCHANGED <<model, told>>
  BY DEF IsRefused, SendFails
<1>3. /\ ClientOK' /\ Harmless
      /\ here' \subseteq here /\ \A j \in here' : j # i /\ Busy(j)'
  BY <1>1, <1>2, EndsEffect
<1>4. refreshing' \subseteq refreshing
  BY DEF IsRefused, SendFails, Unmark
<1>5. PageTypes'
  BY <1>1, <1>2, <1>3, <1>4 DEF PageTypes, Ends
<1>6. DataOK'
  BY <1>1, <1>2, <1>3, <1>5, HarmlessKeeps DEF Ends
<1> QED BY <1>3, <1>5, <1>6, PartsNext

\* The row of a success is news to the page that asked for it.
LEMMA SuccessIsNews ==
    ASSUME IInv, NEW i \in Slots, send[i].phase = "answered", send[i].answer # Refusal
    PROVE  \E row \in Row :
              /\ send[i].answer = Success(row) /\ send[i].answer.row = row
              /\ Delivers(i, row) /\ Follows(row)
              /\ applied[send[i].payload.tap] = 1 /\ send[i].payload.tap \in Taps
              /\ send[i].payload.day \in row.days <=> send[i].payload.add
              /\ i \in here => row.version > model.version
<1>1. ClientOK /\ PageTypes /\ DataOK
  BY Parts
<1>2. send[i].answer \in Successes
  BY <1>1 DEF ClientOK, SendRecord, PhasesOK
<1>3. PICK row \in Row : send[i].answer = Success(row) /\ send[i].answer.row = row
  BY <1>2, SuccessShape
<1>4. Delivers(i, row)
  BY <1>3 DEF Delivers
<1>5. Earned(send[i].payload, row)
  BY <1>1, <1>2, <1>3 DEF DataOK, SuccessesOK
<1>6. send[i].payload.tap \in Taps
  BY <1>1 DEF ClientOK, PhasesOK, Busy, Request
<1>7. i \in here => row.version > model.version
  BY <1>1, <1>4 DEF DataOK, HereOK
<1> QED BY <1>3, <1>4, <1>5, <1>6, <1>7 DEF Earned

LEMMA SucceedsKeeps ==
    ASSUME IInv, NEW i \in Slots, Succeeds(i)
    PROVE  IInv'
<1>1. ClientOK /\ PageTypes /\ DataOK
  BY Parts
<1>2. PICK row \in Row :
        /\ send[i].answer = Success(row) /\ send[i].answer.row = row
        /\ Delivers(i, row) /\ Follows(row)
        /\ applied[send[i].payload.tap] = 1 /\ send[i].payload.tap \in Taps
        /\ i \in here => row.version > model.version
  BY SuccessIsNews DEF Succeeds
<1>3. /\ ClientOK' /\ Harmless
      /\ here' \subseteq here /\ \A j \in here' : j # i /\ Busy(j)'
  BY <1>1, EndsEffect DEF Succeeds
<1>4. UNCHANGED <<cloud, tapped, others, stored, applied>> /\ told' = told \cup {send[i].payload.tap}
      /\ refreshing' \subseteq refreshing
  BY DEF Succeeds, Ends, Unmark
<1>5. model' = IF i \in here THEN row ELSE model
  BY <1>2 DEF Succeeds
<1>6. PageTypes'
  BY <1>1, <1>2, <1>3, <1>4, <1>5 DEF PageTypes
<1>7. ModelFollowsCloud'
  BY <1>1, <1>2, <1>4, <1>5 DEF DataOK, ModelFollowsCloud, Follows
<1>8. model.version <= model'.version
  <2>1. model.version \in Nat /\ row.version \in Nat
    BY <1>1 DEF PageTypes, Row
  <2> QED BY <1>2, <1>5, <2>1
<1>9. ASSUME NEW j \in here', NEW other \in Row, Delivers(j, other)
      PROVE  other.version > model'.version
  <2>1. j \in here /\ j # i
    BY <1>3
  <2>2. CASE i \in here
    <3>1. FALSE
      BY <1>1, <1>2, <1>9, <2>1, <2>2 DEF DataOK, HereOK
    <3> QED BY <3>1
  <2>3. CASE i \notin here
    BY <1>1, <1>5, <1>9, <2>1, <2>3 DEF DataOK, HereOK
  <2> QED BY <2>2, <2>3
<1>10. \A t \in told' : applied[t] = 1
  BY <1>1, <1>2, <1>4 DEF DataOK, EffectsOK
<1>11. DataOK'
  BY <1>1, <1>3, <1>4, <1>6, <1>7, <1>8, <1>9, <1>10, PageKeeps
<1> QED BY <1>3, <1>6, <1>11, PartsNext

LEMMA OpenKeeps ==
    ASSUME IInv, Open
    PROVE  IInv'
<1>1. ClientOK /\ PageTypes /\ DataOK
  BY Parts
<1>2. UNCHANGED <<send, wire, cloud, tapped, others, stored, applied, told>>
      /\ model' \in stored /\ refreshing' = {} /\ here' = {}
  BY DEF Open
<1>3. ClientOK' /\ Harmless
  BY <1>1, <1>2 DEF ClientOK, PhasesOK, WireOK, Busy, Harmless, Requested
<1>4. PageTypes'
  BY <1>1, <1>2 DEF PageTypes
<1>5. ModelFollowsCloud'
  BY <1>1, <1>2 DEF DataOK, StoredOK, Follows, ModelFollowsCloud
<1>6. \A t \in told' : applied[t] = 1
  BY <1>1, <1>2 DEF DataOK, EffectsOK
<1>7. DataOK'
  BY <1>1, <1>2, <1>3, <1>4, <1>5, <1>6, PageKeeps
<1> QED BY <1>3, <1>4, <1>7, PartsNext

LEMMA TapKeeps ==
    ASSUME IInv, NEW i \in Slots, NEW d \in Days, Tap(i, d)
    PROVE  IInv'
<1> DEFINE p == [tap |-> tapped + 1, add |-> d \notin model.days, day |-> d, version |-> model.version]
           rec == [Free EXCEPT !.phase = "connect", !.payload = p]
<1>0. ClientOK /\ PageTypes /\ DataOK
  BY Parts
<1>1. tapped \in Nat /\ tapped < MaxTaps /\ MaxTaps \in Nat /\ model.version \in Nat
  BY <1>0, DetailAssumption DEF PageTypes, Row, Tap
<1>2. p \in Request /\ p.tap = tapped + 1 /\ p.version = model.version
  BY <1>1 DEF Request, Taps
<1> HIDE DEF p
<1>3. rec \in SendRecord /\ rec.phase = "connect" /\ rec.payload = p /\ rec.answer = NoAnswer
  <2>1. Free \in SendRecord /\ Free.answer = NoAnswer
    BY ClientAssumption DEF Free, SendRecord, Phases
  <2> QED BY <1>2, <2>1 DEF SendRecord, Phases
<1>4. ~Busy(i) /\ send' = [send EXCEPT ![i] = rec] /\ wire' = wire
      /\ tapped' = tapped + 1 /\ here' = here \cup {i} /\ UNCHANGED <<cloud, model, stored, applied, told>>
  BY DEF Tap, Send, p
<1> HIDE DEF rec
<1>5. send'[i] = rec /\ \A j \in Slots \ {i} : send'[j] = send[j]
  BY <1>0, <1>4 DEF ClientOK
<1>6. \A m \in wire : m.to # i
  BY <1>0, <1>4 DEF ClientOK, WireOK, Busy
<1>7. ClientOK'
  <2>1. send' \in [Slots -> SendRecord]
    BY <1>0, <1>3, <1>4 DEF ClientOK
  <2>2. PhasesOK'
    <3> SUFFICES ASSUME NEW j \in Slots
                 PROVE  /\ IF send'[j].phase \in {"body", "answered"} THEN send'[j].answer # NoAnswer
                           ELSE send'[j].answer = NoAnswer
                        /\ send'[j].phase # "idle" => send'[j].payload \in Request
                        /\ send'[j].phase = "delay" => send'[j].attempt + 1 < maxRetryCount
      BY DEF PhasesOK, Busy
    <3> QED BY <1>0, <1>2, <1>3, <1>5 DEF ClientOK, PhasesOK, Busy
  <2>3. WireOK'
    BY <1>0, <1>4, <1>5, <1>6 DEF ClientOK, WireOK
  <2> QED BY <1>0, <1>4, <2>1, <2>2, <2>3 DEF ClientOK
<1>8. Requested' \subseteq Requested \cup {p}
  BY <1>3, <1>4, <1>5 DEF Requested, Busy
<1>9. \A q \in Requested : q.tap \in Nat /\ q.tap <= tapped
  BY <1>0, RequestedType DEF DataOK, RequestsOK, Request, Taps
<1>10. RequestsOK'
  <2>1. \A q, r \in Requested' : q.tap = r.tap => q = r
    BY <1>0, <1>1, <1>2, <1>8, <1>9 DEF DataOK, RequestsOK
  <2>2. \A q \in Requested' : q.tap <= tapped'
    BY <1>1, <1>2, <1>4, <1>8, <1>9
  <2>3. \A t \in Taps : t > tapped' => applied'[t] = 0
    BY <1>0, <1>1, <1>4 DEF DataOK, RequestsOK, Taps
  <2> QED BY <2>1, <2>2, <2>3 DEF RequestsOK
<1>11. EffectsOK'
  <2>1. applied[p.tap] = 0
    BY <1>0, <1>1, <1>2 DEF DataOK, RequestsOK, Taps
  <2> QED BY <1>0, <1>4, <1>8, <2>1 DEF DataOK, EffectsOK
<1>12. SuccessesOK'
  BY <1>0, <1>3, <1>4, <1>5, SuccessShape DEF DataOK, SuccessesOK, Earned, Follows
<1>13. HereOK'
  <2>0. here \subseteq Slots
    BY <1>0 DEF PageTypes
  <2>1. \A j \in here' : Busy(j)' /\ send'[j].payload.version <= model'.version
    BY <1>0, <1>1, <1>2, <1>3, <1>4, <1>5, <2>0 DEF DataOK, HereOK, Busy
  <2>2. \A row \in Row : ~Delivers(i, row)'
    BY <1>3, <1>4, <1>5, <1>6, SuccessShape DEF Delivers
  <2>3. \A j \in Slots \ {i} : \A row \in Row : Delivers(j, row)' => Delivers(j, row)
    BY <1>4, <1>5 DEF Delivers
  <2>4. i \notin here
    BY <1>0, <1>4 DEF DataOK, HereOK
  <2> QED BY <1>0, <1>4, <2>0, <2>1, <2>2, <2>3, <2>4 DEF DataOK, HereOK
<1>14. ModelFollowsCloud' /\ StoredOK'
  BY <1>0, <1>4 DEF DataOK, ModelFollowsCloud, StoredOK, Follows
<1>15. PageTypes'
  BY <1>0, <1>1, <1>4 DEF PageTypes, Tap
<1> QED BY <1>7, <1>10, <1>11, <1>12, <1>13, <1>14, <1>15, PartsNext DEF DataOK

-----------------------------------------------------------------------------
(* The theorems. *)

LEMMA InitIInv == Init => IInv
<1> SUFFICES ASSUME Init PROVE IInv
  OBVIOUS
<1>1. Free \in SendRecord /\ Free.phase = "idle" /\ Free.answer = NoAnswer
  BY ClientAssumption DEF Free, SendRecord, Phases
<1>2. \A i \in Slots : send[i] = Free
  BY DEF Init
<1>3. ClientOK
  BY <1>1, <1>2 DEF Init, ClientOK, PhasesOK, WireOK, Busy
<1>4. PageTypes
  BY DEF Init, PageTypes, Row
<1>5. Requested = {}
  BY <1>1, <1>2 DEF Init, Requested, Busy
<1>6. RequestsOK /\ EffectsOK /\ HereOK /\ ModelFollowsCloud /\ StoredOK
  BY <1>4, <1>5 DEF Init, RequestsOK, EffectsOK, HereOK, ModelFollowsCloud, StoredOK, Follows, Row
<1>7. SuccessesOK
  BY <1>1, <1>2, SuccessShape DEF Init, SuccessesOK
<1> QED BY <1>3, <1>4, <1>6, <1>7, Parts DEF DataOK

LEMMA NextKeeps ==
    ASSUME IInv, [Next]_vars
    PROVE  IInv'
<1>1. CASE UNCHANGED vars
  BY <1>1 DEF vars, IInv, TypeOK, PhasesOK, WireOK, RequestsOK, EffectsOK, SuccessesOK, HereOK,
              StoredOK, ModelFollowsCloud, Requested, Earned, Follows, Delivers, Busy
<1>2. CASE Next
  <2>1. ASSUME NEW i \in Slots, PageStep(i) \/ (ClientOnly /\ ClientStep(i)) \/ \E d \in Days : Tap(i, d)
        PROVE  IInv'
    BY <2>1, FailureKeeps, SucceedsKeeps, ClientOnlyKeeps, TapKeeps DEF PageStep
  <2>2. ASSUME NEW m \in wire, Apply(m) \/ Refuse(m) PROVE IInv'
    BY <2>2, ApplyKeeps, RefuseKeeps
  <2>3. ASSUME NEW d \in Days, OtherDevice(d) PROVE IInv'
    BY <2>3, OtherDeviceKeeps
  <2> QED BY <1>2, <2>1, <2>2, <2>3, OpenKeeps DEF Next
<1> QED BY <1>1, <1>2

\* The inductive invariant holds throughout.
THEOREM Inductive == Spec => []IInv
BY InitIInv, NextKeeps, PTL DEF Spec

\* Every variable always has its type, and no send makes more than maxRetryCount
\* tries (TypeOK).
THEOREM TypeCorrect == Spec => []TypeOK
BY Inductive, PTL DEF IInv

\* A tap takes effect once at most, whatever is lost, repeated or delayed, and
\* its call succeeds only if it took effect (AppliedOnce).
THEOREM EffectsAreSingle == Spec => []AppliedOnce
<1>1. IInv => AppliedOnce
  BY DEF IInv, TypeOK, EffectsOK, AppliedOnce
<1> QED BY <1>1, Inductive, PTL

\* The page never shows a version the service has not, nor a version with other
\* days (ModelFollowsCloud).
THEOREM PageIsGenuine == Spec => []ModelFollowsCloud
BY Inductive, PTL DEF IInv

\* While the page is open answers never take it back (AnswersNeverGoBack).
THEOREM PageGoesForward == Spec => AnswersNeverGoBack
<1> DEFINE A == model'.version >= model.version /\ (model'.version = model.version => model' = model)
<1>1. ASSUME IInv, Next PROVE Open \/ A
  <2>1. model \in Row /\ model.version \in Nat
    BY <1>1 DEF IInv, TypeOK, Row
  <2>2. CASE model' = model
    BY <2>1, <2>2
  <2>3. ASSUME NEW i \in Slots, Succeeds(i) PROVE A
    <3>1. PICK row \in Row : send[i].answer.row = row /\ (i \in here => row.version > model.version)
      BY <1>1, <2>3, SuccessIsNews DEF Succeeds
    <3>2. model' = IF i \in here THEN row ELSE model
      BY <2>3, <3>1 DEF Succeeds
    <3>3. row.version \in Nat
      BY DEF Row
    <3> QED BY <2>1, <3>1, <3>2, <3>3
  <2> QED BY <1>1, <2>2, <2>3 DEF Next, PageStep, ClientOnly, IsRefused, SendFails, Tap, Apply, Refuse, OtherDevice
<1>2. IInv /\ [Next]_vars => [Open \/ A]_vars
  BY <1>1
<1> QED BY <1>2, Inductive, PTL DEF Spec, AnswersNeverGoBack

\* A tap of the open page that succeeds leaves its day as it asked
\* (SuccessShowsTap).
THEOREM SuccessIsShown == Spec => SuccessShowsTap
<1> DEFINE A == \A i \in Slots : Succeeds(i) /\ i \in here =>
                   (send[i].payload.day \in model'.days <=> send[i].payload.add)
<1>1. ASSUME IInv, NEW i \in Slots, Succeeds(i), i \in here
      PROVE  send[i].payload.day \in model'.days <=> send[i].payload.add
  <2>1. PICK row \in Row : /\ send[i].answer.row = row
                           /\ send[i].payload.day \in row.days <=> send[i].payload.add
    BY <1>1, SuccessIsNews DEF Succeeds
  <2>2. model' = row
    BY <1>1, <2>1 DEF Succeeds
  <2> QED BY <2>1, <2>2
<1>2. IInv /\ [Next]_vars => [A]_vars
  BY <1>1
<1> QED BY <1>2, Inductive, PTL DEF Spec, SuccessShowsTap
-----------------------------------------------------------------------------
(* The way to the end of a send. *)

\* How far a try is from its end, a broken one a little nearer.
TryLeft(s) ==
    (CASE s.phase = "connect" -> 7 [] s.phase = "headers" -> 5 [] s.phase = "body" -> 3 [] OTHER -> 1)
    - (IF s.broken /\ s.phase \in {"connect", "headers", "body"} THEN 1 ELSE 0)

\* How far a send is from its end: all of its remaining tries.
SendLeft(s) ==
    CASE s.phase = "idle" -> 0
      [] s.phase \in {"answered", "failed"} -> 1
      [] OTHER -> 8 * (maxRetryCount - s.attempt) + TryLeft(s)

LEMMA SendLeftTyped ==
    ASSUME NEW s \in SendRecord
    PROVE  /\ TryLeft(s) \in 0 .. 7 /\ SendLeft(s) \in Nat
           /\ s.attempt \in Nat /\ maxRetryCount \in Nat /\ maxRetryCount - s.attempt > 0
<1>1. s.attempt \in Nat /\ maxRetryCount \in Nat /\ maxRetryCount - s.attempt > 0
  BY ClientAssumption DEF SendRecord
<1>2. TryLeft(s) \in 0 .. 7
  BY DEF TryLeft
<1> QED BY <1>1, <1>2 DEF SendLeft

\* A send that fails or waits for its next try is nearer to its end than any try.
LEMMA FailLeaves ==
    ASSUME ClientOK, NEW i \in Slots, NEW closes \in BOOLEAN, Trying(i), AttemptFails(i, closes)
    PROVE  /\ SendLeft(send'[i]) < SendLeft(send[i])
           /\ \A j \in Slots \ {i} : \/ send'[j] = send[j]
                                     \/ Trying(j) /\ SendLeft(send'[j]) < SendLeft(send[j])
<1> DEFINE last == send[i].attempt + 1 = maxRetryCount
           broken == IF closes \/ last THEN {j \in Slots \ {i} : Trying(j)} ELSE {}
           mine == [send[i] EXCEPT !.phase = IF last THEN "failed" ELSE "delay",
                                   !.broken = FALSE, !.answer = NoAnswer]
<1>1. \A j \in Slots : send[j] \in SendRecord
  BY DEF ClientOK
<1>2. /\ send'[i] = mine
      /\ \A j \in Slots \ {i} : send'[j] = [send[j] EXCEPT !.broken = send[j].broken \/ j \in broken]
  BY DEF AttemptFails
<1>3. SendLeft(send'[i]) < SendLeft(send[i])
  <2> DEFINE s == send[i]
             k == maxRetryCount - s.attempt
  <2>1. s \in SendRecord /\ s.phase \in {"connect", "headers", "body"} /\ k \in Nat /\ k > 0
    BY <1>1, SendLeftTyped DEF Trying
  <2>2. SendLeft(s) = 8 * k + TryLeft(s) /\ TryLeft(s) \in 2 .. 7
    BY <2>1 DEF SendLeft, TryLeft
  <2>3. mine.phase \in {"failed", "delay"} /\ mine.attempt = s.attempt /\ mine.broken = FALSE
    BY <1>1 DEF SendRecord
  <2> HIDE DEF mine
  <2>4. SendLeft(mine) = 1 \/ SendLeft(mine) = 8 * k + 1
    BY <2>3 DEF SendLeft, TryLeft
  <2> HIDE DEF s, k
  <2>5. SendLeft(mine) < SendLeft(s)
    BY <2>1, <2>2, <2>4
  <2> QED BY <1>2, <2>5 DEF s
<1>4. ASSUME NEW j \in Slots \ {i}
      PROVE  send'[j] = send[j] \/ (Trying(j) /\ SendLeft(send'[j]) < SendLeft(send[j]))
  <2> DEFINE s == send[j]
             t == [s EXCEPT !.broken = s.broken \/ j \in broken]
  <2>1. s \in SendRecord /\ send'[j] = t
    BY <1>1, <1>2, <1>4
  <2>2. CASE s.broken \/ j \notin broken
    <3>1. (s.broken \/ j \in broken) = s.broken
      BY <2>1, <2>2 DEF SendRecord
    <3>2. t = s
      BY <2>1, <3>1 DEF SendRecord
    <3> QED BY <2>1, <3>2
  <2>3. CASE ~s.broken /\ j \in broken
    <3>1. Trying(j) /\ s.phase \in {"connect", "headers", "body"}
      BY <2>3 DEF Trying
    <3>2. t.phase = s.phase /\ t.attempt = s.attempt /\ t.broken = TRUE /\ s.broken = FALSE
      BY <2>1, <2>3 DEF SendRecord
    <3> DEFINE k == 8 * (maxRetryCount - s.attempt)
    <3>3. k \in Nat
      BY <2>1, SendLeftTyped
    <3> HIDE DEF t
    <3>4. /\ SendLeft(t) = k + TryLeft(t) /\ SendLeft(s) = k + TryLeft(s)
          /\ TryLeft(t) = TryLeft(s) - 1 /\ TryLeft(s) \in 1 .. 7
      BY <3>1, <3>2 DEF SendLeft, TryLeft
    <3> HIDE DEF k
    <3>5. SendLeft(t) < SendLeft(s)
      BY <3>3, <3>4
    <3> QED BY <2>1, <3>1, <3>5
  <2> QED BY <2>2, <2>3
<1> QED BY <1>3, <1>4

\* A step of one send, or of its connection, leaves less to do.
LEMMA ClientLeaves ==
    ASSUME ClientOK, NEW i \in Slots, ClientStep(i)
    PROVE  \A j \in Slots : \/ send'[j] = send[j]
                            \/ Busy(j) /\ SendLeft(send'[j]) < SendLeft(send[j])
<1> DEFINE s == send[i]
           k == maxRetryCount - s.attempt
<1>0. /\ s \in SendRecord /\ send \in [Slots -> SendRecord]
      /\ k \in Nat /\ k > 0 /\ s.attempt \in Nat /\ maxRetryCount \in Nat
  BY SendLeftTyped DEF ClientOK
<1>1. ASSUME NEW closes \in BOOLEAN, Trying(i), AttemptFails(i, closes)
      PROVE  \A j \in Slots : \/ send'[j] = send[j]
                              \/ Busy(j) /\ SendLeft(send'[j]) < SendLeft(send[j])
  BY <1>1, FailLeaves DEF Trying, Busy
<1>2. ASSUME NEW t, send' = [send EXCEPT ![i] = t], Busy(i), SendLeft(t) < SendLeft(s)
      PROVE  \A j \in Slots : \/ send'[j] = send[j]
                              \/ Busy(j) /\ SendLeft(send'[j]) < SendLeft(send[j])
  BY <1>0, <1>2
<1>3. CASE Connected(i)
  <2> DEFINE t == [s EXCEPT !.phase = "headers"]
  <2>1. send' = [send EXCEPT ![i] = t] /\ s.phase = "connect" /\ ~s.broken
    BY <1>0, <1>3 DEF Connected
  <2>2. SendLeft(s) = 8 * k + 7 /\ SendLeft(t) = 8 * k + 5
    BY <1>0, <2>1 DEF SendLeft, TryLeft, SendRecord
  <2>3. SendLeft(t) < SendLeft(s) /\ Busy(i)
    BY <1>0, <2>1, <2>2 DEF Busy
  <2> HIDE DEF t
  <2> QED BY <1>2, <2>1, <2>3
<1>4. CASE HeadersArrive(i)
  <2>1. Trying(i) /\ s.phase = "headers" /\ ~s.broken
    BY <1>4 DEF HeadersArrive, Trying
  <2>2. PICK m \in wire :
          IF m.answer = ServerError THEN AttemptFails(i, TRUE)
          ELSE send' = [send EXCEPT ![i].phase = "body", ![i].answer = m.answer]
    BY <1>4 DEF HeadersArrive
  <2>3. CASE AttemptFails(i, TRUE)
    BY <1>1, <2>1, <2>3
  <2>4. CASE send' = [send EXCEPT ![i].phase = "body", ![i].answer = m.answer]
    <3> DEFINE t == [s EXCEPT !.phase = "body", !.answer = m.answer]
    <3>1. send' = [send EXCEPT ![i] = t]
      BY <1>0, <2>4 DEF SendRecord
    <3>2. t.phase = "body" /\ t.attempt = s.attempt /\ t.broken = s.broken
      BY <1>0 DEF SendRecord
    <3> HIDE DEF t
    <3>3. SendLeft(s) = 8 * k + 5 /\ SendLeft(t) = 8 * k + 3
      BY <2>1, <3>2 DEF SendLeft, TryLeft
    <3>4. SendLeft(t) < SendLeft(s) /\ Busy(i)
      BY <1>0, <2>1, <3>3 DEF Busy
    <3> QED BY <1>2, <3>1, <3>4
  <2> QED BY <2>2, <2>3, <2>4
<1>5. CASE TimesOut(i) \/ Breaks(i)
  <2>1. Trying(i) /\ \E closes \in BOOLEAN : AttemptFails(i, closes)
    BY <1>5 DEF TimesOut, Breaks, Trying
  <2> QED BY <1>1, <2>1
<1>6. CASE BodyArrives(i)
  <2> DEFINE t == [s EXCEPT !.phase = "answered"]
  <2>1. send' = [send EXCEPT ![i] = t] /\ s.phase = "body" /\ ~s.broken
    BY <1>0, <1>6 DEF BodyArrives
  <2>2. SendLeft(s) = 8 * k + 3 /\ SendLeft(t) = 1
    BY <1>0, <2>1 DEF SendLeft, TryLeft, SendRecord
  <2>3. SendLeft(t) < SendLeft(s) /\ Busy(i)
    BY <1>0, <2>1, <2>2 DEF Busy
  <2> HIDE DEF t
  <2> QED BY <1>2, <2>1, <2>3
<1>7. CASE Retry(i)
  <2> DEFINE t == [s EXCEPT !.phase = "connect", !.attempt = s.attempt + 1]
  <2>1. send' = [send EXCEPT ![i] = t] /\ s.phase = "delay"
    BY <1>0, <1>7 DEF Retry, SendRecord
  <2>2. t.phase = "connect" /\ t.attempt = s.attempt + 1
    BY <1>0 DEF SendRecord
  <2> HIDE DEF t
  <2>3. SendLeft(s) = 8 * k + 1 /\ SendLeft(t) = 8 * (maxRetryCount - (s.attempt + 1)) + TryLeft(t)
    BY <2>1, <2>2 DEF SendLeft, TryLeft
  <2>4. TryLeft(t) \in 0 .. 7
    BY DEF TryLeft
  <2>5. 8 * (maxRetryCount - (s.attempt + 1)) = 8 * k - 8
    BY <1>0
  <2>6. SendLeft(t) < SendLeft(s) /\ Busy(i)
    BY <1>0, <2>1, <2>3, <2>4, <2>5 DEF Busy
  <2> QED BY <1>2, <2>1, <2>6
<1> QED BY <1>3, <1>4, <1>5, <1>6, <1>7 DEF ClientStep, Proceed

\* A send that is under way only ever goes forward, through its maxRetryCount
\* tries, however the others time out and close the client under it: at most
\* SendLeft more steps, and it has ended (the safety half of SendsEnd).
THEOREM SendsAdvance ==
    Spec => [][\A i \in Slots : Busy(i) =>
                  send'[i] = send[i] \/ (SendLeft(send[i]) \in Nat /\ SendLeft(send'[i]) < SendLeft(send[i]))]_vars
<1> DEFINE A == \A i \in Slots : Busy(i) =>
                   send'[i] = send[i] \/ (SendLeft(send[i]) \in Nat /\ SendLeft(send'[i]) < SendLeft(send[i]))
<1>1. ASSUME IInv, Next PROVE A
  <2>1. ClientOK /\ \A j \in Slots : send[j] \in SendRecord /\ SendLeft(send[j]) \in Nat
    BY <1>1, ClientOfIInv, SendLeftTyped DEF ClientOK
  <2>2. ASSUME NEW i \in Slots, ClientStep(i) PROVE A
    BY <2>1, <2>2, ClientLeaves
  <2>3. ASSUME NEW i \in Slots, Ends(i), send[i].phase \in {"answered", "failed"} PROVE A
    <3>1. send' = [send EXCEPT ![i] = Free]
      BY <2>3 DEF Ends
    <3>2. SendLeft(Free) = 0 /\ SendLeft(send[i]) = 1
      BY <2>3 DEF SendLeft, Free
    <3> QED BY <2>1, <3>1, <3>2 DEF ClientOK
  <2>4. ASSUME NEW i \in Slots, NEW payload, Send(i, payload) PROVE A
    BY <2>1, <2>4 DEF Send, ClientOK
  <2>5. CASE UNCHANGED send
    BY <2>5
  <2>6. ASSUME NEW i \in Slots, PageStep(i) PROVE A
    BY <2>3, <2>6 DEF PageStep, Succeeds, IsRefused, SendFails
  <2>7. ASSUME NEW i \in Slots, NEW d \in Days, Tap(i, d) PROVE A
    BY <2>4, <2>7 DEF Tap
  <2>8. ASSUME NEW m \in wire, Apply(m) \/ Refuse(m) PROVE A
    BY <2>5, <2>8 DEF Apply, Refuse
  <2>9. ASSUME NEW d \in Days, OtherDevice(d) PROVE A
    BY <2>5, <2>9 DEF OtherDevice
  <2>10. CASE Open
    BY <2>5, <2>10 DEF Open
  <2> QED BY <1>1, <2>2, <2>6, <2>7, <2>8, <2>9, <2>10 DEF Next, ClientOnly
<1>2. IInv /\ [Next]_vars => [A]_vars
  BY <1>1
<1> QED BY <1>2, Inductive, PTL DEF Spec
=============================================================================
