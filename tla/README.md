# simple_tracker: models and proofs

simple_tracker is a habit tracker: a Flutter application shows calendars on
which a user highlights days; a Go Lambda behind API Gateway keeps users,
sessions and calendars in DynamoDB; a second, scheduled Lambda keeps the keys
for pagination tokens in a third table. This directory holds TLA+ models of the
parts of the system with logic of their own, the TLC runs that check them, and
proofs.

Contents: [inventory](#inventory) · [how the parts interact](#interaction) ·
[hazards](#hazards) · [modules](#modules) · [runs](#runs) · [bounds](#bounds) ·
[fairness](#fairness) · [proofs](#proofs) · [only model-checked](#limits) ·
[not modelled](#not-modelled) · [plan](#plan)

<a name="inventory"></a>
## Inventory

| Component | State | Operations | What makes it correct |
|---|---|---|---|
| Calendar service, `lambda/calendar_dao.go`, `lambda/main.go` | rows `(OwnerUserId, Id) -> name, colour, HighlightedDays, Version` in DynamoDB; nothing else outlives a request | create, get, update (a batch of actions), delete, list | an update wins at most once per version; no edit disappears; answers tell the truth; deletion is final |
| Pagination keys: `ephemeral-key-lambda/main.go` writes them, `calendar_dao.go:85-171` reads and caches them | one row per hour with an encrypted key and an expiry; a one-hour cache per Lambda environment | a run every 15 minutes over the hours from 24 before to 24 after; a lookup per listing | the current hour has a key as long as runs succeed often enough; a key in use is not exchanged |
| Accounts and sessions, `lambda/user_dao.go`, `user_handler.go`, `session_dao.go` | users by name (conditional put), sessions with an expiry 14 days on | create user, login, verify session | one account per name; what a client is told works until it expires; a session serves its own user only |
| Password hashing, `lambda/password_hash.go` | none (values) | hash with a new salt, encode, decode, compare | the password that was hashed is accepted and no other |
| HTTP client, `flutter/lib/client/CustomHttpClient.dart` | one `HttpClient` shared by all sends, closed and replaced on failure | `send`: up to three tries with timeouts and delays between them | a send ends in an answer or one exception; its request may reach the service several times, and late |
| Calendar repository and detail model, `flutter/lib/state/calendar_repository.dart`, `calendar_detail_model.dart` | the calendar shown, its version, the days being refreshed | tap on a day: add or remove, with the version shown | a tap takes effect once; the page shows what the service stored, and no answer takes it back |
| Calendar list model, `flutter/lib/state/calendar_list_model.dart` | summaries, the selection of at most four | select, combine, reload, delete | the selection is among the calendars listed |
| Session flow, `flutter/lib/main.dart`, `state/user_*.dart`, `state/app_preferences_model.dart`, `view/user_login.dart`, `view/settings_widget.dart` | stored credentials, logged in or not | start, login, create user, logout | logged in exactly with usable credentials |
| Date library, `flutter/lib/date_calendar/src/*.dart` | none (values; an iterator's cursor) | add days, weeks, months, years, compare, weekday, day of year, masks, ranges | agrees with the Gregorian calendar |

Protobuf code, the CDK stack, the static site, localisation and the layout code
of the views hold no logic of this kind; the custom resource of the key Lambda
keeps no state and is not deployed by the stack.

<a name="interaction"></a>
### How the parts interact

The application posts protobuf messages. `main.go` dispatches on the path; each
request first verifies the session (`VerifySession`, an eventually consistent
read), then runs its handler, which makes one DynamoDB call after another with
no lock and no transaction. Any number of Lambda environments do so at once, so
the tables are the only shared state and everything between two calls
interleaves. The AWS SDK repeats a call whose response is lost. An error from
a handler becomes HTTP 400 without a protobuf body, which the application
cannot decode and reports as an exception, without a retry. On a timeout, an
error of the connection or an HTTP 5xx `CustomHttpClient.dart` closes the
client that all its sends share and sends the same bytes again. The page of a
calendar puts the version it shows into every edit it sends, does not wait for
one edit before the next, and takes over the row of each answer. A listing also fetches the key of the current hour, which the
generator has to have written.

Hard in this system: interleaved read-then-write requests with optimistic
concurrency on a version the *client* supplies; eventually consistent reads;
at-least-once writes; batches that fail half way; a generator that may fail for
hours, run twice at once, or overlap a deployment; retries in two layers, the
SDK's below the service and the application's above it; answers that overtake
each other.

<a name="hazards"></a>
## Hazards

`PROJECT.json` lists each with its line and the properties that guard it. The
ones that shaped the models: the days of an edit come from a copy that may be
older than the version the edit is conditioned on (`calendar_dao.go:711`
against `:989`); a creation repeated by the SDK has no condition (`:536`); a
batch is a sequence of independent writes in Go's random map order (`:873`); a
deletion may land inside an update; generator runs overlap and clobber keys
that environments have cached (`ephemeral-key-lambda/main.go:122`), on the word
of a replica that lags (`:70`); a run's error leaves the future hours without
keys (`:49`); date arithmetic that is right for most months and years
(`gregorian_calendar.dart`), and a date that one method leaves outside its month
for the next to start from (`:198`); ranges whose every date starts from the one
before (`calendar_iterators.dart:46`); two clients after one name, and a creation
refused by its own repeated write (`user_dao.go:173`, `:191`); an account whose
session was never stored (`user_handler.go:59`); credentials refused by a
replica that lags (`user_dao.go:70`, `session_dao.go:134`); a request that is
carried out after its sender gave it up (`CustomHttpClient.dart:68`); a client
closed under other sends (`:86`) and a body that never comes (`:125`); answers
that arrive in any order on the page or on its successor
(`calendar_repository.dart:275`, `calendar_detail.dart:94`). No property covers
the progress mark that a failed send leaves on its day
(`calendar_repository.dart:252`): the model has it, no document speaks of it.

<a name="modules"></a>
## Modules

### `CalendarBackend` (the core)

State: `table` is the DynamoDB table (one user's partition: no operation
touches another user's rows); `lag` is the replica that a `GetItem` with
`ConsistentRead=false` may be answered from; `inv` are the running
invocations, each with the request, a phase, the ids its loop has left, the
copies it read and the rows it will answer; `known` is what clients have been
told. `puts`, `stored` and `log`, and the field `inc` of a row, are history:
the PutItems of each key, every row it held, every UpdateItem that took effect.

One action per call of a handler:

| Action | Code |
|---|---|
| `Begin`, `RejectSession` | a handler starts; `VerifySession` accepts or rejects |
| `PutItem` | `CreateCalendar` 501-550, an unconditional put under a new ULID |
| `GetItem`, `GetItemNotFound`, `AnswerGet` | the loop of `GetCalendars` 619-646 in sorted order over `getCalendarInternal` 692-736 |
| `StartWriting`, `UpdateItem`, `UpdateItemRefused`, `UnknownActionType`, `AnswerUpdate` | `UpdateCalendars` 842-930: all reads, then the actions in any order, each a conditional `UpdateItem` (978-1043); the first error ends the request |
| `DeleteItem` | `DeleteCalendar` 765-796 |
| `Query` | `ListCalendars` 304-361 with the page limit of 258-263; DynamoDB may end the page before the limit |
| `ServiceError`, `Crash`, `Replicate` | a call fails; the environment is lost or times out; the replica catches up |

`Repeat`, inside the three writes, is the SDK sending a call again after it
took effect. `UpdateItem` is written as DynamoDB executes it: `Version` is the
client's plus one, `HighlightedDays` comes from the copy read earlier, and the
attributes the action does not name stay those of the row *stored*.

Requests are the ones a client can make: ids and versions some response told
it (`Sendable`). `UpdateCalendarsRequest.actions` is a map from id to action
(`proto/calendar.proto:125`); its values repeat the id, and the application
always sends the same one, so the model has one action per id.

### `VersionedCalendars` (the promise)

Create, rename, mark, delete, each atomic. `ImplementsPromise` states that
`CalendarBackend` refines it under `cal <- table` without the history field and
`had <-` the sets of days ever stored. The promise about days is deliberately
weak, since it is all the code gives: an edit applies to the days the calendar
has *or had*.

### `AtomicCalendars` (what a client takes the service for)

The same operations, where every edit applies to the calendar as it is, raises
its version by one, and an id is given out once: what "OCC version field"
(`proto/calendar.proto:65`) says. The code does not give this (`stale_days`,
`rewind`); `CalendarAtomicProofs` says which two things are missing.

### `EphemeralKeys`

The generator (`ephemeral-key-lambda/main.go`) and the service's lookup
(`calendar_dao.go:80-171`), which meet in the table of keys. Time is `clock`,
the hour, since a row's key is an hour. `run` are slots for runs of the
generator, `env` the Lambda environments of the service with their caches,
`lag` the replica. `mishaps` counts failures and deployments; `covered` (hours
of runs that ended well) and `replaced` (hours whose key was exchanged) are
history.

| Action | Code |
|---|---|
| `StartRun`, `NextHour` in the others | `handler.Invoke` 37-58: the window around the hour the run started in, one `process` per hour |
| `KeyExists`, `KeyNeeded` | `process` 60-90: a read that may lag, and the comparison of ARNs |
| `Generate`, `PutItem` | 91-134: a data key, and an unconditional put that the SDK may repeat |
| `RunFails` | an error, which ends the run at its hour (49-53), or a timeout |
| `StartLookup`, `FetchKey`, `DecryptKey`, `LookupFails` | `getPaginationKey` and what it calls; the encryption context ties a key to its hour |
| `CacheExpires` | the cache's hour (`lambda/main.go:511`) |
| `Tick`, `Redeploy`, `Replicate`, `Expire` | the hour turns; another ARN is deployed; replication; DynamoDB's TTL |

`Tick` waits for whatever has crossed a turn of the hour already: a run lasts 30
seconds at most and a request 10 (`cdk-stack.ts:230`, `:181`).

### `GregorianDates`, `GregorianCalendar`, `DateRanges`

`GregorianDates` has the pure part of `gregorian_calendar.dart` (leap years,
month lengths, Sakamoto's weekday, `dayOfYear`, `toInt`, the month shift with
and without clamp, `copy`) and, apart, the reference:
`DayCount`, the days since January 1 of the year 0. `GregorianCalendar` is one
object under any sequence of constructor, `getWeekdaysFromWeek`, `addDays`,
`addWeeks`, `addMonths` and `addYears`; each turn of the two loops of `_addDays` is a step. `due` is the
count the operation has to arrive at. The twelve-month loops of `_addMonths` are
one division and remainder (what they compute), and the constructor's and
`copy()`'s own calls of `_addDays` are folded where they are known: `Copy`
carries the only day that can lie outside its month.

`DateRanges` puts an iteration over a `DayRange`, `WeekRange`, `MonthRange` or
`YearRange` on top. `date` is the iterator's `_nextDate` as long as it runs;
`range` has the range, `_current` and the last answer of `moveNext()`, and, as
history, how many dates were given. `MoveNext` makes its copy, compares it with
the end and calls the object's method (`Incrementer`), whose loops run before the
next call. Increments are positive: 0 is refused by the constructor, and a
negative one walks away from the end.

### `UserAccounts`

Creating an account, logging in, and the session check in front of every
calendar request. State: `users` and `sessions`, the tables, with the replicas
`usersLag` and `sessionsLag`; `now`, in units longer than a request may run;
`req`, slots for running requests, with what each has made up or read; `told`,
the successes clients know; `opened`, a history of what opened each session. A
password's hash is the record of its parameters, its salt and the derived key
(`generatePasswordHash`, `comparePasswordAndHash`), Argon2 being injective.

| Action | Code |
|---|---|
| `CreateUser`, `UserAlreadyExists`, `OwnUserExists` | `user_dao.go:139-217`, a PutItem on `attribute_not_exists`; repeated by the SDK it meets its own row (`user_handler.go:39-65`) |
| `OpenSession`, `PutSession` | `CreateSession`, `session_dao.go:61-113`: a second, independent write |
| `UserMissing`, `PasswordIncorrect`, `PasswordCorrect` | `VerifyUser`, `user_dao.go:52-121`, on a copy that may lag, then `main.go:119-178` |
| `SessionNotFound`, `SessionRejected`, `SessionVerified` | `VerifySession`, `session_dao.go:115-192`; clients send a user id and a session id they were told, not necessarily together |
| `Fail`, `Tick`, `Expire`, `ReplicateUser`, `ReplicateSession` | errors and lost environments; the clock; DynamoDB's time to live (`cdk-stack.ts:121-131`); replication |

A request's first call is part of its arrival, because it has read nothing
before it.

### `SessionAuthority` (the promise)

Register, open, serve, each atomic: a name is registered once and for all, a
session opens for the name's password only, and a request is served only for
the user of a session that is open. `ImplementsAuthority` maps a row of
`users` to its id and password, `opened` to the openings, and a slot whose
answer is "verified" to one that serves.

### `BackendClient`, `CalendarDetail`

`BackendClient` is `CustomHttpClient.dart`: `send` are the sends with their
phases (the three awaits of `sendInternal`, the delay, the end), `wire` the
requests on their way and the answers on theirs back. It leaves open what
requests say; `CalendarDetail` extends it with the page of one calendar and a
service. `cloud` is the stored calendar, `model` the page's, `refreshing` its
progress marks, `here` the sends made from the page that is open; `applied`
and `told` are history.

| Action | Code |
|---|---|
| `Connected`, `HeadersArrive`, `BodyArrives` | `sendInternal`, 99-128 |
| `TimesOut`, `Breaks`, with `AttemptFails` | the catch clause, 82-96, with `_initializeHttpClient` 66-73: a timeout, a 5xx and any last try close the shared client with force, and the tries of the other sends break |
| `Retry` | 59-64: the delay has passed |
| `Apply`, `Refuse`, `OtherDevice` | the service (`calendar_dao.go:842-1043`, `main.go:394-442`): an update of the version it names, its days from a copy that may lag, or an answer without a `UpdateCalendarsResponse` the page takes |
| `Tap` | `calendar_month_widget.dart:204-222` |
| `Succeeds`, `IsRefused`, `SendFails` | the three ends of `addHighlightedDay` and `removeHighlightedDay`, `calendar_repository.dart:172-278` |
| `Open` | `calendar_detail.dart:67-101`: a new page with a model of its own, downloaded by a read that may lag, while the old one's sends go on |

The service is `CalendarBackend` as one calendar sees it, stale reads included.
`stored` is the history of the calendar's rows. An update passes on the version
and writes days computed from a copy in `stored` (the `GetItem` of
`calendar_dao.go:711`); the page's download is the same read, so that a page
opened again may show less than the page before it did. An update that took
effect is answered with its row, with a 5xx, or with a refusal, when the SDK
repeats the `UpdateItem` and it meets its own write. The calendar is created once
(a repeated PutItem is the subject of `rewind`) and not deleted. What a stale
copy does to days is the subject of `stale_days`; the page's properties hold in
spite of it, since they speak of rows and versions, and of a tap's own day. The
rebuilding of the widgets is part of the change they are notified of.

### The proofs

`CalendarBackendProofs`, `CalendarPromiseProofs` and `CalendarAtomicProofs`, `EphemeralKeysProofs`,
`GregorianCalendarProofs`, `DateRangesProofs`, `UserAccountsProofs`,
`CalendarDetailProofs`; see below.

<a name="runs"></a>
## Runs

| Run | Question | Answer |
|---|---|---|
| `race` | two invocations edit and delete one calendar, call by call | `FreshReadKeepsDays`, `UpdateNeverRecreates` hold, and the handlers look like the atomic operations of `VersionedCalendars` (`ImplementsPromise`) |
| `life` | one calendar from its creation on, with every write repeated by the SDK, a PutItem even after clients edited or deleted it | within one PutItem a version names one row, has one winner, and is refused only because of it; every invocation ends |
| `batch` | batches over two calendars, half-failed, crossed by readings, listings and deletion | `SuccessMeansStored`, `NoSharedSuccess`, `NoTornRows` hold |
| `stale_days` | does an edit apply to the version it names | **no**: with a lagging read an accepted edit drops days |
| `rewind` | is there one winner per version over a calendar's whole life | **no**: a repeated PutItem goes back to version 0 |
| `key_coverage` | two overlapping runs that fail, lag and repeat, over the turn of hours and the expiry of keys | `CoveredHoursHaveKeys`, `NoKeyBornExpired` hold |
| `key_lookup` | two environments cache keys while runs clobber each other and the hour turns | `EnvsAgree` holds |
| `key_recovery` | with runs of two deployments: is a key in use left alone, and does the current hour get its key after failures | `SettledKeysStay`, `Recovers` hold |
| `dates` | any sequence of operations, and ranges iterated in between, around 1900 and 2000, against the day count | `DaysExact`, `AlmostDate`, `WeekdayFollowsCount`, `DayOfYearCounts`, `OrderFollowsCount`, `WeekKept`, `LoopsShrink`, `MethodsEnd`, `RangeExact`, `RangeAscends`, `RangesEnd` hold |
| `lost_leap_day` | is the object always a day of the calendar | **no**: `addYears` leaves February 29, 2021 |
| `accounts` | two slots race to create two accounts, log in to them and use their sessions, over failures, lag and expiry | `OneCreatorPerName`, `SuccessMeansUsable`, `RefusalsHaveCauses` hold, and the requests implement `SessionAuthority` |
| `detail` | two taps over a network that loses answers and delivers requests late, while another device edits, the shared client is closed and the page is opened again | `AppliedOnce`, `ModelFollowsCloud`, `AnswersNeverGoBack`, `SuccessShowsTap`, `SendsEnd` hold |

The runs answered "no" are disagreements between the code and what
`proto/calendar.proto` or the comments of `gregorian_calendar.dart` say of it;
`PROJECT.json` quotes the lines.

Four of the date properties say where the code's answer is not the calendar's.
`AlmostDate` names the lost leap day. `DayOfYearCounts` leaves out July, where
the table (line 25) has 180 for 181, and February of a leap year, to which line
127 adds the leap day already. `WeekdayFollowsCount` leaves out the year 0, in
whose first two months line 118 truncates a negative year towards zero.
`WeekKept` leaves out the day number 0: on Tuesday the 1st,
`getWeekdaysFromWeek` asks for the Monday before as day 0 (line 309), which line
55 reads as 1, and answers the Tuesday again.

`RangeExact` leaves one thing open, because code and documentation contradict
each other. The comment of `addMonths` (lines 167-170) says that a day valid in
the month it lands on does not change. The code (177, 190) moves a last day to a
last day: from February 28 of a common year a month later is March 31, where the
comment has March 28, and a `MonthRange` from January 31 goes on over February 28
to March 31. `IsStep` therefore asks only that a first date on the 28th or later
leads to one on the 28th or later, which both readings do; `ShiftMonths` and
`ClampMonths`, the model, are the code. A day up to the 27th is kept. A year range
from February 29 goes on from March 1.

<a name="bounds"></a>
## Bounds

Two invocations are enough for every property about a pair of requests, since
an invocation's slot is used again and again; every property relates at most
two. `MaxVersion` stops clients from sending edits of higher versions (it is in
`Sendable`, so no handler is cut); two edits in a row suffice for a copy that is
older than the row. `MaxAttempts` bounds the SDK's tries (two: one repetition).
`race` and `batch` make one try: the promise holds only without repetitions (a
repeated PutItem stores a calendar again, see `rewind`). `life` has the
repetitions of all three writes, and explores one version because repeated
PutItems multiply rows. The
theorems have none of these bounds but `MaxVersion` and `MaxAttempts` as
arbitrary constants.

The windows of the `key_*` runs are one hour to each side or less, in place of
24: the loop treats its hours alike, and the window still moves over hours that
have keys, have none, and expire. `KeyLife` is the smallest that
`KeysAssumption` allows, the hardest case; the code's 28 hours against 24 leave
more room. Two runs suffice, since a clobbering takes two, and slots are used
again; `LastHour` stops the clock, `MaxMishaps` the failures. Each run has the
constants its question needs: environments only where lookups are checked, a
second ARN only where deployments matter.

`Years` of `dates` are four or five years around each century; `Room` keeps an
operation a year inside them, and `RoomUpTo` an iteration with the step beyond
its end. The shifts reach over one month, a leap day and the turn of a year in
both directions; from the states these make, sequences of them reach most days
of the years. Ranges end on, before and after leap days that are there and that
are not, from about `MaxDates` steps before the end to one step behind it (83
thousand states). `lost_leap_day` needs no ranges.

`accounts` has two of everything that can be confused: names, passwords, ids,
sessions, slots. Salts do not matter to what it checks but in the mutant that
mixes them up. A session lives two units of time and the clock stops at
`LastTime`, so that sessions are seen young, old and expired, and one whose
request crossed a turn.

`detail` has one day, two slots, two taps, one edit of another device; and two
tries for the code's three, the first and the last, which are the two that the
code treats differently. Two taps on one day compete for a version as taps on two
days do. What one day hides is which copy an update edited, since the update sets
the only day there is: with `Days = {d1, d2}` (and `d2` a constant), `Spec` for
`FairSpec` and no `SendsEnd`, the same file has 3.3 million states, in which the
other properties hold; it takes minutes and is no run of its own. Which row a
page downloads shows with one day. The theorems have none of these bounds but as
arbitrary constants.

<a name="fairness"></a>
## Fairness

`FairSpec` has weak fairness of `Handler(i)`: Lambda runs a started
invocation until it answers or is killed. Nothing is assumed of clients, of
replication or of failures. `InvocationsEnd` needs no more, because each loop
consumes its ids and repetitions are limited.

In `EphemeralKeys`, `FairSpec` starts runs again and again (the rule of
`cdk-stack.ts:242` fires every 15 minutes), carries them out (Lambda), and lets
replicas catch up (DynamoDB promises it, usually within a second). Failures
need no fairness: their number is bounded, which states "once runs stop
failing". Weak fairness per slot is enough because a free slot stays free until
its run starts. In `GregorianCalendar` the loops are fair: a method that was
called runs on; in `DateRanges` a loop over a range calls `moveNext()` again
until it answers false.

In `CalendarDetail`, `FairSpec` lets the application proceed: timers fire,
what has arrived is read, and the page's callbacks run, slot by slot. The
network and the service owe nothing, and no body need ever arrive, because the
code sets no timeout there: `SendsEnd` excepts that wait. A send that another
one's timeout broke fails its try, so tries are used up and every send ends.

<a name="proofs"></a>
## Proofs

`CalendarBackendProofs` proves, for all values of the constants that satisfy
`BackendAssumption`, `AbsentAssumption` and `TrafficAssumption`: `TypeOK`, `VersionNamesRow`, `OneWinnerPerVersion`,
`FreshReadKeepsDays`, `SuccessMeansStored`, `NoSharedSuccess`, `NoTornRows`,
`RefusalHasWinner` and `UpdateNeverRecreates`. It is the place where repeated
calls, batches and races are combined without a bound.

The argument rests on one inductive invariant, `IInv`, the conjunction of

- `TypeOK` and `PhasesOK`: where an invocation is says what it has read and
  that its versions are known ones;
- `TableIsNewest`: the row in the table is the newest of its PutItem, so an
  update that passes the condition makes a version that PutItem never had: this
  is why `VersionNamesRow` and `OneWinnerPerVersion` are preserved;
- `KnownStored` and `LogComplete`: a version a client knows was stored, and
  every version below a stored one was left by a logged update, which gives
  `RefusalHasWinner`;
- `LogLinks`: a logged update leads from one stored row to the next, computed
  from a stored copy; with `VersionNamesRow` it gives `FreshReadKeepsDays`;
- `ProgressLogged`: what a running batch has done is logged, and by it alone,
  which gives `SuccessMeansStored` and `NoSharedSuccess` at the answer.

None of the stated invariants is inductive alone. The module first gives typing
lemmas per action, then one effect lemma per action (`PutItemEffect`,
`UpdateItemEffect`, ...), then one preservation lemma per conjunct, and
`Inductive` combines them.

Two theorems beside the invariant: `ListingsGiveOldest`, which says what a
page leaves out, and `RequestsAdvance` (see [progress](#progress)).

`CalendarPromiseProofs` proves the refinement `ImplementsPromise` for every
behaviour in which no calendar is stored twice (`PutOnce`: at most one PutItem
takes effect per id), and so for `MaxAttempts = 1`, where that holds by itself
(`NoRepeatPutsOnce`). Repeated UpdateItems and DeleteItems are allowed: a repeated
UpdateItem fails its own condition and a repeated DeleteItem finds nothing.
Besides `IInv` the proof needs `Creating`: a PutItem under way is for a key
nothing was written to and no other PutItem is about, so that it is the one
creation of its calendar. A DeleteItem is `Delete`; an UpdateItem is `Rename`, or
`Mark` from the days of the copy it read, which the calendar had because the copy
was stored (`NoTornRows`).

<a name="repairs"></a>
### What would make the violated properties true

For each property a run finds violated, a theorem says under which condition it
holds. The condition is a hypothesis about the behaviour, not an assumption of
the model: the code does not guarantee it, some behaviours satisfy it, and the
theorem shows that nothing *else* in the code breaks the property.

| Violated in | Holds while | Theorem |
|---|---|---|
| `rewind` | `[]PutOnce`: no PutItem that took effect is repeated; a condition `attribute_not_exists(Id)` at `calendar_dao.go:536` would see to it | `OneWinnerEverWhilePutOnce` |
| `stale_days` | `[]PutOnce`, and `ReadsCurrent`: a `GetItem` answers with the row in the table; `ConsistentRead` at `calendar_dao.go:711` | `CurrentReadsLoseNoDay` |
| `lost_leap_day` | `LeapDaysKept`: nobody asks `addYears` for a common year on February 29 | `DaysRepresented` |

`CurrentReadsLoseNoDay` needs more than that the copy is the table's row: between
the read and the write others update. The proof shows that the copy is never
older than the version the client named (`ReadsAhead`, which is inductive), and
since the write's condition passes only if the row still has that version, copy
and row are one. Under the same two conditions `AtomicImplemented` refines
`CalendarBackend` to `AtomicCalendars`.

The exception of `EnvsAgree`, an exchanged key, is treated alike: `NoKeyExchanged`
shows that no key is exchanged where runs do not overlap (`OneRun`), decide on the
table and not on a replica (`ChecksCurrent`, line 70) and keep one ARN
(`ArnKept`), and `EnvsShareKey` that all environments then use one key per hour.
The put has no condition of its own, so its proof carries one
(`PutsIntoEmptyHour`): a run that is past its check finds its hour empty, or with
the row it has just put.

### Keys, dates, accounts, the page

`EphemeralKeysProofs` proves, for every window, key life, number of runs,
environments, keys and ARNs allowed by `KeysAssumption` and `NoRowAssumption`:
`TypeOK`, `CoveredHoursHaveKeys`, `EnvsAgree`, `NoKeyBornExpired` and
`SettledKeysStay`. Its `IInv` adds to the stated invariants

- `RunsOK`: a run is inside the window it started with, has crossed at most one
  turn of the hour, and has left keys in the hours behind it that still live.
  With it a run that ends well has covered its window, and no key is born
  expired, because `KeyLife > Past + 1`;
- `RowsOK`, `LookupsOK`: rows and fetched keys belong to their hour;
- `SeenIsStored` and `OneKeySeen`: where any reader has or may still read a key
  the table holds one until it expires, so a second key for the hour is always
  an exchange, and the keys seen for an hour that had none are one key. This is
  what makes `EnvsAgree` inductive.

The action property `SettledKeysStay` follows from `RunsOK` and `RowsOK` alone.

`GregorianCalendarProofs` proves, for all years and all numbers of days, months
and years: `TypeOK`, `DaysExact`, `AlmostDate`, `WeekdayFollowsCount`,
`DayOfYearCounts`, `OrderFollowsCount` and `WeekKept`. `TypeOK /\ DaysExact /\ AlmostDate` is inductive. The
lemmas under it are about the calendar itself: a year adds 365 or 366 days to
the count (`YearFollows`, from three facts about division), a month its length
(`MonthFollows`, `MonthOnAndBack`), a copy none (`CopyCounts`). `WeekdayCounts`
shows that Sakamoto's sum and the day count differ by a multiple of 7, and
`IntOrdersCount` that years, months and days are counted in the order of the
digits of `toInt`. It follows that the count names one date (`CountNamesDate`),
so that `DaysExact` leaves `addDays` no choice. Two theorems are about what the
model abstracts: the loops of `_addMonths` can end nowhere but at `ShiftMonths`
(`MonthLoopsShift`), and `Copy` is what `fromInt(toInt())` and the loops of the
constructor make of a date or a lost leap day (`CopyIsFromInt`).

`DateRangesProofs` proves, for all ends and increments, that `RangeSpec` implies
`Spec` of `GregorianCalendar` (`RangesUseCalendar`): an iteration only calls the
object's methods, so the theorems above hold in `dates` too. `RangeExact` needs
to know where `_nextDate` is: `Advanced` says it is the increment times the calls
of `moveNext()` away from the start, as a day count (in the loops too), or as a
distance in months or years (`StepByMonths`, `StepByYears`: one step more).
`RangeAscends` rests on `StepsAscend`: every step, also one that shortens a month
or starts from a lost leap day, moves the day count forward.

`UserAccountsProofs` proves, for any numbers of names, passwords, sessions,
slots and tries that satisfy `AccountsAssumption` and `AbsentAssumption`:
`TypeOK`, `OneCreatorPerName`, `SuccessMeansUsable`, `RefusalsHaveCauses` and the
refinement `ImplementsAuthority`. Its `IInv` adds to the first two

- `UsersOK`: a row of a name never changes once it is there, the replica has it
  or nothing, and two names never share an id;
- `SessionsOK`: a stored session is the one its opening made, for the account of
  the name and password that were presented, and only time takes it away;
- `RequestsOK`: what a running request has read is still the row of its name, no
  two requests carry one session, and a request crosses one turn at most (so the
  session it stores is not over yet);
- `ToldOK`: what a client was told is stored.

Two more theorems follow: a session is told to one client only
(`SessionsToldOnce`), and though a client may send any user id it knows with any
session id it knows, only a pair that was told together is verified
(`VerifiedPairsWereTold`).

`CalendarDetailProofs` proves, for any slots, days, taps, edits and tries:
`TypeOK`, `AppliedOnce`, `ModelFollowsCloud`, `AnswersNeverGoBack` and `SuccessShowsTap`. All copies
of a tap's request, on the wire and in the send, are equal (`RequestsOK`); once
one of them took effect the version it names is past, so none does again
(`EffectsOK`). A success that is still to arrive carries a row that was stored,
is news to the page it was sent from, and there is one at most (`SuccessesOK`,
`HereOK`): a second tap of that page names the version the first one made past.
That is why answers may come in any order. Rows are compared by version, and
every row there has been is behind the stored one or equal to it (`StoredOK`),
whatever copies its days came from; a lagging download keeps that, and takes no
send along (`here` is empty after `Open`). `AnswersNeverGoBack` excepts `Open`,
because nothing in the code keeps a download from being older than the page
before it.

<a name="progress"></a>
### Progress

A liveness property says that something ends *and* that what runs is run on. The
second half is fairness and stays with TLC. The first half is an action property:
each step takes something under way nearer to its end, whatever the others do.
Four theorems and two properties of `dates` give the measure:

| Liveness property | Measure | Theorem |
|---|---|---|
| `InvocationsEnd` | `Left`: the ids left to read and to write, times the SDK's tries | `RequestsAdvance` |
| `Recovers` | `CallsLeft`: the hours left of the window, times the calls of an hour | `RunsAdvance` |
| `SendsEnd` | `SendLeft`: the tries left, times the phases of one | `SendsAdvance` |
| `MethodsEnd` | `Remaining`, of the loops of `_addDays` (`LoopsShrink`) | `LoopsComeToEnd` |
| `RangesEnd` | the day count of the date given (`RangeAscends`) | `RangesAscend` |

The first three say so of a step that changes the request, the run or the send at
all, and that the measure is a natural number, so it cannot go down for ever. The
measure of `RangesEnd` goes up, to the end of the range. `RequestsAdvance` assumes
that `Cals` is finite: an id is 128 bits long. That a run ends is not yet
`Recovers`, which also needs that no later run exchanges the key for one of
another ARN for ever.

<a name="limits"></a>
## Only model-checked

The liveness properties `InvocationsEnd`, `Recovers`, `MethodsEnd`, `RangesEnd`
and `SendsEnd` are checked by TLC only: they need fairness, hence ENABLED, which
is out of the prover's reach. Their safety halves are proved
([progress](#progress)). The refinements and every safety property of a passing
run are proved. What the three violated properties lack is proved too; that it is
lacking is shown by the runs.

<a name="not-modelled"></a>
## Not modelled

- The contents of names and colours, the compression of `HighlightedDays`,
  logging and tracing; the inside of Argon2 and the encoding of a hash as text;
  the generated protobuf code; layout and texts.
- Session verification is one nondeterministic step in `CalendarBackend`;
  `UserAccounts` says when it accepts. KMS answers or fails.
- Listings beyond the first page: `NextToken` is never set by the service
  (`calendar_dao.go:248`), so a client cannot ask for one; `ListingsGiveOldest` says
  what it misses. How many bytes a page of DynamoDB holds is not modelled: it may
  end anywhere after its first row.
- A calendar deleted while its page is open: its taps are refused, which
  `CalendarDetail` allows at any time.
- Of `calendar_repository.dart`, the calls that pass a request on and an answer
  back (list, create, delete); they keep nothing.
- `calendar_list_model.dart`: a list, a loading flag and a selection, all used by
  the view only. The session flow of the application: navigation, and stored
  credentials no document makes a promise about.
- The custom resource of the key Lambda, which answers every CloudFormation
  request with success, keeps no state and is not deployed.
- Dates outside the years the constructor accepts, and ranges with a negative
  increment, which reach them. `getWeekdayOfMonth` drops the dates that its
  `addDays` and `addWeeks` return and is the constructor alone, so that it
  answers the first of the month whatever the weekday. `WeekdayMask` is a set of
  weekdays and only tests use it; its `setDay` takes the intersection to add a
  day, so that it adds none.

<a name="plan"></a>
## Plan

1. `CalendarBackend` with its promise and proofs (done).
2. `EphemeralKeys` with its proofs (done).
3. `GregorianDates` and `GregorianCalendar` with their proofs (done).
4. `UserAccounts` with its promise, `SessionAuthority`, and proofs (done).
5. `BackendClient`, the sends and the client they share (done).
6. `CalendarDetail`, the page over `BackendClient` and a service, with its proofs
   (done).
7. The refinement theorem for `CalendarBackend` when no call is repeated (done).
8. `DateRanges`, the iterators over the date object, with their proofs (done).
9. `AtomicCalendars`, and what the code lacks to implement it; progress measures
   (done).
10. Next: sessions in front of the calendar requests (`SessionAuthority` in the
    place of `RejectSession`).
