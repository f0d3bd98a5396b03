--------------------------- MODULE EphemeralKeys ---------------------------
(***************************************************************************)
(* The keys for pagination tokens: a scheduled Lambda                      *)
(* (ephemeral-key-lambda/main.go) keeps one encrypted data key per hour in *)
(* a DynamoDB table, from Past hours ago to Ahead hours ahead; the         *)
(* calendar service (lambda/calendar_dao.go:80-171) looks up the key of    *)
(* the current hour, decrypts it and caches it per Lambda environment.     *)
(*                                                                         *)
(* Runs may overlap (a manual start, a retry by Lambda), fail between any  *)
(* two calls, and use the key ARN of an older deployment.  Reads may be    *)
(* answered by a replica that lags.  DynamoDB's TTL deletes expired rows.  *)
(* Time is counted in hours, the granularity of the table's key.           *)
(***************************************************************************)
EXTENDS Integers, FiniteSets

CONSTANTS
    Past, Ahead,    \* the window of hours a run visits; 24 and 24 in the code
    KeyLife,        \* hours from a key's hour to its expiry; 28 in the code
    LastHour,       \* bound: the clock stops there
    Runs,           \* slots for concurrent runs of the generator
    Envs,           \* Lambda environments of the calendar service
    Arns,           \* KMS keys a deployment may use
    Data,           \* data keys KMS generates
    Absent,         \* no row, no cached key
    MaxAttempts,    \* bound: tries the SDK makes of one PutItem
    MaxMishaps      \* bound: failures of runs and redeployments

\* Keys outlive the window of a run by more than the hour boundary a run may
\* cross: in the code, 28 > 24 + 1.
ASSUME KeysAssumption ==
    /\ Past \in Nat /\ Ahead \in Nat /\ KeyLife \in Nat
    /\ KeyLife > Past + 1
    /\ LastHour \in Nat /\ Past <= LastHour
    /\ MaxAttempts \in Nat \ {0} /\ MaxMishaps \in Nat

Hours  == 0 .. LastHour + Ahead
Clocks == Past .. LastHour

\* EphemeralKey, under its DateTime_Shard.  The encryption context binds the
\* encrypted key to the hour it was made for.
Row  == [arn: Arns, hour: Hours, data: Data, expiry: Nat]
Blob == [hour: Hours, data: Data]

ASSUME NoRowAssumption == Absent \notin Row \cup Blob

OptRow  == Row \cup {Absent}
OptBlob == Blob \cup {Absent}

\* A run of the generator: the hour it started in, the hour its loop is at.
Run == [pc: {"idle", "check", "generate", "put"}, arn: Arns \cup {Absent},
        start: Clocks, at: Hours, data: Data \cup {Absent}, tries: Nat]

NoRun == [pc |-> "idle", arn |-> Absent, start |-> Past, at |-> 0, data |-> Absent, tries |-> 0]

\* An environment of the service: the lookup it is making, and its cache.
Env == [pc: {"idle", "get", "decrypt"}, hour: Clocks, blob: OptBlob,
        cache: [Hours -> OptBlob]]

NoLookup(cache) == [pc |-> "idle", hour |-> Past, blob |-> Absent, cache |-> cache]

VARIABLES
    clock,      \* the current hour
    arn,        \* PAGINATION_KEY_ARN of the current deployment
    table,      \* the table of ephemeral keys
    lag,        \* the replica a GetItem may read
    run,        \* the generator's runs
    env,        \* the service's environments
    mishaps,    \* failures and redeployments so far
    covered,    \* history: the hours of the runs that ended well
    replaced    \* history: the hours whose key was exchanged for another

vars == <<clock, arn, table, lag, run, env, mishaps, covered, replaced>>

-----------------------------------------------------------------------------
(* The generator. *)

\* The hours from utcNow-24h to utcNow+24h.
Window(hour) == hour - Past .. hour + Ahead

NoRows == [h \in Hours |-> Absent]

Copies(h) == {table[h], lag[h]}

\* The EventBridge rule, or anyone else, starts a run.
StartRun(r) ==
    /\ run[r].pc = "idle"
    /\ run' = [run EXCEPT ![r] = [@ EXCEPT !.pc = "check", !.arn = arn, !.start = clock,
                                           !.at = clock - Past, !.tries = 0]]
    /\ UNCHANGED <<clock, arn, table, lag, env, mishaps, covered, replaced>>

\* Mutants: the loop ends one hour early, or one late.
OneHourLess(r) == run[r].at + 1 < run[r].start + Ahead

OneHourMore(r) == run[r].at <= run[r].start + Ahead

\* currentTime.Before(endTime), of the next currentTime.
MoreHours(r) == run[r].at < run[r].start + Ahead

\* process succeeded: on to the next hour, or the run is over.
NextHour(r) ==
    IF MoreHours(r)
    THEN /\ run' = [run EXCEPT ![r] = [@ EXCEPT !.pc = "check", !.at = run[r].at + 1,
                                                !.data = Absent, !.tries = 0]]
         /\ UNCHANGED covered
    ELSE /\ run' = [run EXCEPT ![r] = NoRun]
         /\ covered' = covered \cup Window(run[r].start)

\* Mutants: any row is kept; every row is regenerated.
AnyArn(r, row) == row # Absent

NeverSame(r, row) == FALSE

\* A row the run keeps as it is.
UsesSameArn(r, row) == row # Absent /\ row.arn = run[r].arn

\* "process already found key", of the same ARN.
KeyExists(r) ==
    /\ run[r].pc = "check"
    /\ \E row \in Copies(run[r].at) : UsesSameArn(r, row)
    /\ NextHour(r)
    /\ UNCHANGED <<clock, arn, table, lag, env, mishaps, replaced>>

\* No row, or one of a different ARN.
KeyNeeded(r) ==
    /\ run[r].pc = "check"
    /\ \E row \in Copies(run[r].at) : ~UsesSameArn(r, row)
    /\ run' = [run EXCEPT ![r].pc = "generate"]
    /\ UNCHANGED <<clock, arn, table, lag, env, mishaps, covered, replaced>>

\* GenerateDataKeyWithoutPlaintext.
Generate(r) ==
    /\ run[r].pc = "generate"
    /\ \E d \in Data : run' = [run EXCEPT ![r] = [@ EXCEPT !.pc = "put", !.data = d]]
    /\ UNCHANGED <<clock, arn, table, lag, env, mishaps, covered, replaced>>

NewRow(r) == [arn |-> run[r].arn, hour |-> run[r].at, data |-> run[r].data,
              expiry |-> run[r].at + KeyLife]

\* "Put/clobber": unconditional, and repeated by the SDK when no response comes.
PutItem(r) ==
    LET h == run[r].at
    IN  /\ run[r].pc = "put"
        /\ table' = [table EXCEPT ![h] = NewRow(r)]
        /\ replaced' = IF table[h] \in {Absent, NewRow(r)} THEN replaced ELSE replaced \cup {h}
        /\ \/ NextHour(r)
           \/ /\ run[r].tries + 1 < MaxAttempts
              /\ run' = [run EXCEPT ![r].tries = @ + 1]
              /\ UNCHANGED covered
        /\ UNCHANGED <<clock, arn, lag, env, mishaps>>

\* A call fails or the run times out: the hours after it are not visited.
RunFails(r) ==
    /\ run[r].pc # "idle"
    /\ mishaps < MaxMishaps
    /\ mishaps' = mishaps + 1
    /\ run' = [run EXCEPT ![r] = NoRun]
    /\ UNCHANGED <<clock, arn, table, lag, env, covered, replaced>>

-----------------------------------------------------------------------------
(* The service: getPaginationKey. *)

\* The id of the current hour; a cached key is the answer.
StartLookup(e) ==
    /\ env[e].pc = "idle"
    /\ env[e].cache[clock] = Absent
    /\ env' = [env EXCEPT ![e] = [@ EXCEPT !.pc = "get", !.hour = clock]]
    /\ UNCHANGED <<clock, arn, table, lag, run, mishaps, covered, replaced>>

KeyOf(row) == [hour |-> row.hour, data |-> row.data]

\* getEncryptedPaginationKeyFromDynamoDb
FetchKey(e) ==
    /\ env[e].pc = "get"
    /\ \E row \in Copies(env[e].hour) \ {Absent} :
          env' = [env EXCEPT ![e] = [@ EXCEPT !.pc = "decrypt", !.blob = KeyOf(row)]]
    /\ UNCHANGED <<clock, arn, table, lag, run, mishaps, covered, replaced>>

\* Mutant: the id is computed again after the calls.
CacheUnderClock(e) ==
    /\ env[e].pc = "decrypt"
    /\ env' = [env EXCEPT ![e] = NoLookup([env[e].cache EXCEPT ![clock] = env[e].blob])]
    /\ UNCHANGED <<clock, arn, table, lag, run, mishaps, covered, replaced>>

\* decryptKey, under the encryption context of the id, and paginationKeyCache.Set.
DecryptKey(e) ==
    /\ env[e].pc = "decrypt"
    /\ env[e].blob.hour = env[e].hour
    /\ env' = [env EXCEPT ![e] = NoLookup([env[e].cache EXCEPT ![env[e].hour] = env[e].blob])]
    /\ UNCHANGED <<clock, arn, table, lag, run, mishaps, covered, replaced>>

\* ErrNoPaginationKeyFoundInDdb, or any other error: the listing fails.
LookupFails(e) ==
    /\ env[e].pc # "idle"
    /\ env' = [env EXCEPT ![e] = NoLookup(env[e].cache)]
    /\ UNCHANGED <<clock, arn, table, lag, run, mishaps, covered, replaced>>

\* The cache forgets a key an hour after it was cached.
CacheExpires(e, h) ==
    /\ h < clock /\ env[e].cache[h] # Absent
    /\ env' = [env EXCEPT ![e].cache[h] = Absent]
    /\ UNCHANGED <<clock, arn, table, lag, run, mishaps, covered, replaced>>

-----------------------------------------------------------------------------
(* The environment. *)

\* Mutant: no timeouts.
UnboundedTick ==
    /\ clock < LastHour
    /\ clock' = clock + 1
    /\ UNCHANGED <<arn, table, lag, run, env, mishaps, covered, replaced>>

\* The hour turns.  Nothing that runs has crossed a turn already: the timeouts
\* are 30 and 10 seconds (cdk-stack.ts:230, :181).
Tick ==
    /\ clock < LastHour
    /\ \A r \in Runs : run[r].pc # "idle" => run[r].start = clock
    /\ \A e \in Envs : env[e].pc # "idle" => env[e].hour = clock
    /\ clock' = clock + 1
    /\ UNCHANGED <<arn, table, lag, run, env, mishaps, covered, replaced>>

\* A deployment with another KMS key; runs under way keep theirs.
Redeploy ==
    /\ mishaps < MaxMishaps
    /\ \E a \in Arns \ {arn} : arn' = a
    /\ mishaps' = mishaps + 1
    /\ UNCHANGED <<clock, table, lag, run, env, covered, replaced>>

Replicate(h) ==
    /\ lag[h] # table[h]
    /\ lag' = [lag EXCEPT ![h] = table[h]]
    /\ UNCHANGED <<clock, arn, table, run, env, mishaps, covered, replaced>>

\* The TTL attribute: a row may be deleted once its expiry is past.
Expire(h) ==
    /\ table[h] # Absent
    /\ table[h].expiry <= clock
    /\ table' = [table EXCEPT ![h] = Absent]
    /\ UNCHANGED <<clock, arn, lag, run, env, mishaps, covered, replaced>>

-----------------------------------------------------------------------------

Init ==
    /\ clock = Past
    /\ arn \in Arns
    /\ table = NoRows
    /\ lag = NoRows
    /\ run = [r \in Runs |-> NoRun]
    /\ env = [e \in Envs |-> NoLookup(NoRows)]
    /\ mishaps = 0
    /\ covered = {}
    /\ replaced = {}

RunStep(r) == KeyExists(r) \/ KeyNeeded(r) \/ Generate(r) \/ PutItem(r)

Lookup(e) ==
    \/ StartLookup(e) \/ FetchKey(e) \/ DecryptKey(e) \/ LookupFails(e)
    \/ \E h \in Hours : CacheExpires(e, h)

Next ==
    \/ \E r \in Runs : StartRun(r) \/ RunStep(r) \/ RunFails(r)
    \/ \E e \in Envs : Lookup(e)
    \/ Tick \/ Redeploy
    \/ \E h \in Hours : Replicate(h) \/ Expire(h)

Spec == Init /\ [][Next]_vars

\* The schedule keeps starting runs (cdk-stack.ts:241), Lambda carries them
\* out, and DynamoDB's replicas catch up.
FairSpec ==
    /\ Spec
    /\ \A r \in Runs : WF_vars(StartRun(r)) /\ WF_vars(RunStep(r))
    /\ \A h \in Hours : WF_vars(Replicate(h))

-----------------------------------------------------------------------------
(* Properties. *)

\* Every variable has its type.
TypeOK ==
    /\ clock \in Clocks
    /\ arn \in Arns
    /\ table \in [Hours -> OptRow]
    /\ lag \in [Hours -> OptRow]
    /\ run \in [Runs -> Run]
    /\ env \in [Envs -> Env]
    /\ mishaps \in Nat
    /\ covered \subseteq Hours
    /\ replaced \subseteq Hours

Live(h) == clock < h + KeyLife

\* One run that ends well gives every hour of its window a key, which stays
\* until it expires: for Ahead hours after it, listings find the key of the
\* current hour, however many runs fail or clobber each other meanwhile.
CoveredHoursHaveKeys ==
    \A h \in covered : Live(h) => table[h] # Absent

\* A run never makes a key that the TTL may delete at once: the oldest hour it
\* visits is younger than KeyLife, even when the run crosses an hour.
NoKeyBornExpired ==
    [][\A h \in Hours : table'[h] \notin {table[h], Absent} => Live(h)]_vars

\* A key every run agrees on: replicated, of the deployed ARN, and no run has
\* already decided to replace it.
Settled(h) ==
    /\ table[h] # Absent /\ lag[h] = table[h] /\ table[h].arn = arn
    /\ \A r \in Runs : run[r].pc # "idle" =>
          /\ run[r].arn = arn
          /\ run[r].at = h => run[r].pc = "check"

\* A settled key stays the key of its hour, settled, until it expires or
\* another ARN is deployed: later runs leave it alone, so tokens stay readable.
SettledKeysStay ==
    [][\A h \in Hours : (Settled(h) /\ arn' = arn /\ Live(h)) =>
          Settled(h)' /\ table'[h] = table[h]]_vars

\* Two environments use different keys for an hour only if the generator
\* exchanged the key of that hour; in particular, a lookup during which the
\* hour turns does not file the key under the wrong hour.
EnvsAgree ==
    \A e, f \in Envs, h \in Hours :
       Absent \notin {env[e].cache[h], env[f].cache[h]}
       => env[e].cache[h] = env[f].cache[h] \/ h \in replaced

\* Once runs stop failing, the current hour has a key of the deployed ARN for
\* good, even if an older deployment's run clobbered it.
Recovers == <>[](table[clock] # Absent /\ table[clock].arn = arn)

-----------------------------------------------------------------------------
(* The inductive invariant behind them. *)

\* A run is at an hour of the window it started with, and has crossed at most
\* one turn of the hour.
RunOK(r) ==
    run[r].pc # "idle" =>
       /\ run[r].arn \in Arns
       /\ run[r].start <= clock /\ clock <= run[r].start + 1
       /\ run[r].at \in Window(run[r].start)
       /\ run[r].pc = "put" => run[r].data \in Data

\* The hours it has left behind have keys.
LeftBehind(r) ==
    run[r].pc # "idle" =>
       \A h \in run[r].start - Past .. run[r].at - 1 : Live(h) => table[h] # Absent

RunsOK == \A r \in Runs : RunOK(r) /\ LeftBehind(r)

\* A row belongs to the hour it is stored under, and expires KeyLife later.
RowsOK ==
    \A h \in Hours : \A row \in Copies(h) \ {Absent} :
       row.hour = h /\ row.expiry = h + KeyLife

LookupsOK ==
    \A e \in Envs : env[e].pc = "decrypt" =>
       env[e].blob # Absent /\ env[e].blob.hour = env[e].hour

\* The keys of hour h that some reader has, or may still read.
Seen(h) ==
    {KeyOf(row) : row \in Copies(h) \ {Absent}}
    \cup {env[e].cache[h] : e \in {f \in Envs : env[f].cache[h] # Absent}}
    \cup {env[e].blob : e \in {f \in Envs : env[f].pc = "decrypt" /\ env[f].hour = h}}

\* Where a key was seen there still is one until it expires, so the generator
\* never puts a second one into an hour that looks empty.
SeenIsStored == \A h \in Hours : (Live(h) /\ Seen(h) # {}) => table[h] # Absent

OneKeySeen == \A h \in Hours \ replaced : \A b, c \in Seen(h) : b = c
=============================================================================
