---------------------------- MODULE UserAccounts ----------------------------
(***************************************************************************)
(* The account half of the Go Lambda: create_user, login_user and the      *)
(* verification of sessions that starts every calendar request, against    *)
(* the tables of users and sessions (lambda/user_dao.go, session_dao.go,   *)
(* user_handler.go, password_hash.go and their handlers in main.go).       *)
(*                                                                         *)
(* Each DynamoDB call of a request is one step, the first one together     *)
(* with the arrival of the request, which reads nothing before it.         *)
(* PutItem is atomic, with or without a condition; GetItem reads a replica *)
(* that may lag; the SDK repeats a call whose response is lost, up to      *)
(* MaxAttempts times in all.  Time is counted in units longer than a       *)
(* request may run (10 seconds, cdk-stack.ts:181), so that a request       *)
(* crosses one turn at most.                                               *)
(***************************************************************************)
EXTENDS Naturals

CONSTANTS
    Usernames, Passwords,
    Salts,          \* what generateRandomBytes may return
    UserIds,        \* the UUIDs behind "userid_"
    SessionIds,     \* the UUIDs behind "sessionid_"
    Slots,          \* slots for concurrently running requests
    Absent,         \* no row, no value
    SessionLife,    \* sessionExpiryTime (14 days), session_dao.go:47
    LastTime,       \* bound: the clock stops there
    MaxAttempts     \* bound: tries the SDK makes of one DynamoDB call

ASSUME AccountsAssumption ==
    /\ SessionLife \in Nat /\ SessionLife > 1
    /\ LastTime \in Nat
    /\ MaxAttempts \in Nat \ {0}

-----------------------------------------------------------------------------
(* Passwords. *)

\* The Argon2id parameters of this build, with the version of the algorithm.
defaultParams ==
    [version |-> 19, memory |-> 256 * 1024, iterations |-> 3, parallelism |-> 2, keyLength |-> 32]

\* argon2.IDKey: two derived keys agree when all that went into them agrees.
IDKey(password, salt, params) == [password |-> password, salt |-> salt, params |-> params]

\* The encoded hash: what is needed to derive the key again, and the key.
generatePasswordHash(password, salt) ==
    [params |-> defaultParams, salt |-> salt, key |-> IDKey(password, salt, defaultParams)]

\* Mutant: the key is derived with another salt.
CompareUnsalted(password, hash) ==
    \E salt \in Salts : salt # hash.salt /\ IDKey(password, salt, hash.params) = hash.key

\* decodeHash refuses other versions, which no row of this build has.
decodeHash(hash) == [params |-> hash.params, salt |-> hash.salt, key |-> hash.key]

comparePasswordAndHash(password, hash) ==
    LET decoded == decodeHash(hash)
    IN  IDKey(password, decoded.salt, decoded.params) = decoded.key

Hash == UNION {{generatePasswordHash(p, s) : s \in Salts} : p \in Passwords}

-----------------------------------------------------------------------------

UserRow == [id: UserIds, hash: Hash]

SessionRow == [userId: UserIds, expiry: Nat]

\* What opened a session, a history record: the name and password presented,
\* and until when it may be used.
Opening == [name: Usernames, password: Passwords, until: Nat]

ASSUME AbsentAssumption ==
    Absent \notin Usernames \cup Passwords \cup Salts \cup UserIds \cup SessionIds
                  \cup UserRow \cup SessionRow \cup Opening
                  \cup [id: UserIds, password: Passwords]

Opt(S) == S \cup {Absent}

\* A request: what the client sent, the call it is at, what it has made up or
\* read so far, when it began, how often the current call was sent.  Of a
\* request that is over only the answer is left, with the user and the session
\* when it is a calendar request that was verified.
Request ==
    [op: {"none", "create", "login"}, pc: {"idle", "putUser", "putSession"},
     name: Opt(Usernames), password: Opt(Passwords), userId: Opt(UserIds),
     session: Opt(SessionIds), expiry: Nat, began: Nat, tries: Nat,
     answer: {"none", "success", "refused", "verified"}]

\* A success told to a client, with the credentials it carries.
Told == [op: {"create", "login"}, name: Usernames, userId: UserIds, session: SessionIds]

VARIABLES
    users,          \* the table of users, by name
    usersLag,       \* the replica of it that GetItem may read
    sessions,       \* the table of sessions, by id
    sessionsLag,    \* the replica of it that GetItem may read
    now,            \* the clock
    req,            \* the requests
    told,           \* successes clients were told of
    opened          \* history: what opened each session

vars == <<users, usersLag, sessions, sessionsLag, now, req, told, opened>>
tables == <<users, usersLag, sessions, sessionsLag, now, opened>>

Blank ==
    [op |-> "none", pc |-> "idle", name |-> Absent, password |-> Absent, userId |-> Absent,
     session |-> Absent, expiry |-> 0, began |-> 0, tries |-> 0, answer |-> "none"]

Running(r) == req[r].pc # "idle"

\* A request arrives in a slot that is free.
Arrived(op, u, p) == [Blank EXCEPT !.op = op, !.name = u, !.password = p, !.began = now]

-----------------------------------------------------------------------------
(* Answers. *)

\* The response leaves, and the memory of the request is gone.
Answer(r, answer) == req' = [req EXCEPT ![r] = [Blank EXCEPT !.answer = answer]]

\* Success with a session, whose id the client then knows.
AnswerSession(r) ==
    /\ Answer(r, "success")
    /\ told' = told \cup {[op |-> req[r].op, name |-> req[r].name,
                           userId |-> req[r].userId, session |-> req[r].session]}

\* The SDK gets no response to the call it made and will send it again.
Repeat(r) ==
    /\ req[r].tries + 1 < MaxAttempts
    /\ req' = [req EXCEPT ![r].tries = @ + 1]
    /\ UNCHANGED told

-----------------------------------------------------------------------------
(* CreateSession, the end of both create_user and login_user. *)

\* A UUID nothing else uses.
FreshSession(s) ==
    opened[s] = Absent /\ \A r \in Slots : Running(r) => req[r].session # s

\* The session's id and expiry are made up, for the user whose id is given.
OpenSession(r, arrived, id) ==
    \E s \in SessionIds :
       /\ FreshSession(s)
       /\ req' = [req EXCEPT ![r] = [arrived EXCEPT
                    !.pc = "putSession", !.userId = id, !.session = s,
                    !.expiry = now + SessionLife]]

\* Mutant: the session is stored for the name in place of the id.
NewSessionOfName(r) == [userId |-> req[r].name, expiry |-> req[r].expiry]

NewSession(r) == [userId |-> req[r].userId, expiry |-> req[r].expiry]

\* Mutant: the answer does not wait for the write.
PutSessionLater(r) ==
    /\ req[r].pc = "putSession"
    /\ AnswerSession(r)
    /\ UNCHANGED tables

\* The unconditional PutItem, then the answer or another try.
PutSession(r) ==
    /\ req[r].pc = "putSession"
    /\ sessions' = [sessions EXCEPT ![req[r].session] = NewSession(r)]
    /\ opened' = [opened EXCEPT ![req[r].session] =
                    [name |-> req[r].name, password |-> req[r].password, until |-> req[r].expiry]]
    /\ AnswerSession(r) \/ Repeat(r)
    /\ UNCHANGED <<users, usersLag, sessionsLag, now>>

-----------------------------------------------------------------------------
(* create_user. *)

FreshUserId(id) == \A u \in Usernames : users[u] # Absent => users[u].id # id

\* A PutItem on the condition attribute_not_exists(Username): the row is stored
\* with a new id and the password hashed with a new salt.  Then the session is
\* next, or, the response being lost, the same PutItem.
CreateUser(r, u, p) ==
    /\ ~Running(r)
    /\ users[u] = Absent
    /\ \E id \in UserIds, salt \in Salts :
          /\ FreshUserId(id)
          /\ users' = [users EXCEPT ![u] = [id |-> id, hash |-> generatePasswordHash(p, salt)]]
          /\ \/ OpenSession(r, Arrived("create", u, p), id)
             \/ /\ MaxAttempts > 1
                /\ req' = [req EXCEPT ![r] = [Arrived("create", u, p) EXCEPT !.pc = "putUser"]]
    /\ UNCHANGED <<usersLag, sessions, sessionsLag, now, told, opened>>

\* Mutant: for whoever has its password, a name that is taken is created.
UserTakenOver(r, u) ==
    /\ ~Running(r)
    /\ users[u] # Absent
    /\ \E p \in Passwords :
          /\ comparePasswordAndHash(p, users[u].hash)
          /\ OpenSession(r, Arrived("create", u, p), users[u].id)
    /\ UNCHANGED <<tables, told>>

\* ConditionalCheckFailedException: USER_ALREADY_EXISTS.
UserAlreadyExists(r, u) ==
    /\ ~Running(r)
    /\ users[u] # Absent
    /\ Answer(r, "refused")
    /\ UNCHANGED <<tables, told>>

\* The PutItem repeated finds its own row: USER_ALREADY_EXISTS as well.
OwnUserExists(r) ==
    /\ req[r].pc = "putUser"
    /\ users[req[r].name] # Absent
    /\ Answer(r, "refused")
    /\ UNCHANGED <<tables, told>>

-----------------------------------------------------------------------------
(* login_user. *)

\* What VerifyUser's GetItem may return.
UserCopies(u) == {users[u], usersLag[u]}

\* No row: the password is hashed all the same, and the login refused.
UserMissing(r, u) ==
    /\ ~Running(r)
    /\ Absent \in UserCopies(u)
    /\ Answer(r, "refused")
    /\ UNCHANGED <<tables, told>>

PasswordIncorrect(r, u, p) ==
    /\ ~Running(r)
    /\ \E row \in UserCopies(u) \ {Absent} : ~comparePasswordAndHash(p, row.hash)
    /\ Answer(r, "refused")
    /\ UNCHANGED <<tables, told>>

\* The password matches: on to CreateSession for the id in the row.
PasswordCorrect(r, u, p) ==
    /\ ~Running(r)
    /\ \E row \in UserCopies(u) \ {Absent} :
          /\ comparePasswordAndHash(p, row.hash)
          /\ OpenSession(r, Arrived("login", u, p), row.id)
    /\ UNCHANGED <<tables, told>>

-----------------------------------------------------------------------------
(* VerifySession. *)

\* A client sends a user id and a session id that it was told of, not
\* necessarily together.
Presentable(id, s) ==
    /\ \E t \in told : t.userId = id
    /\ \E t \in told : t.session = s

SessionCopies(s) == {sessions[s], sessionsLag[s]}

\* Mutant: the user is not compared.
AcceptsAnyUser(row, id) == now < row.expiry

\* The session is the proposed user's and has not expired.
Accepts(row, id) == row.userId = id /\ now < row.expiry

\* ErrSessionNotFound.
SessionNotFound(r, id, s) ==
    /\ ~Running(r)
    /\ Presentable(id, s)
    /\ Absent \in SessionCopies(s)
    /\ Answer(r, "refused")
    /\ UNCHANGED <<tables, told>>

\* ErrSessionDoesNotMatchProposedUserId, ErrSessionExpired.
SessionRejected(r, id, s) ==
    /\ ~Running(r)
    /\ Presentable(id, s)
    /\ \E row \in SessionCopies(s) \ {Absent} : ~Accepts(row, id)
    /\ Answer(r, "refused")
    /\ UNCHANGED <<tables, told>>

\* The calendar request goes on, for this user and session.
SessionVerified(r, id, s) ==
    /\ ~Running(r)
    /\ Presentable(id, s)
    /\ \E row \in SessionCopies(s) \ {Absent} : Accepts(row, id)
    /\ req' = [req EXCEPT ![r] = [Blank EXCEPT
                 !.answer = "verified", !.userId = id, !.session = s]]
    /\ UNCHANGED <<tables, told>>

-----------------------------------------------------------------------------
(* The environment. *)

\* A call fails for good (create_user answers HTTP 400, login_user 500, a
\* calendar request COULD_NOT_VERIFY_SESSION_ERROR), or the Lambda times out or
\* dies: no row leaves it, and its memory is gone.  Its write may be stored.
Fail(r) ==
    /\ Running(r)
    /\ req' = [req EXCEPT ![r] = Blank]
    /\ UNCHANGED <<tables, told>>

Tick ==
    /\ now < LastTime
    /\ \A r \in Slots : Running(r) => req[r].began = now
    /\ now' = now + 1
    /\ UNCHANGED <<users, usersLag, sessions, sessionsLag, req, told, opened>>

\* DynamoDB's time to live, on ExpiryEpochSeconds.
Expire(s) ==
    /\ sessions[s] # Absent
    /\ now >= sessions[s].expiry
    /\ sessions' = [sessions EXCEPT ![s] = Absent]
    /\ UNCHANGED <<users, usersLag, sessionsLag, now, req, told, opened>>

ReplicateUser(u) ==
    /\ usersLag[u] # users[u]
    /\ usersLag' = [usersLag EXCEPT ![u] = users[u]]
    /\ UNCHANGED <<users, sessions, sessionsLag, now, req, told, opened>>

ReplicateSession(s) ==
    /\ sessionsLag[s] # sessions[s]
    /\ sessionsLag' = [sessionsLag EXCEPT ![s] = sessions[s]]
    /\ UNCHANGED <<users, usersLag, sessions, now, req, told, opened>>

-----------------------------------------------------------------------------

Init ==
    /\ users       = [u \in Usernames |-> Absent]
    /\ usersLag    = [u \in Usernames |-> Absent]
    /\ sessions    = [s \in SessionIds |-> Absent]
    /\ sessionsLag = [s \in SessionIds |-> Absent]
    /\ now         = 0
    /\ req         = [r \in Slots |-> Blank]
    /\ told        = {}
    /\ opened      = [s \in SessionIds |-> Absent]

\* A request arrives and makes its first call.
Arrive(r) ==
    \/ \E u \in Usernames, p \in Passwords :
          CreateUser(r, u, p) \/ PasswordIncorrect(r, u, p) \/ PasswordCorrect(r, u, p)
    \/ \E u \in Usernames : UserAlreadyExists(r, u) \/ UserMissing(r, u)
    \/ \E id \in UserIds, s \in SessionIds :
          SessionNotFound(r, id, s) \/ SessionRejected(r, id, s) \/ SessionVerified(r, id, s)

\* A request that is running makes its next call.
Handler(r) == OwnUserExists(r) \/ PutSession(r)

Environment ==
    \/ Tick
    \/ \E u \in Usernames : ReplicateUser(u)
    \/ \E s \in SessionIds : Expire(s) \/ ReplicateSession(s)

Next ==
    \/ \E r \in Slots : Arrive(r) \/ Handler(r) \/ Fail(r)
    \/ Environment

Spec == Init /\ [][Next]_vars

-----------------------------------------------------------------------------
(* Properties. *)

\* Every variable has its type.
TypeOK ==
    /\ users       \in [Usernames -> Opt(UserRow)]
    /\ usersLag    \in [Usernames -> Opt(UserRow)]
    /\ sessions    \in [SessionIds -> Opt(SessionRow)]
    /\ sessionsLag \in [SessionIds -> Opt(SessionRow)]
    /\ now         \in Nat
    /\ req         \in [Slots -> Request]
    /\ told        \subseteq Told
    /\ opened      \in [SessionIds -> Opt(Opening)]

\* One client at most is told that it created an account, whatever requests
\* race for its name and whatever the SDK repeats.
OneCreatorPerName ==
    \A t, v \in told : (t.op = "create" /\ v.op = "create" /\ t.name = v.name) => t = v

\* Credentials a client was told work: until it expires, the session is in the
\* table, for the id of the account the client named.
SuccessMeansUsable ==
    \A t \in told :
       /\ users[t.name] # Absent /\ users[t.name].id = t.userId
       /\ opened[t.session] # Absent
       /\ now < opened[t.session].until =>
             /\ sessions[t.session] # Absent
             /\ sessions[t.session].userId = t.userId
             /\ sessions[t.session].expiry = opened[t.session].until

\* The password of the account, as the hash in its row has it.
Secret(u) == users[u].hash.key.password

\* A right password, or the credentials a client was told, are refused only by
\* a replica that has not got the row yet, or once the session has expired.
RefusalsHaveCauses ==
    [][\A r \in Slots :
          /\ \A u \in Usernames, p \in Passwords :
                (PasswordIncorrect(r, u, p) /\ users[u] # Absent) => Secret(u) # p
          /\ \A t \in told :
                (SessionRejected(r, t.userId, t.session) \/ SessionNotFound(r, t.userId, t.session))
                => sessionsLag[t.session] = Absent \/ now >= opened[t.session].until]_vars

-----------------------------------------------------------------------------
(* The promise this implements. *)

Account(u) == IF users[u] = Absent THEN Absent
              ELSE [id |-> users[u].id, password |-> Secret(u)]

Serving(r) == IF req[r].answer = "verified"
              THEN [userId |-> req[r].userId, session |-> req[r].session] ELSE Absent

Authority == INSTANCE SessionAuthority WITH
    account <- [u \in Usernames |-> Account(u)],
    openings <- opened,
    serving <- [r \in Slots |-> Serving(r)],
    time <- now

\* The requests, call by call and interleaved, implement SessionAuthority: an
\* account never changes, a session opens only for the account's password,
\* and a request is served only for the user of a session that is open.
ImplementsAuthority == Authority!Spec
=============================================================================
