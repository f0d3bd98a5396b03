------------------------- MODULE UserAccountsProofs -------------------------
(***************************************************************************)
(* Theorems about UserAccounts, for any number of names, passwords, users, *)
(* sessions and concurrent requests, any session life and any number of    *)
(* tries.                                                                  *)
(***************************************************************************)
EXTENDS UserAccounts, TLAPS

-----------------------------------------------------------------------------
(* The inductive invariant. *)

\* Ids tell names apart, and a replica is behind, never wrong.
UsersOK ==
    /\ \A u, v \in Usernames :
          (users[u] # Absent /\ users[v] # Absent /\ users[u].id = users[v].id) => u = v
    /\ \A u \in Usernames : usersLag[u] # Absent => usersLag[u] = users[u]

\* A row of the session table is what opened the session has it.
RowOK(s, row) ==
    /\ opened[s] # Absent
    /\ row.userId = users[opened[s].name].id
    /\ row.expiry = opened[s].until

\* A session was opened with the password of its name, and stays in the table
\* until it expires.
OpenedOK(s) ==
    /\ users[opened[s].name] # Absent
    /\ Secret(opened[s].name) = opened[s].password
    /\ now < opened[s].until => sessions[s] # Absent

SessionsOK ==
    \A s \in SessionIds :
       /\ sessions[s] # Absent => RowOK(s, sessions[s])
       /\ sessionsLag[s] # Absent => RowOK(s, sessionsLag[s])
       /\ opened[s] # Absent => OpenedOK(s)

\* A request that is about to write a session has authenticated its user, and
\* its session, if it is open, is open through its own writes.
Authentic(r) ==
    /\ req[r].op # "none"
    /\ req[r].name \in Usernames /\ req[r].password \in Passwords
    /\ req[r].userId \in UserIds /\ req[r].session \in SessionIds
    /\ users[req[r].name] # Absent
    /\ users[req[r].name].id = req[r].userId
    /\ Secret(req[r].name) = req[r].password
    /\ req[r].expiry = req[r].began + SessionLife
    /\ now <= req[r].began + 1
    /\ opened[req[r].session] # Absent =>
          opened[req[r].session] = [name |-> req[r].name, password |-> req[r].password,
                                    until |-> req[r].expiry]

Writes(r) == req[r].pc = "putSession"

\* A request runs across one turn of the clock at most, and is not answered yet.
Underway(r) ==
    now <= req[r].began + 1 /\ req[r].began <= now /\ req[r].answer = "none"

RequestsOK ==
    /\ \A r \in Slots : Running(r) => Underway(r)
    /\ \A r \in Slots : req[r].pc = "putUser" => req[r].name \in Usernames /\ users[req[r].name] # Absent
    /\ \A r \in Slots : Writes(r) => Authentic(r)
    /\ \A r, q \in Slots : Writes(r) /\ Writes(q) /\ req[r].session = req[q].session => r = q
    /\ \A r, q \in Slots :
          Writes(r) /\ Writes(q) /\ req[r].op = "create" /\ req[q].op = "create"
             /\ req[r].name = req[q].name => r = q

\* What was told is of an account and of a session that are there, and of no
\* request still running.
ToldOK ==
    /\ \A t \in told :
          /\ users[t.name] # Absent /\ users[t.name].id = t.userId
          /\ opened[t.session] # Absent /\ opened[t.session].name = t.name
    /\ \A t \in told, r \in Slots : Writes(r) =>
          /\ t.session # req[r].session
          /\ t.op = "create" /\ req[r].op = "create" => t.name # req[r].name

IInv == TypeOK /\ UsersOK /\ SessionsOK /\ RequestsOK /\ ToldOK /\ OneCreatorPerName

-----------------------------------------------------------------------------
(* Values. *)

LEMMA AbsentIsOther ==
    /\ Absent \notin Usernames /\ Absent \notin Passwords /\ Absent \notin UserIds
    /\ Absent \notin SessionIds /\ Absent \notin UserRow /\ Absent \notin SessionRow
    /\ Absent \notin Opening
    /\ \A id \in UserIds, p \in Passwords : [id |-> id, password |-> p] # Absent
BY AbsentAssumption

\* A password matches a hash when it is the one the hash was made from.
LEMMA HashMatches ==
    ASSUME NEW hash \in Hash, NEW p \in Passwords
    PROVE  /\ hash.key.password \in Passwords
           /\ comparePasswordAndHash(p, hash) <=> p = hash.key.password
<1>1. PICK q \in Passwords, s \in Salts : hash = generatePasswordHash(q, s)
  BY DEF Hash
<1>2. hash.key = [password |-> q, salt |-> s, params |-> defaultParams]
      /\ hash.salt = s /\ hash.params = defaultParams
  BY <1>1 DEF generatePasswordHash, IDKey
<1>3. comparePasswordAndHash(p, hash) <=>
        [password |-> p, salt |-> s, params |-> defaultParams] = hash.key
  BY <1>2 DEF comparePasswordAndHash, decodeHash, IDKey
<1> QED BY <1>2, <1>3

LEMMA HashMade ==
    ASSUME NEW p \in Passwords, NEW s \in Salts
    PROVE  /\ generatePasswordHash(p, s) \in Hash
           /\ generatePasswordHash(p, s).key.password = p
BY DEF Hash, generatePasswordHash, IDKey

LEMMA BlankType == Blank \in Request /\ Blank.pc = "idle" /\ Blank.session = Absent
BY DEF Blank, Request, Opt

-----------------------------------------------------------------------------
(* The effects of the steps. *)

\* A request is over: nothing but its slot changes.
Ends(r) ==
    /\ \E rec \in Request : rec.pc = "idle" /\ req' = [req EXCEPT ![r] = rec]
    /\ UNCHANGED <<tables, told>>

LEMMA AnswerEnds ==
    ASSUME NEW r \in Slots, NEW a \in {"success", "refused"}, Answer(r, a)
    PROVE  \E rec \in Request : rec.pc = "idle" /\ req' = [req EXCEPT ![r] = rec]
<1>1. [Blank EXCEPT !.answer = a] \in Request /\ [Blank EXCEPT !.answer = a].pc = "idle"
  BY DEF Blank, Request, Opt
<1> QED BY <1>1 DEF Answer

LEMMA EndCases ==
    ASSUME NEW r \in Slots,
           \/ \E u \in Usernames : UserAlreadyExists(r, u) \/ UserMissing(r, u)
           \/ \E u \in Usernames, p \in Passwords : PasswordIncorrect(r, u, p)
           \/ \E id \in UserIds, s \in SessionIds :
                 SessionNotFound(r, id, s) \/ SessionRejected(r, id, s) \/ SessionVerified(r, id, s)
           \/ OwnUserExists(r)
           \/ Fail(r)
    PROVE  Ends(r)
<1>1. CASE \E id \in UserIds, s \in SessionIds : SessionVerified(r, id, s)
  <2>1. PICK id \in UserIds, s \in SessionIds : SessionVerified(r, id, s)
    BY <1>1
  <2>2. [Blank EXCEPT !.answer = "verified", !.userId = id, !.session = s] \in Request
        /\ [Blank EXCEPT !.answer = "verified", !.userId = id, !.session = s].pc = "idle"
    BY DEF Blank, Request, Opt
  <2> QED BY <2>1, <2>2 DEF SessionVerified, Ends
<1>2. CASE Fail(r)
  BY <1>2, BlankType DEF Fail, Ends
<1>3. CASE OwnUserExists(r)
  BY <1>3, AnswerEnds DEF OwnUserExists, Ends
<1>4. CASE \E u \in Usernames : UserAlreadyExists(r, u) \/ UserMissing(r, u)
  BY <1>4, AnswerEnds DEF UserAlreadyExists, UserMissing, Ends
<1>5. CASE \E u \in Usernames, p \in Passwords : PasswordIncorrect(r, u, p)
  BY <1>5, AnswerEnds DEF PasswordIncorrect, Ends
<1>6. CASE \E id \in UserIds, s \in SessionIds :
                 SessionNotFound(r, id, s) \/ SessionRejected(r, id, s)
  BY <1>6, AnswerEnds DEF SessionNotFound, SessionRejected, Ends
<1> QED BY <1>1, <1>2, <1>3, <1>4, <1>5, <1>6

\* The request that arrives, as it stands before its first call.
ArrivedFields(rec, op, u, p) ==
    /\ rec \in Request
    /\ rec.op = op /\ rec.name = u /\ rec.password = p /\ rec.began = now
    /\ rec.answer = "none"

LEMMA ArrivedType ==
    ASSUME TypeOK, NEW op \in {"create", "login"}, NEW u \in Usernames, NEW p \in Passwords
    PROVE  ArrivedFields(Arrived(op, u, p), op, u, p)
BY DEF ArrivedFields, Arrived, Blank, Request, Opt, TypeOK

\* A request with a session to write, for a user it has authenticated.
Opens(r, rec, op, u, p, id) ==
    /\ ArrivedFields(rec, op, u, p)
    /\ rec.pc = "putSession"
    /\ rec.userId = id
    /\ rec.session \in SessionIds /\ FreshSession(rec.session)
    /\ rec.expiry = now + SessionLife
    /\ req' = [req EXCEPT ![r] = rec]

LEMMA OpenEffect ==
    ASSUME TypeOK, NEW r \in Slots, NEW op \in {"create", "login"}, NEW u \in Usernames,
           NEW p \in Passwords, NEW id \in UserIds, OpenSession(r, Arrived(op, u, p), id)
    PROVE  \E rec \in Request : Opens(r, rec, op, u, p, id)
<1> DEFINE a == Arrived(op, u, p)
<1>1. ArrivedFields(a, op, u, p)
  BY ArrivedType
<1>2. PICK s \in SessionIds :
         /\ FreshSession(s)
         /\ req' = [req EXCEPT ![r] = [a EXCEPT !.pc = "putSession", !.userId = id,
                                                !.session = s, !.expiry = now + SessionLife]]
  BY DEF OpenSession
<1> HIDE DEF a
<1> DEFINE rec == [a EXCEPT !.pc = "putSession", !.userId = id,
                            !.session = s, !.expiry = now + SessionLife]
<1>3. now + SessionLife \in Nat
  BY AccountsAssumption DEF TypeOK
<1>4. rec \in Request
  BY <1>1, <1>3 DEF ArrivedFields, Request, Opt
<1>5. /\ rec.op = op /\ rec.name = u /\ rec.password = p /\ rec.began = now
      /\ rec.pc = "putSession" /\ rec.userId = id /\ rec.session = s /\ rec.answer = "none"
      /\ rec.expiry = now + SessionLife
  BY <1>1 DEF ArrivedFields, Request
<1> HIDE DEF rec
<1>6. Opens(r, rec, op, u, p, id)
  BY <1>2, <1>4, <1>5 DEF Opens, ArrivedFields, rec
<1> QED BY <1>4, <1>6

-----------------------------------------------------------------------------
(* The steps keep the invariant. *)

LEMMA InitInv == Init => IInv
<1> SUFFICES ASSUME Init PROVE IInv
  OBVIOUS
<1>1. TypeOK
  BY BlankType DEF Init, TypeOK, Opt
<1>2. \A r \in Slots : ~Running(r) /\ ~Writes(r) /\ req[r].pc # "putUser"
  BY BlankType DEF Init, Running, Writes
<1> QED BY <1>1, <1>2 DEF Init, IInv, UsersOK, SessionsOK, RequestsOK, ToldOK, OneCreatorPerName

LEMMA StutterInv == ASSUME IInv, UNCHANGED vars PROVE IInv'
BY DEF IInv, TypeOK, UsersOK, SessionsOK, RowOK, OpenedOK, RequestsOK, Underway, Authentic, Writes,
       Running, Secret, ToldOK, OneCreatorPerName, vars

\* Whatever a step does to the slots, what it leaves alone stays as it should.
LEMMA TablesKept ==
    ASSUME UNCHANGED tables
    PROVE  /\ UsersOK => UsersOK'
           /\ SessionsOK => SessionsOK'
BY DEF tables, UsersOK, SessionsOK, RowOK, OpenedOK, Secret

LEMMA EndsInv ==
    ASSUME IInv, NEW r \in Slots, Ends(r)
    PROVE  IInv'
<1>1. PICK rec \in Request : rec.pc = "idle" /\ req' = [req EXCEPT ![r] = rec]
  BY DEF Ends
<1>2. UNCHANGED <<tables, told>>
  BY DEF Ends
<1>3. TypeOK'
  BY <1>1, <1>2 DEF IInv, TypeOK, tables
<1>4. \A q \in Slots : req'[q] = IF q = r THEN rec ELSE req[q]
  BY <1>1 DEF IInv, TypeOK
<1>5. \A q \in Slots : /\ Writes(q)' => q # r /\ Writes(q)
                       /\ Running(q)' => q # r /\ Running(q)
                       /\ q # r => req'[q] = req[q]
  BY <1>1, <1>4 DEF Writes, Running
<1>6. \A q \in Slots : Writes(q)' => Authentic(q)'
  BY <1>2, <1>5 DEF IInv, RequestsOK, Authentic, Secret, tables
<1>7. RequestsOK'
  BY <1>1, <1>2, <1>4, <1>5, <1>6 DEF IInv, RequestsOK, Underway, tables
<1>8. ToldOK' /\ OneCreatorPerName'
  BY <1>2, <1>5 DEF IInv, ToldOK, OneCreatorPerName, tables
<1>9. UsersOK' /\ SessionsOK'
  BY <1>2, TablesKept DEF IInv
<1> QED BY <1>3, <1>7, <1>8, <1>9 DEF IInv

\* The accounts that are there stay as they are.
Grow == \A v \in Usernames : users[v] # Absent => users'[v] = users[v]

LEMMA GrowSessions ==
    ASSUME IInv, Grow, UNCHANGED <<sessions, sessionsLag, opened, now>>
    PROVE  SessionsOK'
<1>1. \A s \in SessionIds : opened[s] # Absent => opened[s].name \in Usernames
  BY AbsentIsOther DEF IInv, TypeOK, Opt, Opening
<1>2. \A s \in SessionIds : opened[s] # Absent =>
         users'[opened[s].name] = users[opened[s].name] /\ users[opened[s].name] # Absent
  BY <1>1 DEF IInv, SessionsOK, OpenedOK, Grow
<1> QED BY <1>2 DEF IInv, SessionsOK, RowOK, OpenedOK, Secret

LEMMA GrowTold ==
    ASSUME IInv, Grow
    PROVE  \A t \in told : users'[t.name] # Absent /\ users'[t.name].id = t.userId
BY DEF IInv, TypeOK, Told, ToldOK, Grow

LEMMA GrowAuthentic ==
    ASSUME IInv, Grow, UNCHANGED <<opened, now>>, NEW r \in Slots, Authentic(r), req'[r] = req[r]
    PROVE  Authentic(r)'
<1>1. req[r].name \in Usernames /\ users'[req[r].name] = users[req[r].name]
  BY DEF Authentic, Grow
<1> QED BY <1>1 DEF Authentic, Secret

\* A request that opens a session, whether or not it has just stored its user.
LEMMA OpensInv ==
    ASSUME IInv, Grow, NEW r \in Slots, ~Running(r),
           NEW op \in {"create", "login"}, NEW u \in Usernames, NEW p \in Passwords, NEW id \in UserIds,
           NEW rec \in Request, Opens(r, rec, op, u, p, id),
           UNCHANGED <<opened, now, told>>,
           users'[u] # Absent, users'[u].id = id, users'[u].hash.key.password = p,
           op = "create" => users[u] = Absent
    PROVE  RequestsOK' /\ ToldOK' /\ OneCreatorPerName' /\ req' \in [Slots -> Request]
<1>0. req \in [Slots -> Request] /\ now \in Nat
  BY DEF IInv, TypeOK
<1>1. /\ req' = [req EXCEPT ![r] = rec]
      /\ rec.pc = "putSession" /\ rec.op = op /\ rec.name = u /\ rec.password = p
      /\ rec.userId = id /\ rec.began = now /\ rec.expiry = now + SessionLife /\ rec.answer = "none"
      /\ rec.session \in SessionIds /\ FreshSession(rec.session)
  BY DEF Opens, ArrivedFields
<1>2. req'[r] = rec /\ \A q \in Slots \ {r} : req'[q] = req[q]
  BY <1>0, <1>1
<1>3. opened[rec.session] = Absent /\ \A q \in Slots : Writes(q) => req[q].session # rec.session
  BY <1>1 DEF FreshSession, Writes, Running
<1>4. Authentic(r)'
  <2>1. now <= now + 1
    BY <1>0
  <2> QED BY <1>1, <1>2, <1>3, <2>1 DEF Authentic, Secret
<1>5. \A q \in Slots : q # r => (Writes(q)' <=> Writes(q)) /\ (Running(q)' <=> Running(q))
  BY <1>2 DEF Writes, Running
<1>6. \A q \in Slots : Writes(q)' => Authentic(q)'
  <2>1. ASSUME NEW q \in Slots, q # r, Writes(q)' PROVE Authentic(q)'
    <3>1. Authentic(q) /\ req'[q] = req[q]
      BY <1>2, <1>5, <2>1 DEF IInv, RequestsOK
    <3> QED BY <3>1, GrowAuthentic
  <2> QED BY <1>4, <2>1
<1>7. \A q \in Slots : Running(q)' => Underway(q)'
  <2>1. Underway(r)'
    BY <1>0, <1>1, <1>2 DEF Underway
  <2>2. ASSUME NEW q \in Slots, q # r, Running(q)' PROVE Underway(q)'
    BY <1>2, <1>5, <2>2 DEF IInv, RequestsOK, Underway
  <2> QED BY <2>1, <2>2
<1>8. \A q \in Slots : Writes(q) /\ req[q].op = "create" /\ op = "create" => req[q].name # u
  BY DEF IInv, RequestsOK, Authentic
<1>9. \A q, k \in Slots : /\ Writes(q)' /\ Writes(k)' /\ req'[q].session = req'[k].session => q = k
                          /\ Writes(q)' /\ Writes(k)' /\ req'[q].op = "create" /\ req'[k].op = "create"
                               /\ req'[q].name = req'[k].name => q = k
  BY <1>1, <1>2, <1>3, <1>5, <1>8 DEF IInv, RequestsOK
<1>10. \A q \in Slots : (req[q].pc = "putUser")' => (req[q].name \in Usernames /\ users[req[q].name] # Absent)'
  BY <1>1, <1>2 DEF IInv, RequestsOK, Grow
<1>11. RequestsOK'
  BY <1>6, <1>7, <1>9, <1>10 DEF RequestsOK
<1>12. ToldOK'
  <2>1. \A t \in told : users'[t.name] # Absent /\ users'[t.name].id = t.userId
    BY GrowTold
  <2>2. \A t \in told : t.session # rec.session /\ (t.op = "create" /\ op = "create" => t.name # u)
    BY <1>3 DEF IInv, ToldOK
  <2> QED BY <1>1, <1>2, <1>5, <2>1, <2>2 DEF IInv, ToldOK
<1>13. OneCreatorPerName'
  BY DEF IInv, OneCreatorPerName
<1>14. req' \in [Slots -> Request]
  BY <1>0, <1>1
<1> QED BY <1>11, <1>12, <1>13, <1>14

\* A copy of a row is the row.
LEMMA CopyIsRow ==
    ASSUME IInv, NEW u \in Usernames, NEW row \in UserCopies(u) \ {Absent}
    PROVE  row = users[u] /\ row \in UserRow /\ row.id \in UserIds /\ row.hash \in Hash
BY DEF IInv, UsersOK, TypeOK, UserCopies, Opt, UserRow

LEMMA PasswordCorrectInv ==
    ASSUME IInv, NEW r \in Slots, NEW u \in Usernames, NEW p \in Passwords, PasswordCorrect(r, u, p)
    PROVE  IInv'
<1>1. PICK row \in UserCopies(u) \ {Absent} :
         comparePasswordAndHash(p, row.hash) /\ OpenSession(r, Arrived("login", u, p), row.id)
  BY DEF PasswordCorrect
<1>2. ~Running(r) /\ UNCHANGED <<tables, told>>
  BY DEF PasswordCorrect
<1>3. row = users[u] /\ row.id \in UserIds /\ row.hash.key.password = p
  BY <1>1, CopyIsRow, HashMatches
<1>4. PICK rec \in Request : Opens(r, rec, "login", u, p, row.id)
  BY <1>1, <1>3, OpenEffect DEF IInv
<1>5. Grow /\ users'[u] # Absent /\ users'[u] = row
  BY <1>1, <1>2, <1>3 DEF Grow, tables
<1>6. RequestsOK' /\ ToldOK' /\ OneCreatorPerName' /\ req' \in [Slots -> Request]
  BY <1>2, <1>3, <1>4, <1>5, OpensInv DEF tables
<1>7. TypeOK' /\ UsersOK' /\ SessionsOK'
  BY <1>2, <1>6, TablesKept DEF IInv, TypeOK, tables
<1> QED BY <1>6, <1>7 DEF IInv

\* A row for a name that had none, with an id that is new.
LEMMA NewUser ==
    ASSUME IInv, NEW u \in Usernames, users[u] = Absent, NEW row \in UserRow, FreshUserId(row.id),
           users' = [users EXCEPT ![u] = row], UNCHANGED usersLag
    PROVE  Grow /\ users'[u] = row /\ row # Absent /\ users' \in [Usernames -> Opt(UserRow)] /\ UsersOK'
<1>1. users \in [Usernames -> Opt(UserRow)] /\ row # Absent
  BY AbsentIsOther DEF IInv, TypeOK
<1>2. users'[u] = row /\ \A v \in Usernames \ {u} : users'[v] = users[v]
  BY <1>1
<1>3. users' \in [Usernames -> Opt(UserRow)]
  BY <1>1 DEF Opt
<1>4. UsersOK'
  BY <1>2 DEF IInv, UsersOK, FreshUserId
<1> QED BY <1>1, <1>2, <1>3, <1>4 DEF Grow

LEMMA CreateUserInv ==
    ASSUME IInv, NEW r \in Slots, NEW u \in Usernames, NEW p \in Passwords, CreateUser(r, u, p)
    PROVE  IInv'
<1>1. PICK id \in UserIds, salt \in Salts :
         /\ FreshUserId(id)
         /\ users' = [users EXCEPT ![u] = [id |-> id, hash |-> generatePasswordHash(p, salt)]]
         /\ \/ OpenSession(r, Arrived("create", u, p), id)
            \/ /\ MaxAttempts > 1
               /\ req' = [req EXCEPT ![r] = [Arrived("create", u, p) EXCEPT !.pc = "putUser"]]
  BY DEF CreateUser
<1>2. ~Running(r) /\ users[u] = Absent /\ UNCHANGED <<usersLag, sessions, sessionsLag, now, told, opened>>
  BY DEF CreateUser
<1> DEFINE row == [id |-> id, hash |-> generatePasswordHash(p, salt)]
<1>3. row \in UserRow /\ row.id = id /\ row.hash.key.password = p
  BY HashMade DEF UserRow
<1> HIDE DEF row
<1>4. users' = [users EXCEPT ![u] = row]
  BY <1>1 DEF row
<1>5. Grow /\ users'[u] = row /\ row # Absent /\ users' \in [Usernames -> Opt(UserRow)] /\ UsersOK'
  BY <1>1, <1>2, <1>3, <1>4, NewUser
<1>6. SessionsOK'
  BY <1>2, <1>5, GrowSessions
<1>7. CASE OpenSession(r, Arrived("create", u, p), id)
  <2>1. PICK rec \in Request : Opens(r, rec, "create", u, p, id)
    BY <1>7, OpenEffect DEF IInv
  <2>2. RequestsOK' /\ ToldOK' /\ OneCreatorPerName' /\ req' \in [Slots -> Request]
    BY <1>2, <1>3, <1>5, <2>1, OpensInv
  <2>3. TypeOK'
    BY <1>2, <1>5, <2>2 DEF IInv, TypeOK
  <2> QED BY <1>5, <1>6, <2>2, <2>3 DEF IInv
<1>8. CASE req' = [req EXCEPT ![r] = [Arrived("create", u, p) EXCEPT !.pc = "putUser"]]
  <2> DEFINE a == Arrived("create", u, p)
  <2>1. ArrivedFields(a, "create", u, p)
    BY ArrivedType DEF IInv
  <2> HIDE DEF a
  <2> DEFINE rec == [a EXCEPT !.pc = "putUser"]
  <2>2. rec \in Request /\ rec.pc = "putUser" /\ rec.name = u /\ rec.began = now
        /\ rec.answer = "none"
    BY <2>1 DEF ArrivedFields, Request
  <2> HIDE DEF rec
  <2>3. req' = [req EXCEPT ![r] = rec] /\ req \in [Slots -> Request] /\ now \in Nat
    BY <1>8 DEF a, rec, IInv, TypeOK
  <2>4. req'[r] = rec /\ \A q \in Slots \ {r} : req'[q] = req[q]
    BY <2>3
  <2>5. TypeOK'
    BY <1>2, <1>5, <2>2, <2>3 DEF IInv, TypeOK
  <2>6. \A q \in Slots : Writes(q)' => q # r /\ Writes(q) /\ req'[q] = req[q]
    BY <2>2, <2>4 DEF Writes
  <2>7. \A q \in Slots : Writes(q)' => Authentic(q)'
    <3>1. ASSUME NEW q \in Slots, Writes(q)' PROVE Authentic(q)'
      <4>1. Authentic(q) /\ req'[q] = req[q]
        BY <2>6, <3>1 DEF IInv, RequestsOK
      <4> QED BY <1>2, <1>5, <4>1, GrowAuthentic
    <3> QED BY <3>1
  <2>8. \A q \in Slots : Running(q)' => Underway(q)'
    <3>1. Underway(r)'
      BY <1>2, <2>2, <2>3, <2>4 DEF Underway
    <3>2. ASSUME NEW q \in Slots, q # r, Running(q)'
          PROVE  Underway(q)'
      BY <1>2, <2>4, <3>2 DEF IInv, RequestsOK, Running, Underway
    <3> QED BY <3>1, <3>2
  <2>9. \A q \in Slots : (req[q].pc = "putUser")' =>
                            (req[q].name \in Usernames /\ users[req[q].name] # Absent)'
    BY <1>5, <2>2, <2>4 DEF IInv, RequestsOK, Grow
  <2>10. RequestsOK'
    BY <2>6, <2>7, <2>8, <2>9 DEF IInv, RequestsOK
  <2>11. ToldOK' /\ OneCreatorPerName'
    BY <1>2, <1>5, <2>6, GrowTold DEF IInv, ToldOK, OneCreatorPerName
  <2> QED BY <1>5, <1>6, <2>5, <2>10, <2>11 DEF IInv
<1> QED BY <1>1, <1>7, <1>8

-----------------------------------------------------------------------------

\* What PutItem leaves in the table of sessions, whatever becomes of the answer.
LEMMA SessionWritten ==
    ASSUME IInv, NEW r \in Slots, PutSession(r)
    PROVE  /\ Writes(r) /\ Authentic(r)
           /\ sessions' \in [SessionIds -> Opt(SessionRow)]
           /\ opened' \in [SessionIds -> Opt(Opening)]
           /\ SessionsOK'
           /\ opened'[req[r].session] =
                 [name |-> req[r].name, password |-> req[r].password, until |-> req[r].expiry]
           /\ opened'[req[r].session] # Absent
           /\ \A s \in SessionIds : opened[s] # Absent => opened'[s] = opened[s]
           /\ \A s \in SessionIds : s # req[r].session => opened'[s] = opened[s]
<1>0. PICK k \in SessionIds : k = req[r].session
  BY DEF PutSession, Writes, IInv, RequestsOK, Authentic
<1> DEFINE opening == [name |-> req[r].name, password |-> req[r].password, until |-> req[r].expiry]
           row == [userId |-> req[r].userId, expiry |-> req[r].expiry]
<1>1. Writes(r) /\ Authentic(r) /\ UNCHANGED <<users, usersLag, sessionsLag, now>>
  BY DEF PutSession, Writes, IInv, RequestsOK
<1>2. sessions' = [sessions EXCEPT ![k] = row] /\ opened' = [opened EXCEPT ![k] = opening]
  BY <1>0 DEF PutSession, NewSession
<1>3. /\ sessions \in [SessionIds -> Opt(SessionRow)] /\ opened \in [SessionIds -> Opt(Opening)]
      /\ req[r] \in Request
  BY <1>1 DEF IInv, TypeOK, Authentic
<1>4. opening \in Opening /\ row \in SessionRow
  BY <1>1, <1>3 DEF Opening, SessionRow, Request, Authentic
<1>5. opening # Absent /\ row # Absent
  BY <1>4, AbsentIsOther
<1>6. opening.name = req[r].name /\ opening.password = req[r].password /\ opening.until = req[r].expiry
      /\ row.userId = req[r].userId /\ row.expiry = req[r].expiry
  OBVIOUS
<1>7. opened[k] # Absent => opened[k] = opening
  BY <1>0, <1>1 DEF Authentic
<1> HIDE DEF opening, row
<1>8. sessions'[k] = row /\ opened'[k] = opening
      /\ \A s \in SessionIds \ {k} : sessions'[s] = sessions[s] /\ opened'[s] = opened[s]
  BY <1>2, <1>3
<1>9. RowOK(k, sessions[k])' /\ OpenedOK(k)'
  BY <1>1, <1>5, <1>6, <1>8 DEF RowOK, OpenedOK, Authentic, Secret
<1>10. sessionsLag[k] # Absent => RowOK(k, sessionsLag[k])'
  BY <1>1, <1>3, <1>5, <1>7, <1>8 DEF IInv, SessionsOK, RowOK
<1>11. SessionsOK'
  <2>1. ASSUME NEW s \in SessionIds, s # k
        PROVE  /\ sessions'[s] # Absent => RowOK(s, sessions[s])'
               /\ sessionsLag'[s] # Absent => RowOK(s, sessionsLag[s])'
               /\ opened'[s] # Absent => OpenedOK(s)'
    BY <1>1, <1>8, <2>1 DEF IInv, SessionsOK, RowOK, OpenedOK, Secret
  <2>2. /\ sessions'[k] # Absent => RowOK(k, sessions[k])'
        /\ sessionsLag'[k] # Absent => RowOK(k, sessionsLag[k])'
        /\ opened'[k] # Absent => OpenedOK(k)'
    BY <1>1, <1>9, <1>10
  <2> QED BY <2>1, <2>2 DEF SessionsOK
<1>12. sessions' \in [SessionIds -> Opt(SessionRow)] /\ opened' \in [SessionIds -> Opt(Opening)]
  BY <1>2, <1>3, <1>4 DEF Opt
<1> QED BY <1>0, <1>1, <1>5, <1>7, <1>8, <1>11, <1>12 DEF opening

\* The requests that are not answered yet, after a write of a session.
LEMMA WrittenAuthentic ==
    ASSUME IInv, NEW r \in Slots, PutSession(r), NEW q \in Slots, Writes(q), q # r, req'[q] = req[q]
    PROVE  Authentic(q)'
<1>1. Authentic(q) /\ Authentic(r) /\ Writes(r) /\ UNCHANGED <<users, now>>
  BY SessionWritten DEF IInv, RequestsOK, PutSession
<1>2. req[q].session # req[r].session /\ req[q].session \in SessionIds
  BY <1>1 DEF IInv, RequestsOK, Authentic
<1>3. opened'[req[q].session] = opened[req[q].session]
  BY <1>2, SessionWritten
<1> QED BY <1>1, <1>3 DEF Authentic, Secret

LEMMA PutSessionAnswered ==
    ASSUME IInv, NEW r \in Slots, PutSession(r), AnswerSession(r)
    PROVE  IInv'
<1>0. req \in [Slots -> Request] /\ told \subseteq Told
  BY DEF IInv, TypeOK
<1>1. PICK rec \in Request : rec.pc = "idle" /\ req' = [req EXCEPT ![r] = rec]
  BY AnswerEnds DEF AnswerSession
<1> DEFINE news == [op |-> req[r].op, name |-> req[r].name, userId |-> req[r].userId,
                    session |-> req[r].session]
<1>2. told' = told \cup {news}
  BY DEF AnswerSession
<1>3. Writes(r) /\ Authentic(r) /\ UNCHANGED <<users, usersLag, sessionsLag, now>>
  BY SessionWritten DEF PutSession
<1>4. news \in Told
  BY <1>0, <1>3 DEF Told, Authentic, Request
<1>5. news.op = req[r].op /\ news.name = req[r].name /\ news.userId = req[r].userId /\ news.session = req[r].session
  OBVIOUS
<1> HIDE DEF news
<1>6. TypeOK'
  BY <1>1, <1>2, <1>3, <1>4, SessionWritten DEF IInv, TypeOK
<1>7. req'[r] = rec /\ \A q \in Slots \ {r} : req'[q] = req[q]
  BY <1>0, <1>1
<1>8. \A q \in Slots : /\ Writes(q)' => q # r /\ Writes(q) /\ req'[q] = req[q]
                       /\ Running(q)' => q # r /\ Running(q) /\ req'[q] = req[q]
                       /\ (req[q].pc = "putUser")' => q # r /\ req'[q] = req[q]
  BY <1>1, <1>7 DEF Writes, Running
<1>9. \A q \in Slots : Writes(q)' => Authentic(q)'
  BY <1>8, WrittenAuthentic
<1>10. RequestsOK'
  BY <1>3, <1>8, <1>9 DEF IInv, RequestsOK, Underway
<1>11. ToldOK'
  <2>1. users[news.name] # Absent /\ users[news.name].id = news.userId
        /\ opened'[news.session] # Absent /\ opened'[news.session].name = news.name
    BY <1>3, <1>5, SessionWritten DEF Authentic
  <2>2. \A v \in told : v.session \in SessionIds /\ opened'[v.session] = opened[v.session]
    BY <1>0, SessionWritten DEF IInv, ToldOK, Told
  <2>3. \A v \in told' : /\ users'[v.name] # Absent /\ users'[v.name].id = v.userId
                         /\ opened'[v.session] # Absent /\ opened'[v.session].name = v.name
    BY <1>2, <1>3, <2>1, <2>2 DEF IInv, ToldOK
  <2>4. ASSUME NEW q \in Slots, Writes(q)'
        PROVE  /\ news.session # req'[q].session
               /\ news.op = "create" /\ req'[q].op = "create" => news.name # req'[q].name
    BY <1>3, <1>5, <1>8, <2>4 DEF IInv, RequestsOK
  <2> QED BY <1>2, <1>8, <2>3, <2>4 DEF IInv, ToldOK
<1>12. OneCreatorPerName'
  <2>1. ASSUME NEW v \in told, v.op = "create", news.op = "create" PROVE v.name # news.name
    <3>1. v.op = "create" /\ req[r].op = "create" => v.name # req[r].name
      BY <1>3 DEF IInv, ToldOK
    <3> QED BY <1>5, <2>1, <3>1
  <2> QED BY <1>2, <2>1 DEF IInv, OneCreatorPerName
<1>13. UsersOK'
  BY <1>3 DEF IInv, UsersOK
<1> QED BY <1>6, <1>10, <1>11, <1>12, <1>13, SessionWritten DEF IInv

LEMMA PutSessionRepeated ==
    ASSUME IInv, NEW r \in Slots, PutSession(r), Repeat(r)
    PROVE  IInv'
<1>0. req \in [Slots -> Request] /\ told \subseteq Told
  BY DEF IInv, TypeOK
<1> DEFINE old == req[r]
<1>a. old \in Request
  BY <1>0
<1> HIDE DEF old
<1> DEFINE rec == [old EXCEPT !.tries = old.tries + 1]
<1>1. rec \in Request /\ rec.op = old.op /\ rec.pc = old.pc /\ rec.name = old.name
      /\ rec.password = old.password /\ rec.userId = old.userId /\ rec.session = old.session
      /\ rec.expiry = old.expiry /\ rec.began = old.began /\ rec.answer = old.answer
  <2>1. old.tries + 1 \in Nat
    BY <1>a DEF Request
  <2> QED BY <1>a, <2>1 DEF Request
<1>2. req' = [req EXCEPT ![r] = rec] /\ UNCHANGED told
  BY <1>0, <1>a DEF Repeat, old, Request
<1> HIDE DEF rec
<1>3. req'[r] = rec /\ \A q \in Slots \ {r} : req'[q] = req[q]
  BY <1>0, <1>2
<1>4. \A q \in Slots :
         /\ req'[q].op = req[q].op /\ req'[q].pc = req[q].pc /\ req'[q].name = req[q].name
         /\ req'[q].password = req[q].password /\ req'[q].userId = req[q].userId
         /\ req'[q].session = req[q].session /\ req'[q].expiry = req[q].expiry
         /\ req'[q].began = req[q].began /\ req'[q].answer = req[q].answer
  BY <1>1, <1>3 DEF old
<1>5. Writes(r) /\ Authentic(r) /\ UNCHANGED <<users, usersLag, sessionsLag, now>>
  BY SessionWritten DEF PutSession
<1>6. TypeOK'
  BY <1>0, <1>1, <1>2, <1>5, SessionWritten DEF IInv, TypeOK
<1>7. \A q \in Slots : (Writes(q)' <=> Writes(q)) /\ (Running(q)' <=> Running(q))
  BY <1>4 DEF Writes, Running
<1>8. \A q \in Slots : Writes(q) => Authentic(q)'
  <2>1. Authentic(r)'
    BY <1>4, <1>5, SessionWritten DEF Authentic, Secret
  <2> QED BY <1>3, <2>1, WrittenAuthentic
<1>9. RequestsOK'
  <2>1. \A q \in Slots : Running(q)' => Underway(q)'
    BY <1>4, <1>5, <1>7 DEF IInv, RequestsOK, Underway
  <2>2. \A q \in Slots : (req[q].pc = "putUser")' =>
                            (req[q].name \in Usernames /\ users[req[q].name] # Absent)'
    BY <1>4, <1>5 DEF IInv, RequestsOK
  <2>3. \A q, k \in Slots : /\ Writes(q)' /\ Writes(k)' /\ req'[q].session = req'[k].session => q = k
                            /\ Writes(q)' /\ Writes(k)' /\ req'[q].op = "create" /\ req'[k].op = "create"
                                 /\ req'[q].name = req'[k].name => q = k
    BY <1>4, <1>7 DEF IInv, RequestsOK
  <2> QED BY <1>7, <1>8, <2>1, <2>2, <2>3 DEF RequestsOK
<1>10. \A v \in told : v.session \in SessionIds /\ opened'[v.session] = opened[v.session]
  BY <1>0, SessionWritten DEF IInv, ToldOK, Told
<1>11. ToldOK'
  BY <1>2, <1>4, <1>5, <1>7, <1>10 DEF IInv, ToldOK
<1>12. OneCreatorPerName' /\ UsersOK'
  BY <1>2, <1>5 DEF IInv, OneCreatorPerName, UsersOK
<1> QED BY <1>6, <1>9, <1>11, <1>12, SessionWritten DEF IInv

-----------------------------------------------------------------------------

\* A step of the environment that leaves the requests and the users alone.
LEMMA RequestsLeft ==
    ASSUME IInv, UNCHANGED <<users, usersLag, req, told, opened, now>>
    PROVE  UsersOK' /\ RequestsOK' /\ ToldOK' /\ OneCreatorPerName'
BY DEF IInv, UsersOK, RequestsOK, Underway, Authentic, Writes, Running, Secret, ToldOK, OneCreatorPerName

LEMMA EnvironmentInv ==
    ASSUME IInv, Environment
    PROVE  IInv'
<1>1. CASE Tick
  <2>1. now' = now + 1 /\ now \in Nat /\ UNCHANGED <<users, usersLag, sessions, sessionsLag, req, told, opened>>
    BY <1>1 DEF Tick, IInv, TypeOK
  <2>2. TypeOK'
    BY <2>1 DEF IInv, TypeOK
  <2>3. ASSUME NEW r \in Slots, Running(r) PROVE Underway(r)' /\ now' <= req[r].began + 1
    BY <1>1, <2>1, <2>3 DEF Tick, IInv, RequestsOK, Underway, Running
  <2>4. ASSUME NEW r \in Slots, Writes(r) PROVE Authentic(r)'
    <3>1. Running(r) /\ Authentic(r)
      BY <2>4 DEF Writes, Running, IInv, RequestsOK
    <3> QED BY <2>1, <2>3, <3>1 DEF Authentic, Secret
  <2>5. RequestsOK'
    BY <2>1, <2>3, <2>4 DEF IInv, RequestsOK, Running, Writes
  <2>6. SessionsOK'
    <3>1. ASSUME NEW s \in SessionIds, opened[s] # Absent PROVE OpenedOK(s)'
      <4>1. opened[s].until \in Nat
        BY <3>1 DEF IInv, TypeOK, Opt, Opening
      <4>2. OpenedOK(s)
        BY <3>1 DEF IInv, SessionsOK
      <4> QED BY <2>1, <4>1, <4>2 DEF OpenedOK, Secret
    <3> QED BY <2>1, <3>1 DEF IInv, SessionsOK, RowOK
  <2>7. UsersOK' /\ ToldOK' /\ OneCreatorPerName'
    BY <2>1 DEF IInv, UsersOK, ToldOK, OneCreatorPerName, Writes
  <2> QED BY <2>2, <2>5, <2>6, <2>7 DEF IInv
<1>2. ASSUME NEW s \in SessionIds, Expire(s) PROVE IInv'
  <2>1. /\ sessions' = [sessions EXCEPT ![s] = Absent] /\ sessions[s] # Absent
        /\ now >= sessions[s].expiry
        /\ UNCHANGED <<users, usersLag, sessionsLag, now, req, told, opened>>
    BY <1>2 DEF Expire
  <2>2. TypeOK'
    BY <2>1 DEF IInv, TypeOK, Opt
  <2>3. sessions'[s] = Absent /\ \A k \in SessionIds \ {s} : sessions'[k] = sessions[k]
    BY <2>1 DEF IInv, TypeOK
  <2>4. opened[s] # Absent /\ ~(now < opened[s].until)
    <3>1. sessions[s] \in SessionRow /\ now \in Nat
      BY <2>1 DEF IInv, TypeOK, Opt
    <3>2. RowOK(s, sessions[s])
      BY <2>1 DEF IInv, SessionsOK
    <3> QED BY <2>1, <3>1, <3>2 DEF RowOK, SessionRow
  <2>5. SessionsOK'
    BY <2>1, <2>3, <2>4 DEF IInv, SessionsOK, RowOK, OpenedOK, Secret
  <2> QED BY <2>1, <2>2, <2>5, RequestsLeft DEF IInv
<1>3. ASSUME NEW s \in SessionIds, ReplicateSession(s) PROVE IInv'
  <2>1. /\ sessionsLag' = [sessionsLag EXCEPT ![s] = sessions[s]]
        /\ UNCHANGED <<users, usersLag, sessions, now, req, told, opened>>
    BY <1>3 DEF ReplicateSession
  <2>2. TypeOK'
    BY <2>1 DEF IInv, TypeOK
  <2>3. \A k \in SessionIds : sessionsLag'[k] = IF k = s THEN sessions[s] ELSE sessionsLag[k]
    BY <2>1 DEF IInv, TypeOK
  <2>4. SessionsOK'
    BY <2>1, <2>3 DEF IInv, SessionsOK, RowOK, OpenedOK, Secret
  <2> QED BY <2>1, <2>2, <2>4, RequestsLeft DEF IInv
<1>4. ASSUME NEW u \in Usernames, ReplicateUser(u) PROVE IInv'
  <2>1. /\ usersLag' = [usersLag EXCEPT ![u] = users[u]]
        /\ UNCHANGED <<users, sessions, sessionsLag, now, req, told, opened>>
    BY <1>4 DEF ReplicateUser
  <2>2. TypeOK'
    BY <2>1 DEF IInv, TypeOK
  <2>3. UsersOK'
    BY <2>1 DEF IInv, UsersOK, TypeOK
  <2>4. SessionsOK' /\ RequestsOK' /\ ToldOK' /\ OneCreatorPerName'
    BY <2>1 DEF IInv, SessionsOK, RowOK, OpenedOK, RequestsOK, Underway, Authentic, Writes, Running,
               Secret, ToldOK, OneCreatorPerName
  <2> QED BY <2>2, <2>3, <2>4 DEF IInv
<1> QED BY <1>1, <1>2, <1>3, <1>4 DEF Environment

\* The steps that end a request.
EndingStep(r) ==
    \/ \E u \in Usernames : UserAlreadyExists(r, u) \/ UserMissing(r, u)
    \/ \E u \in Usernames, p \in Passwords : PasswordIncorrect(r, u, p)
    \/ \E id \in UserIds, s \in SessionIds :
          SessionNotFound(r, id, s) \/ SessionRejected(r, id, s) \/ SessionVerified(r, id, s)
    \/ OwnUserExists(r)
    \/ Fail(r)

LEMMA NextCases ==
    ASSUME Next
    PROVE  \/ \E r \in Slots : EndingStep(r) \/ PutSession(r)
           \/ \E r \in Slots, u \in Usernames, p \in Passwords : CreateUser(r, u, p) \/ PasswordCorrect(r, u, p)
           \/ Environment
BY DEF Next, Arrive, Handler, EndingStep

THEOREM Inductive == Spec => []IInv
<1>1. IInv /\ [Next]_vars => IInv'
  <2> SUFFICES ASSUME IInv, [Next]_vars PROVE IInv'
    OBVIOUS
  <2>1. CASE UNCHANGED vars
    BY <2>1, StutterInv
  <2>2. CASE Next
    <3>1. ASSUME NEW r \in Slots, EndingStep(r) PROVE IInv'
      BY <3>1, EndCases, EndsInv DEF EndingStep
    <3>2. ASSUME NEW r \in Slots, PutSession(r) PROVE IInv'
      BY <3>2, PutSessionAnswered, PutSessionRepeated DEF PutSession
    <3>3. ASSUME NEW r \in Slots, NEW u \in Usernames, NEW p \in Passwords,
                 CreateUser(r, u, p) \/ PasswordCorrect(r, u, p)
          PROVE  IInv'
      BY <3>3, CreateUserInv, PasswordCorrectInv
    <3> QED BY <2>2, <3>1, <3>2, <3>3, NextCases, EnvironmentInv
  <2> QED BY <2>1, <2>2
<1> QED BY <1>1, InitInv, PTL DEF Spec

-----------------------------------------------------------------------------
(* The properties. *)

\* Every variable keeps its type (TypeOK).
THEOREM TypeCorrect == Spec => []TypeOK
BY Inductive, PTL DEF IInv

\* One client at most is told that it created an account (OneCreatorPerName).
THEOREM OneCreator == Spec => []OneCreatorPerName
BY Inductive, PTL DEF IInv

\* Credentials that were told are in the table until they expire
\* (SuccessMeansUsable).
THEOREM SuccessIsUsable == Spec => []SuccessMeansUsable
<1>1. IInv => SuccessMeansUsable
  <2> SUFFICES ASSUME IInv, NEW t \in told
      PROVE  /\ users[t.name] # Absent /\ users[t.name].id = t.userId
             /\ opened[t.session] # Absent
             /\ now < opened[t.session].until =>
                   /\ sessions[t.session] # Absent
                   /\ sessions[t.session].userId = t.userId
                   /\ sessions[t.session].expiry = opened[t.session].until
    BY DEF SuccessMeansUsable
  <2>1. t.session \in SessionIds
    BY DEF IInv, TypeOK, Told
  <2>2. opened[t.session] # Absent /\ opened[t.session].name = t.name
        /\ users[t.name] # Absent /\ users[t.name].id = t.userId
    BY DEF IInv, ToldOK
  <2> QED BY <2>1, <2>2 DEF IInv, SessionsOK, OpenedOK, RowOK
<1> QED BY <1>1, Inductive, PTL

\* A right password, or credentials that were told, are refused only by a
\* replica that is behind or once the session has expired (RefusalsHaveCauses).
THEOREM RefusalsAreCaused == Spec => RefusalsHaveCauses
<1> DEFINE A == \A r \in Slots :
          /\ \A u \in Usernames, p \in Passwords :
                (PasswordIncorrect(r, u, p) /\ users[u] # Absent) => Secret(u) # p
          /\ \A t \in told :
                (SessionRejected(r, t.userId, t.session) \/ SessionNotFound(r, t.userId, t.session))
                => sessionsLag[t.session] = Absent \/ now >= opened[t.session].until
<1>1. IInv => A
  <2> SUFFICES ASSUME IInv, NEW r \in Slots PROVE
          /\ \A u \in Usernames, p \in Passwords :
                (PasswordIncorrect(r, u, p) /\ users[u] # Absent) => Secret(u) # p
          /\ \A t \in told :
                (SessionRejected(r, t.userId, t.session) \/ SessionNotFound(r, t.userId, t.session))
                => sessionsLag[t.session] = Absent \/ now >= opened[t.session].until
    OBVIOUS
  <2>1. ASSUME NEW u \in Usernames, NEW p \in Passwords, PasswordIncorrect(r, u, p)
        PROVE  Secret(u) # p
    <3>1. PICK row \in UserCopies(u) \ {Absent} : ~comparePasswordAndHash(p, row.hash)
      BY <2>1 DEF PasswordIncorrect
    <3> QED BY <3>1, CopyIsRow, HashMatches DEF Secret
  <2>2. ASSUME NEW t \in told,
               SessionRejected(r, t.userId, t.session) \/ SessionNotFound(r, t.userId, t.session),
               sessionsLag[t.session] # Absent
        PROVE  now >= opened[t.session].until
    <3> DEFINE s == t.session
    <3>1. s \in SessionIds /\ opened[s] # Absent /\ users[opened[s].name].id = t.userId
      BY DEF IInv, TypeOK, Told, ToldOK
    <3>2. now \in Nat /\ opened[s].until \in Nat
      BY <3>1 DEF IInv, TypeOK, Opt, Opening
    <3>3. CASE SessionNotFound(r, t.userId, t.session)
      <4>1. sessions[s] = Absent
        BY <2>2, <3>3 DEF SessionNotFound, SessionCopies
      <4>2. ~(now < opened[s].until)
        BY <3>1, <4>1 DEF IInv, SessionsOK, OpenedOK
      <4> QED BY <3>2, <4>2
    <3>4. CASE SessionRejected(r, t.userId, t.session)
      <4>1. PICK row \in SessionCopies(s) \ {Absent} : ~Accepts(row, t.userId)
        BY <3>4 DEF SessionRejected
      <4>2. RowOK(s, row)
        BY <3>1, <4>1 DEF IInv, SessionsOK, SessionCopies
      <4> QED BY <3>1, <3>2, <4>1, <4>2 DEF RowOK, Accepts
    <3> QED BY <2>2, <3>3, <3>4
  <2> QED BY <2>1, <2>2
<1>2. IInv /\ [Next]_vars => [A]_vars
  BY <1>1
<1> QED BY <1>2, Inductive, PTL DEF Spec, RefusalsHaveCauses

\* A session is told to one client: whatever is repeated or fails after its
\* PutItem (session_dao.go:61-113), no second success carries its id.
THEOREM SessionsToldOnce == Spec => [](\A t, v \in told : t.session = v.session => t = v)
<1> DEFINE Once == \A t, v \in told : t.session = v.session => t = v
<1>1. Init => Once
  BY DEF Init
<1>2. IInv /\ Once /\ [Next]_vars => Once'
  <2> SUFFICES ASSUME IInv, Once, [Next]_vars PROVE Once'
    OBVIOUS
  <2>1. CASE UNCHANGED told
    BY <2>1
  <2>2. ASSUME NEW r \in Slots, EndingStep(r) PROVE UNCHANGED told
    BY <2>2, EndCases DEF EndingStep, Ends
  <2>3. ASSUME NEW r \in Slots, NEW u \in Usernames, NEW p \in Passwords,
               CreateUser(r, u, p) \/ PasswordCorrect(r, u, p)
        PROVE  UNCHANGED told
    BY <2>3 DEF CreateUser, PasswordCorrect
  <2>4. ASSUME NEW r \in Slots, PutSession(r) PROVE Once'
    <3>1. CASE AnswerSession(r)
      <4>1. \A t \in told : t.session # req[r].session
        BY <2>4 DEF PutSession, Writes, IInv, ToldOK
      <4> QED BY <3>1, <4>1 DEF AnswerSession
    <3> QED BY <2>1, <2>4, <3>1 DEF PutSession, Repeat
  <2>5. Environment \/ UNCHANGED vars => UNCHANGED told
    BY DEF Environment, Tick, Expire, ReplicateUser, ReplicateSession, vars
  <2> QED BY <2>1, <2>2, <2>3, <2>4, <2>5, NextCases
<1> QED BY <1>1, <1>2, Inductive, PTL DEF Spec

\* A client sends any user id it knows with any session id it knows.  Only a
\* pair that was told together is verified (VerifySession, session_dao.go:115-192),
\* before the session is over, and the password that opened it is the account's.
THEOREM VerifiedPairsWereTold ==
    Spec => [][\A r \in Slots, id \in UserIds, s \in SessionIds :
                  SessionVerified(r, id, s) =>
                     \E t \in told : /\ t.userId = id /\ t.session = s
                                     /\ now < opened[s].until
                                     /\ opened[s].password = Secret(t.name)]_vars
<1> DEFINE A == \A r \in Slots, id \in UserIds, s \in SessionIds :
                   SessionVerified(r, id, s) =>
                      \E t \in told : /\ t.userId = id /\ t.session = s
                                      /\ now < opened[s].until
                                      /\ opened[s].password = Secret(t.name)
<1>1. ASSUME IInv, NEW r \in Slots, NEW id \in UserIds, NEW s \in SessionIds,
             SessionVerified(r, id, s)
      PROVE  \E t \in told : /\ t.userId = id /\ t.session = s
                             /\ now < opened[s].until
                             /\ opened[s].password = Secret(t.name)
  <2>1. PICK t \in told : t.session = s
    BY <1>1 DEF SessionVerified, Presentable
  <2>2. PICK row \in SessionCopies(s) \ {Absent} : Accepts(row, id)
    BY <1>1 DEF SessionVerified
  <2>3. RowOK(s, row)
    BY <1>1, <2>2 DEF IInv, SessionsOK, SessionCopies
  <2>4. opened[s].name = t.name /\ users[t.name].id = t.userId /\ opened[s] # Absent
    BY <1>1, <2>1 DEF IInv, ToldOK
  <2>5. t.userId = id /\ now < opened[s].until
    BY <2>2, <2>3, <2>4 DEF RowOK, Accepts
  <2>6. opened[s].password = Secret(t.name)
    BY <1>1, <2>4 DEF IInv, SessionsOK, OpenedOK
  <2> QED BY <2>1, <2>5, <2>6
<1>2. IInv /\ [Next]_vars => [A]_vars
  BY <1>1
<1> QED BY <1>2, Inductive, PTL DEF Spec

-----------------------------------------------------------------------------
(* The refinement. *)

\* The abstract variables of SessionAuthority.
account == [u \in Usernames |-> Account(u)]
serving == [r \in Slots |-> Serving(r)]

LEMMA AuthorityInit == Init => Authority!Init
BY BlankType DEF Init, Authority!Init, Account, Serving, Blank

\* What a step makes of the accounts and of the slots.
LEMMA AccountsKept == ASSUME UNCHANGED users PROVE account' = account
BY DEF account, Account, Secret

LEMMA ServingSet ==
    ASSUME IInv, NEW r \in Slots, NEW rec, req' = [req EXCEPT ![r] = rec]
    PROVE  /\ rec.answer # "verified" => serving' = [serving EXCEPT ![r] = Absent]
           /\ rec.answer = "verified" =>
                 serving' = [serving EXCEPT ![r] = [userId |-> rec.userId, session |-> rec.session]]
<1>1. \A q \in Slots : req'[q] = IF q = r THEN rec ELSE req[q]
  BY DEF IInv, TypeOK
<1>2. \A q \in Slots : Serving(q)' = IF q = r THEN IF rec.answer = "verified"
                                                   THEN [userId |-> rec.userId, session |-> rec.session]
                                                   ELSE Absent
                                     ELSE Serving(q)
  BY <1>1 DEF Serving
<1> QED BY <1>2 DEF serving

\* Slots that are not serving, before or after.
LEMMA ServingKept ==
    ASSUME IInv, NEW r \in Slots, NEW rec, req' = [req EXCEPT ![r] = rec],
           req[r].answer # "verified", rec.answer # "verified"
    PROVE  serving' = serving
<1>1. \A q \in Slots : req'[q] = IF q = r THEN rec ELSE req[q]
  BY DEF IInv, TypeOK
<1>2. \A q \in Slots : Serving(q)' = Serving(q)
  BY <1>1 DEF Serving
<1> QED BY <1>2 DEF serving

\* The names under which Authority knows what it is about.
LEMMA AuthorityStep ==
    ASSUME \/ \E u \in Usernames, id \in UserIds, p \in Passwords : Authority!Register(u, id, p)
           \/ \E s \in SessionIds, u \in Usernames, p \in Passwords : Authority!Open(s, u, p)
           \/ \E r \in Slots : Authority!Finish(r)
           \/ \E r \in Slots, s \in SessionIds : Authority!Serve(r, s)
           \/ Authority!Tick
           \/ account' = account /\ serving' = serving /\ opened' = opened /\ now' = now
    PROVE  [Authority!Next]_(Authority!vars)
BY DEF Authority!Next, Authority!vars, account, serving

LEMMA FinishStep ==
    ASSUME IInv, NEW r \in Slots, NEW rec, req' = [req EXCEPT ![r] = rec], rec.answer # "verified",
           UNCHANGED <<users, opened, now>>
    PROVE  Authority!Finish(r)
BY ServingSet, AccountsKept DEF Authority!Finish, account, serving

LEMMA CreateUserStep ==
    ASSUME IInv, NEW r \in Slots, NEW u \in Usernames, NEW p \in Passwords, CreateUser(r, u, p)
    PROVE  \E id \in UserIds : Authority!Register(u, id, p)
<1>1. PICK id \in UserIds, salt \in Salts :
         /\ FreshUserId(id)
         /\ users' = [users EXCEPT ![u] = [id |-> id, hash |-> generatePasswordHash(p, salt)]]
         /\ \/ OpenSession(r, Arrived("create", u, p), id)
            \/ /\ MaxAttempts > 1
               /\ req' = [req EXCEPT ![r] = [Arrived("create", u, p) EXCEPT !.pc = "putUser"]]
  BY DEF CreateUser
<1>2. users[u] = Absent /\ UNCHANGED <<now, opened>>
  BY DEF CreateUser
<1> DEFINE row == [id |-> id, hash |-> generatePasswordHash(p, salt)]
<1>3. row \in UserRow /\ row.id = id /\ row.hash.key.password = p
  BY HashMade DEF UserRow
<1> HIDE DEF row
<1>4. row # Absent /\ users' = [users EXCEPT ![u] = row]
  BY <1>1, <1>3, AbsentIsOther DEF row
<1>5. \A v \in Usernames : users'[v] = IF v = u THEN row ELSE users[v]
  BY <1>4 DEF IInv, TypeOK
<1>6. \A v \in Usernames : Account(v)' = IF v = u THEN [id |-> id, password |-> p] ELSE Account(v)
  BY <1>3, <1>4, <1>5 DEF Account, Secret
<1>7. account' = [account EXCEPT ![u] = [id |-> id, password |-> p]]
  BY <1>6 DEF account
<1>8. account[u] = Absent /\ \A v \in Usernames : account[v] # Absent => account[v].id # id
  BY <1>1, <1>2 DEF account, Account, FreshUserId
<1>9. serving' = [serving EXCEPT ![r] = Absent]
  <2>1. CASE OpenSession(r, Arrived("create", u, p), id)
    <3>1. PICK rec \in Request : Opens(r, rec, "create", u, p, id)
      BY <2>1, OpenEffect DEF IInv
    <3> QED BY <3>1, ServingSet DEF Opens, ArrivedFields
  <2>2. CASE req' = [req EXCEPT ![r] = [Arrived("create", u, p) EXCEPT !.pc = "putUser"]]
    <3>1. [Arrived("create", u, p) EXCEPT !.pc = "putUser"].answer = "none"
      BY DEF Arrived, Blank
    <3> QED BY <2>2, <3>1, ServingSet
  <2> QED BY <1>1, <2>1, <2>2
<1> QED BY <1>2, <1>7, <1>8, <1>9 DEF Authority!Register, Authority!MayFinish, account, serving

LEMMA PutSessionStep ==
    ASSUME IInv, NEW r \in Slots, PutSession(r)
    PROVE  \/ \E s \in SessionIds, u \in Usernames, p \in Passwords : Authority!Open(s, u, p)
           \/ account' = account /\ serving' = serving /\ opened' = opened /\ now' = now
<1>0. PICK s \in SessionIds, u \in Usernames, p \in Passwords :
         s = req[r].session /\ u = req[r].name /\ p = req[r].password
  BY SessionWritten DEF Authentic
<1>1. Running(r) /\ Underway(r) /\ Authentic(r) /\ UNCHANGED <<users, now>>
  BY SessionWritten DEF Writes, Running, IInv, RequestsOK, PutSession
<1>2. account' = account
  BY <1>1, AccountsKept
<1>3. serving' = serving
  <2>1. CASE AnswerSession(r)
    <3>1. req' = [req EXCEPT ![r] = [Blank EXCEPT !.answer = "success"]]
          /\ [Blank EXCEPT !.answer = "success"].answer = "success"
      BY <2>1 DEF AnswerSession, Answer, Blank
    <3> QED BY <1>1, <3>1, ServingKept DEF Underway
  <2>2. CASE Repeat(r)
    <3> DEFINE old == req[r]
    <3>1. old \in Request /\ req' = [req EXCEPT ![r] = [old EXCEPT !.tries = old.tries + 1]]
      BY <2>2 DEF Repeat, IInv, TypeOK
    <3>2. [old EXCEPT !.tries = old.tries + 1].answer = old.answer
      BY <3>1 DEF Request
    <3> QED BY <1>1, <3>1, <3>2, ServingKept DEF Underway
  <2> QED BY <2>1, <2>2 DEF PutSession
<1>4. opened' = [opened EXCEPT ![s] = [name |-> u, password |-> p, until |-> req[r].expiry]]
  BY <1>0 DEF PutSession
<1>5. CASE opened[s] = Absent
  <2> DEFINE o == [name |-> u, password |-> p, until |-> req[r].expiry]
  <2>1. opened'[s] = o /\ o # Absent
    BY <1>0, SessionWritten
  <2>2. o.until = req[r].expiry
    OBVIOUS
  <2>3. opened'[s].until > now
    <3>1. req[r].began \in Nat /\ now \in Nat
      BY DEF IInv, TypeOK, Request
    <3>2. req[r].expiry = req[r].began + SessionLife /\ now <= req[r].began + 1
      BY <1>1 DEF Authentic
    <3>3. req[r].expiry > now
      BY <3>1, <3>2, AccountsAssumption
    <3> QED BY <2>1, <2>2, <3>3
  <2>4. opened' = [opened EXCEPT ![s] = [name |-> u, password |-> p, until |-> opened'[s].until]]
    BY <1>4, <2>1, <2>2
  <2>5. account[u] # Absent /\ account[u].password = p
    <3>1. users[u] # Absent /\ Secret(u) = p
      BY <1>0, <1>1 DEF Authentic
    <3>2. Account(u) = [id |-> users[u].id, password |-> p]
      BY <3>1 DEF Account
    <3>3. users[u].id \in UserIds
      BY <3>1 DEF IInv, TypeOK, Opt, UserRow
    <3> QED BY <3>2, <3>3, AbsentIsOther DEF account
  <2>6. Authority!Open(s, u, p)
    BY <1>1, <1>2, <1>3, <1>5, <2>1, <2>3, <2>4, <2>5 DEF Authority!Open, account, serving
  <2> QED BY <2>6
<1>6. CASE opened[s] # Absent
  <2>1. opened' = opened
    BY <1>0, <1>1, <1>4, <1>6 DEF Authentic, IInv, TypeOK
  <2> QED BY <1>1, <1>2, <1>3, <2>1
<1> QED BY <1>5, <1>6

LEMMA EndingStepMaps ==
    ASSUME IInv, NEW r \in Slots, EndingStep(r)
    PROVE  Authority!Finish(r) \/ \E s \in SessionIds : Authority!Serve(r, s)
<1>1. Ends(r)
  BY EndCases DEF EndingStep
<1>2. UNCHANGED <<users, opened, now>>
  BY <1>1 DEF Ends, tables
<1>3. CASE \E id \in UserIds, s \in SessionIds : SessionVerified(r, id, s)
  <2>1. PICK id \in UserIds, s \in SessionIds : SessionVerified(r, id, s)
    BY <1>3
  <2>2. PICK row \in SessionCopies(s) \ {Absent} : Accepts(row, id)
    BY <2>1 DEF SessionVerified
  <2>3. opened[s] # Absent /\ row.userId = users[opened[s].name].id /\ row.expiry = opened[s].until
    BY <2>2 DEF IInv, SessionsOK, RowOK, SessionCopies
  <2>4. opened[s].name \in Usernames /\ users[opened[s].name] # Absent
    BY <2>3 DEF IInv, SessionsOK, OpenedOK, TypeOK, Opt, Opening
  <2>5. account[opened[s].name].id = id
    <3>1. Account(opened[s].name).id = users[opened[s].name].id
      BY <2>4 DEF Account
    <3> QED BY <2>2, <2>3, <2>4, <3>1 DEF Accepts, account
  <2> DEFINE rec == [Blank EXCEPT !.answer = "verified", !.userId = id, !.session = s]
  <2>6. req' = [req EXCEPT ![r] = rec]
    BY <2>1 DEF SessionVerified
  <2>7. rec.answer = "verified" /\ rec.userId = id /\ rec.session = s
    BY DEF Blank
  <2> HIDE DEF rec
  <2>8. serving' = [serving EXCEPT ![r] = [userId |-> id, session |-> s]]
    BY <2>6, <2>7, ServingSet
  <2>9. now < opened[s].until
    BY <2>2, <2>3 DEF Accepts
  <2>10. Authority!Serve(r, s)
    BY <1>2, <2>3, <2>5, <2>8, <2>9, AccountsKept DEF Authority!Serve, account, serving
  <2> QED BY <2>10
<1>4. CASE ~ \E id \in UserIds, s \in SessionIds : SessionVerified(r, id, s)
  <2>1. \E rec : rec.answer # "verified" /\ req' = [req EXCEPT ![r] = rec]
    <3>1. ASSUME NEW a \in {"success", "refused"}, Answer(r, a)
          PROVE  \E rec : rec.answer # "verified" /\ req' = [req EXCEPT ![r] = rec]
      <4>1. [Blank EXCEPT !.answer = a].answer = a /\ a # "verified"
        BY DEF Blank
      <4> QED BY <3>1, <4>1 DEF Answer
    <3>2. CASE Fail(r)
      BY <3>2 DEF Fail, Blank
    <3>3. CASE ~Fail(r)
      <4>1. Answer(r, "refused")
        BY <1>4, <3>3 DEF EndingStep, UserAlreadyExists, UserMissing, PasswordIncorrect, SessionNotFound,
                          SessionRejected, OwnUserExists
      <4> QED BY <3>1, <4>1
    <3> QED BY <3>2, <3>3
  <2> QED BY <1>2, <2>1, FinishStep
<1> QED BY <1>3, <1>4

LEMMA EnvironmentMaps ==
    ASSUME IInv, Environment
    PROVE  Authority!Tick \/ (account' = account /\ serving' = serving /\ opened' = opened /\ now' = now)
<1>1. UNCHANGED <<req, opened>> /\ account' = account
  <2>1. UNCHANGED <<users, req, opened>>
    BY DEF Environment, Tick, Expire, ReplicateUser, ReplicateSession
  <2> QED BY <2>1, AccountsKept
<1>2. serving' = serving
  BY <1>1 DEF serving, Serving
<1>3. now' = now \/ now' = now + 1
  BY DEF Environment, Tick, Expire, ReplicateUser, ReplicateSession
<1> QED BY <1>1, <1>2, <1>3 DEF Authority!Tick, account, serving

\* The requests implement SessionAuthority (ImplementsAuthority): an account
\* never changes, sessions open only for its password, and a request is served
\* only for the user of an open session.
THEOREM AuthorityImplemented == Spec => ImplementsAuthority
<1>1. IInv /\ [Next]_vars => [Authority!Next]_(Authority!vars)
  <2> SUFFICES ASSUME IInv, [Next]_vars PROVE [Authority!Next]_(Authority!vars)
    OBVIOUS
  <2>1. CASE UNCHANGED vars
    <3>1. account' = account
      BY <2>1, AccountsKept DEF vars
    <3>2. serving' = serving
      BY <2>1 DEF vars, serving, Serving
    <3> QED BY <2>1, <3>1, <3>2, AuthorityStep DEF vars
  <2>2. ASSUME NEW r \in Slots, EndingStep(r) PROVE [Authority!Next]_(Authority!vars)
    BY <2>2, EndingStepMaps, AuthorityStep
  <2>3. ASSUME NEW r \in Slots, PutSession(r) PROVE [Authority!Next]_(Authority!vars)
    BY <2>3, PutSessionStep, AuthorityStep
  <2>4. ASSUME NEW r \in Slots, NEW u \in Usernames, NEW p \in Passwords, CreateUser(r, u, p)
        PROVE  [Authority!Next]_(Authority!vars)
    BY <2>4, CreateUserStep, AuthorityStep
  <2>5. ASSUME NEW r \in Slots, NEW u \in Usernames, NEW p \in Passwords, PasswordCorrect(r, u, p)
        PROVE  [Authority!Next]_(Authority!vars)
    <3>1. PICK row \in UserCopies(u) \ {Absent} :
            comparePasswordAndHash(p, row.hash) /\ OpenSession(r, Arrived("login", u, p), row.id)
      BY <2>5 DEF PasswordCorrect
    <3>2. row.id \in UserIds
      BY <3>1, CopyIsRow
    <3>3. PICK rec \in Request : Opens(r, rec, "login", u, p, row.id)
      BY <3>1, <3>2, OpenEffect DEF IInv
    <3>4. Authority!Finish(r)
      BY <2>5, <3>3, FinishStep DEF Opens, ArrivedFields, PasswordCorrect, tables
    <3> QED BY <3>4, AuthorityStep
  <2>6. CASE Environment
    BY <2>6, EnvironmentMaps, AuthorityStep
  <2> QED BY <2>1, <2>2, <2>3, <2>4, <2>5, <2>6, NextCases
<1> QED BY <1>1, AuthorityInit, Inductive, PTL DEF Spec, ImplementsAuthority, Authority!Spec
=============================================================================
