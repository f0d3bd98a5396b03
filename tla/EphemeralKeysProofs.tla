------------------------ MODULE EphemeralKeysProofs ------------------------
(***************************************************************************)
(* Theorems about EphemeralKeys, for every window, key life, number of     *)
(* runs and environments, and every bound.                                 *)
(***************************************************************************)
EXTENDS EphemeralKeys, TLAPS

IInv ==
    TypeOK /\ RunsOK /\ RowsOK /\ LookupsOK /\ CoveredHoursHaveKeys /\ SeenIsStored /\ OneKeySeen

-----------------------------------------------------------------------------
(* Types. *)

\* The hours of a window are hours of the table.
LEMMA WindowHours ==
    ASSUME NEW s \in Clocks
    PROVE  /\ s \in Nat /\ s - Past \in Nat
           /\ Window(s) \subseteq Hours
           /\ s - Past \in Window(s)
           /\ \A h \in Window(s) : h \in Nat /\ h >= s - Past /\ (h < s + Ahead => h + 1 \in Window(s))
  BY KeysAssumption DEF Clocks, Window, Hours

\* A stopped run is well typed.
LEMMA NoRunType == NoRun \in Run
  BY KeysAssumption DEF NoRun, Run, Clocks, Hours

\* The loop goes on at the next hour, or it is over and its window covered.
LEMMA NextHourEffect ==
    ASSUME TypeOK, NEW r \in Runs, RunOK(r), run[r].pc # "idle", NextHour(r)
    PROVE  /\ run' \in [Runs -> Run] /\ covered' \subseteq Hours
           /\ \A q \in Runs \ {r} : run'[q] = run[q]
           /\ \/ /\ run'[r].pc = "check" /\ run'[r].arn = run[r].arn
                 /\ run'[r].start = run[r].start /\ run'[r].at = run[r].at + 1
                 /\ run'[r].at \in Window(run[r].start)
                 /\ covered' = covered
              \/ /\ run'[r] = NoRun
                 /\ run[r].at = run[r].start + Ahead
                 /\ covered' = covered \cup Window(run[r].start)
<1>1. run[r] \in Run /\ run[r].start \in Clocks /\ run[r].at \in Window(run[r].start)
  BY DEF TypeOK, Run, RunOK
<1>2. CASE MoreHours(r)
  <2>1. run[r].at + 1 \in Window(run[r].start) /\ run[r].at + 1 \in Hours
    BY <1>1, <1>2, WindowHours DEF MoreHours
  <2> DEFINE new == [run[r] EXCEPT !.pc = "check", !.at = run[r].at + 1,
                             !.data = Absent, !.tries = 0]
  <2>2. new \in Run
    BY <1>1, <2>1 DEF Run
  <2>3. run' = [run EXCEPT ![r] = new] /\ covered' = covered
    BY <1>2 DEF NextHour, MoreHours
  <2> QED BY <1>1, <2>1, <2>2, <2>3 DEF TypeOK, Run
<1>3. CASE ~MoreHours(r)
  <2>1. run' = [run EXCEPT ![r] = NoRun] /\ covered' = covered \cup Window(run[r].start)
    BY <1>3 DEF NextHour, MoreHours
  <2>2. run[r].at = run[r].start + Ahead
    <3>1. run[r].at \in run[r].start - Past .. run[r].start + Ahead /\ run[r].start \in Int
      BY <1>1, WindowHours DEF Window
    <3>2. Ahead \in Nat /\ Past \in Nat
      BY KeysAssumption
    <3> QED BY <1>3, <3>1, <3>2 DEF MoreHours
  <2> QED BY <1>1, <2>1, <2>2, NoRunType, WindowHours DEF TypeOK
<1> QED BY <1>2, <1>3

\* A lookup that has ended is well typed.
LEMMA NoLookupType ==
    ASSUME NEW cache \in [Hours -> OptBlob]
    PROVE  NoLookup(cache) \in Env /\ NoLookup(cache).pc = "idle" /\ NoLookup(cache).cache = cache
  BY KeysAssumption DEF NoLookup, Env, OptBlob, Clocks

\* A row names a key.
LEMMA KeyOfType == ASSUME NEW row \in Row PROVE KeyOf(row) \in Blob
  BY DEF KeyOf, Row, Blob

\* The row a run puts.
LEMMA NewRowType ==
    ASSUME TypeOK, NEW r \in Runs, RunOK(r), run[r].pc = "put"
    PROVE  /\ NewRow(r) \in Row /\ run[r].at \in Hours
           /\ NewRow(r).hour = run[r].at /\ NewRow(r).expiry = run[r].at + KeyLife
<1>1. run[r].at \in Hours /\ run[r].arn \in Arns /\ run[r].data \in Data
  BY DEF TypeOK, Run, RunOK
<1> QED BY <1>1, KeysAssumption DEF NewRow, Row, Hours

\* A PutItem is for an hour whose key has not expired.
LEMMA PutIsLive ==
    ASSUME TypeOK, NEW r \in Runs, RunOK(r), run[r].pc # "idle"
    PROVE  Live(run[r].at)
<1>1. run[r].start \in Clocks /\ clock \in Clocks /\ run[r].at \in Window(run[r].start)
  BY DEF TypeOK, Run, RunOK
<1> QED BY <1>1, KeysAssumption DEF RunOK, Live, Window, Clocks

\* What a PutItem does to the table, whether or not it is repeated.
LEMMA PutItemEffect ==
    ASSUME TypeOK, RunsOK, NEW r \in Runs, PutItem(r)
    PROVE  /\ NextHour(r)
              \/ /\ run' = [run EXCEPT ![r].tries = @ + 1]
                 /\ covered' = covered
           /\ run[r].pc = "put" /\ RunOK(r)
           /\ table' = [table EXCEPT ![run[r].at] = NewRow(r)]
           /\ replaced' = IF table[run[r].at] \in {Absent, NewRow(r)} THEN replaced
                          ELSE replaced \cup {run[r].at}
           /\ UNCHANGED <<clock, arn, lag, env, mishaps>>
  BY DEF PutItem, RunsOK

\* A repeated PutItem changes nothing of its run that matters.
LEMMA RepeatEffect ==
    ASSUME TypeOK, NEW r \in Runs, run' = [run EXCEPT ![r].tries = @ + 1]
    PROVE  /\ run' \in [Runs -> Run]
           /\ \A q \in Runs : /\ run'[q].pc = run[q].pc /\ run'[q].arn = run[q].arn
                              /\ run'[q].start = run[q].start /\ run'[q].at = run[q].at
                              /\ run'[q].data = run[q].data
<1>1. \A q \in Runs : run[q] \in Run
  BY DEF TypeOK
<1>2. [run[r] EXCEPT !.tries = @ + 1] \in Run
  BY <1>1 DEF Run
<1>3. run' = [run EXCEPT ![r] = [run[r] EXCEPT !.tries = @ + 1]]
  OBVIOUS
<1>4. run' \in [Runs -> Run]
  BY <1>2, <1>3 DEF TypeOK
<1>5. ASSUME NEW q \in Runs
      PROVE  /\ run'[q].pc = run[q].pc /\ run'[q].arn = run[q].arn
             /\ run'[q].start = run[q].start /\ run'[q].at = run[q].at
             /\ run'[q].data = run[q].data
  <2>1. CASE q = r
    BY <1>1, <1>3, <2>1 DEF TypeOK, Run
  <2>2. CASE q # r
    BY <1>3, <2>2 DEF TypeOK
  <2> QED BY <2>1, <2>2
<1> QED BY <1>4, <1>5

\* The initial state is well typed and satisfies the invariant.
LEMMA InitIInv == Init => IInv
<1> SUFFICES ASSUME Init PROVE IInv
  OBVIOUS
<1>1. TypeOK
  <2>1. NoLookup(NoRows) \in Env
    BY NoLookupType DEF NoRows, OptBlob
  <2> QED BY <2>1, NoRunType, KeysAssumption DEF Init, TypeOK, NoRows, OptRow, Clocks
<1>2. \A h \in Hours : Copies(h) = {Absent}
  BY DEF Init, Copies, NoRows
<1>3. \A r \in Runs : run[r].pc = "idle"
  BY DEF Init, NoRun
<1>4. \A e \in Envs : env[e].pc = "idle" /\ \A h \in Hours : env[e].cache[h] = Absent
  BY DEF Init, NoLookup, NoRows
<1>5. \A h \in Hours : Seen(h) = {}
  BY <1>2, <1>4 DEF Seen
<1> QED BY <1>1, <1>2, <1>3, <1>4, <1>5
        DEF IInv, Init, RunsOK, RunOK, LeftBehind, RowsOK, LookupsOK, CoveredHoursHaveKeys,
            SeenIsStored, OneKeySeen

-----------------------------------------------------------------------------
(* Steps. *)

\* Every step is one of these.
LEMMA NextCases ==
    ASSUME [Next]_vars
    PROVE  \/ \E r \in Runs : StartRun(r) \/ KeyExists(r) \/ KeyNeeded(r) \/ Generate(r)
                              \/ PutItem(r) \/ RunFails(r)
           \/ \E e \in Envs : StartLookup(e) \/ FetchKey(e) \/ DecryptKey(e) \/ LookupFails(e)
           \/ \E e \in Envs, h \in Hours : CacheExpires(e, h)
           \/ Tick \/ Redeploy
           \/ \E h \in Hours : Replicate(h) \/ Expire(h)
           \/ UNCHANGED vars
  BY DEF Next, RunStep, Lookup

\* A step of a run that leaves the table alone.
RunOnly(r) == StartRun(r) \/ KeyExists(r) \/ KeyNeeded(r) \/ Generate(r) \/ RunFails(r)

\* A step of an environment.
EnvOnly(e) ==
    \/ StartLookup(e) \/ FetchKey(e) \/ DecryptKey(e) \/ LookupFails(e)
    \/ \E h \in Hours : CacheExpires(e, h)

\* A run that leaves the table alone goes on within its window, and an hour it
\* leaves behind or covers had a key of its ARN in some copy.
LEMMA RunOnlyEffect ==
    ASSUME IInv, NEW r \in Runs, RunOnly(r)
    PROVE  /\ run' \in [Runs -> Run] /\ covered' \subseteq Hours /\ mishaps' \in Nat
           /\ UNCHANGED <<clock, arn, table, lag, env, replaced>>
           /\ \A q \in Runs \ {r} : run'[q] = run[q]
           /\ RunOK(r)' /\ LeftBehind(r)'
           /\ \A h \in covered' : Live(h) => table[h] # Absent
<1>1. TypeOK /\ RunOK(r) /\ LeftBehind(r) /\ run[r] \in Run /\ clock \in Clocks
  BY DEF IInv, RunsOK, TypeOK
<1>2. CASE StartRun(r)
  <2> DEFINE new == [run[r] EXCEPT !.pc = "check", !.arn = arn, !.start = clock,
                                   !.at = clock - Past, !.tries = 0]
  <2>1. run' = [run EXCEPT ![r] = new]
        /\ UNCHANGED <<clock, arn, table, lag, env, mishaps, covered, replaced>>
    BY <1>2 DEF StartRun
  <2>2. clock - Past \in Hours /\ clock - Past \in Window(clock)
    BY <1>1, WindowHours
  <2>3. new \in Run /\ new.pc = "check" /\ new.arn = arn /\ new.start = clock /\ new.at = clock - Past
    BY <1>1, <2>2 DEF Run, TypeOK
  <2>4. run'[r] = new
    BY <2>1, <1>1 DEF TypeOK
  <2>5. RunOK(r)'
    BY <1>1, <2>1, <2>2, <2>3, <2>4 DEF RunOK, TypeOK, Clocks, Window
  <2>6. LeftBehind(r)'
    <3>1. \A h \in clock - Past .. (clock - Past) - 1 : FALSE
      BY <1>1, KeysAssumption DEF Clocks
    <3> QED BY <2>3, <2>4, <3>1 DEF LeftBehind
  <2> QED BY <1>1, <2>1, <2>3, <2>4, <2>5, <2>6 DEF TypeOK, IInv, CoveredHoursHaveKeys
<1>3. CASE KeyExists(r)
  <2>1. /\ run[r].pc = "check" /\ NextHour(r)
        /\ UNCHANGED <<clock, arn, table, lag, env, mishaps, replaced>>
        /\ \E row \in Copies(run[r].at) : row # Absent
    BY <1>3 DEF KeyExists, UsesSameArn
  <2>2. run[r].at \in Hours /\ run[r].at \in Window(run[r].start) /\ run[r].start \in Clocks
    BY <1>1, <2>1 DEF RunOK, Run
  <2>3. Live(run[r].at) => table[run[r].at] # Absent
    BY <2>1, <2>2 DEF IInv, SeenIsStored, Seen
  <2>4. /\ run' \in [Runs -> Run] /\ covered' \subseteq Hours
        /\ \A q \in Runs \ {r} : run'[q] = run[q]
        /\ \/ /\ run'[r].pc = "check" /\ run'[r].arn = run[r].arn
              /\ run'[r].start = run[r].start /\ run'[r].at = run[r].at + 1
              /\ run'[r].at \in Window(run[r].start)
              /\ covered' = covered
           \/ /\ run'[r] = NoRun
              /\ run[r].at = run[r].start + Ahead
              /\ covered' = covered \cup Window(run[r].start)
    BY <1>1, <2>1, NextHourEffect
  <2>5. \A h \in run[r].start - Past .. run[r].at : Live(h) => table[h] # Absent
    BY <1>1, <2>1, <2>2, <2>3, KeysAssumption DEF LeftBehind, Clocks, Hours
  <2>6. RunOK(r)' /\ LeftBehind(r)'
    <3>1. CASE run'[r] = NoRun
      BY <3>1 DEF RunOK, LeftBehind, NoRun
    <3>2. CASE run'[r] # NoRun
      <4>1. LeftBehind(r)'
        BY <2>1, <2>2, <2>4, <2>5, <3>2, KeysAssumption DEF LeftBehind, Live, Hours, Clocks
      <4>2. RunOK(r)'
        BY <1>1, <2>1, <2>4, <3>2 DEF RunOK, Window
      <4> QED BY <4>1, <4>2
    <3> QED BY <3>1, <3>2
  <2>7. \A h \in covered' : Live(h) => table[h] # Absent
    BY <2>2, <2>4, <2>5, KeysAssumption DEF IInv, CoveredHoursHaveKeys, Window, Clocks
  <2> QED BY <1>1, <2>1, <2>4, <2>6, <2>7 DEF TypeOK
<1>4. CASE KeyNeeded(r)
  <2> DEFINE new == [run[r] EXCEPT !.pc = "generate"]
  <2>1. run[r].pc = "check" /\ run' = [run EXCEPT ![r] = new]
        /\ UNCHANGED <<clock, arn, table, lag, env, mishaps, covered, replaced>>
    BY <1>4 DEF KeyNeeded
  <2>2. /\ new \in Run /\ new.pc = "generate" /\ new.arn = run[r].arn
        /\ new.start = run[r].start /\ new.at = run[r].at
    BY <1>1 DEF Run
  <2>3. run'[r] = new
    BY <2>1, <1>1 DEF TypeOK
  <2>4. RunOK(r)'
    BY <1>1, <2>1, <2>2, <2>3 DEF RunOK, Window
  <2>5. LeftBehind(r)'
    BY <1>1, <2>1, <2>2, <2>3 DEF LeftBehind, Live
  <2> QED BY <1>1, <2>1, <2>2, <2>3, <2>4, <2>5 DEF TypeOK, IInv, CoveredHoursHaveKeys
<1>5. CASE Generate(r)
  <2>1. PICK d \in Data : run' = [run EXCEPT ![r] = [@ EXCEPT !.pc = "put", !.data = d]]
    BY <1>5 DEF Generate
  <2> DEFINE new == [run[r] EXCEPT !.pc = "put", !.data = d]
  <2>2. run[r].pc = "generate" /\ run' = [run EXCEPT ![r] = new]
        /\ UNCHANGED <<clock, arn, table, lag, env, mishaps, covered, replaced>>
    BY <1>5, <2>1 DEF Generate
  <2>3. /\ new \in Run /\ new.pc = "put" /\ new.arn = run[r].arn /\ new.data = d
        /\ new.start = run[r].start /\ new.at = run[r].at
    BY <1>1 DEF Run
  <2>4. run'[r] = new
    BY <2>2, <1>1 DEF TypeOK
  <2>5. RunOK(r)'
    BY <1>1, <2>2, <2>3, <2>4 DEF RunOK, Window
  <2>6. LeftBehind(r)'
    BY <1>1, <2>2, <2>3, <2>4 DEF LeftBehind, Live
  <2> QED BY <1>1, <2>2, <2>3, <2>4, <2>5, <2>6 DEF TypeOK, IInv, CoveredHoursHaveKeys
<1>6. CASE RunFails(r)
  <2>1. /\ run' = [run EXCEPT ![r] = NoRun] /\ mishaps' = mishaps + 1
        /\ UNCHANGED <<clock, arn, table, lag, env, covered, replaced>>
    BY <1>6 DEF RunFails
  <2>2. run'[r] = NoRun
    BY <2>1, <1>1 DEF TypeOK
  <2>3. RunOK(r)' /\ LeftBehind(r)'
    BY <2>2 DEF RunOK, LeftBehind, NoRun
  <2> QED BY <1>1, <2>1, <2>2, <2>3, NoRunType DEF TypeOK, IInv, CoveredHoursHaveKeys
<1> QED BY <1>2, <1>3, <1>4, <1>5, <1>6 DEF RunOnly

\* A step of a run that leaves the table alone keeps the invariant.
LEMMA RunOnlyStep ==
    ASSUME IInv, NEW r \in Runs, RunOnly(r)
    PROVE  IInv'
<1>1. /\ run' \in [Runs -> Run] /\ covered' \subseteq Hours /\ mishaps' \in Nat
      /\ UNCHANGED <<clock, arn, table, lag, env, replaced>>
      /\ \A q \in Runs \ {r} : run'[q] = run[q]
      /\ RunOK(r)' /\ LeftBehind(r)'
      /\ \A h \in covered' : Live(h) => table[h] # Absent
  BY RunOnlyEffect
<1>2. TypeOK'
  BY <1>1 DEF IInv, TypeOK
<1>3. RunsOK'
  BY <1>1 DEF IInv, RunsOK, RunOK, LeftBehind, Window, Live
<1>4. RowsOK' /\ LookupsOK'
  BY <1>1 DEF IInv, RowsOK, LookupsOK, Copies
<1>5. CoveredHoursHaveKeys'
  BY <1>1 DEF CoveredHoursHaveKeys, Live
<1>6. SeenIsStored' /\ OneKeySeen'
  <2>1. \A h \in Hours : Seen(h)' = Seen(h)
    BY <1>1 DEF Seen, Copies
  <2> QED BY <1>1, <2>1 DEF IInv, SeenIsStored, OneKeySeen, Live
<1> QED BY <1>2, <1>3, <1>4, <1>5, <1>6 DEF IInv

\* A PutItem keeps the invariant: its hour is live, so a key that was seen
\* there is still stored, and a different one marks the hour as replaced.
LEMMA PutItemStep ==
    ASSUME IInv, NEW r \in Runs, PutItem(r)
    PROVE  IInv'
<1> DEFINE h0 == run[r].at
           new == NewRow(r)
<1>1. /\ run[r].pc = "put" /\ RunOK(r) /\ LeftBehind(r) /\ TypeOK
      /\ table' = [table EXCEPT ![h0] = new]
      /\ replaced' = IF table[h0] \in {Absent, new} THEN replaced ELSE replaced \cup {h0}
      /\ UNCHANGED <<clock, arn, lag, env, mishaps>>
      /\ NextHour(r) \/ (run' = [run EXCEPT ![r].tries = @ + 1] /\ covered' = covered)
  BY PutItemEffect DEF IInv, RunsOK
<1>2. /\ new \in Row /\ h0 \in Hours /\ new.hour = h0 /\ new.expiry = h0 + KeyLife
      /\ Live(h0) /\ new # Absent
  BY <1>1, NewRowType, PutIsLive, NoRowAssumption
<1>3. /\ table'[h0] = new
      /\ \A h \in Hours \ {h0} : table'[h] = table[h]
  BY <1>1, <1>2 DEF TypeOK
<1>4. /\ run' \in [Runs -> Run] /\ covered' \subseteq Hours
      /\ \A q \in Runs \ {r} : /\ run'[q].pc = run[q].pc /\ run'[q].arn = run[q].arn
                               /\ run'[q].start = run[q].start /\ run'[q].at = run[q].at
                               /\ run'[q].data = run[q].data
      /\ \/ /\ run'[r].pc = "check" /\ run'[r].arn = run[r].arn
            /\ run'[r].start = run[r].start /\ run'[r].at = run[r].at + 1
            /\ run'[r].at \in Window(run[r].start)
            /\ covered' = covered
         \/ /\ run'[r] = NoRun
            /\ run[r].at = run[r].start + Ahead
            /\ covered' = covered \cup Window(run[r].start)
         \/ /\ run'[r].pc = run[r].pc /\ run'[r].arn = run[r].arn
            /\ run'[r].start = run[r].start /\ run'[r].at = run[r].at
            /\ run'[r].data = run[r].data
            /\ covered' = covered
  <2>1. CASE NextHour(r)
    BY <1>1, <2>1, NextHourEffect
  <2>2. CASE run' = [run EXCEPT ![r].tries = @ + 1] /\ covered' = covered
    BY <1>1, <2>2, RepeatEffect DEF TypeOK
  <2> QED BY <1>1, <2>1, <2>2
<1>5. TypeOK'
  <2>1. table' \in [Hours -> OptRow]
    BY <1>1, <1>2 DEF TypeOK, OptRow
  <2> QED BY <1>1, <1>2, <1>4, <2>1 DEF TypeOK
<1>6. run[r].start \in Clocks /\ h0 \in Window(run[r].start)
  BY <1>1 DEF TypeOK, Run, RunOK
<1>7. \A h \in run[r].start - Past .. h0 : Live(h) => table'[h] # Absent
  <2>1. \A h \in run[r].start - Past .. h0 - 1 : h \in Hours /\ h # h0
    BY <1>2, <1>6, KeysAssumption DEF Window, Clocks, Hours
  <2>2. \A h \in run[r].start - Past .. h0 : h = h0 \/ h \in run[r].start - Past .. h0 - 1
    BY <1>2, <1>6, KeysAssumption DEF Clocks, Hours
  <2> QED BY <1>1, <1>2, <1>3, <2>1, <2>2 DEF LeftBehind
<1>8. \A h \in Hours : table[h] # Absent => table'[h] # Absent
  BY <1>2, <1>3
<1>9. ASSUME NEW q \in Runs \ {r} PROVE RunOK(q)' /\ LeftBehind(q)'
  <2>1. RunOK(q) /\ LeftBehind(q) /\ run[q] \in Run
    BY <1>1 DEF IInv, RunsOK, TypeOK
  <2>2. RunOK(q)'
    BY <1>1, <1>4, <2>1 DEF RunOK, Window
  <2>3. run[q].pc # "idle" => \A h \in run[q].start - Past .. run[q].at - 1 : h \in Hours
    BY <2>1, KeysAssumption DEF RunOK, Run, Window, Clocks, Hours
  <2> QED BY <1>1, <1>4, <1>8, <2>1, <2>2, <2>3 DEF LeftBehind, Live
<1>10. RunOK(r)' /\ LeftBehind(r)'
  <2>1. CASE run'[r] = NoRun
    BY <2>1 DEF RunOK, LeftBehind, NoRun
  <2>2. CASE run'[r].pc = "check" /\ run'[r].arn = run[r].arn
             /\ run'[r].start = run[r].start /\ run'[r].at = run[r].at + 1
             /\ run'[r].at \in Window(run[r].start)
    <3>1. \A h \in run'[r].start - Past .. run'[r].at - 1 : h \in run[r].start - Past .. h0
      BY <1>2, <1>6, <2>2, KeysAssumption DEF Clocks, Hours
    <3> QED BY <1>1, <1>7, <2>2, <3>1 DEF RunOK, LeftBehind, Live, Window
  <2>3. CASE run'[r].pc = run[r].pc /\ run'[r].arn = run[r].arn
             /\ run'[r].start = run[r].start /\ run'[r].at = run[r].at
             /\ run'[r].data = run[r].data
    <3>1. \A h \in run'[r].start - Past .. run'[r].at - 1 : h \in run[r].start - Past .. h0
      BY <1>2, <1>6, <2>3, KeysAssumption DEF Clocks, Hours
    <3> QED BY <1>1, <1>7, <2>3, <3>1 DEF RunOK, LeftBehind, Live, Window
  <2> QED BY <1>4, <2>1, <2>2, <2>3
<1>11. RunsOK'
  BY <1>9, <1>10 DEF RunsOK
<1>12. RowsOK'
  <2> SUFFICES ASSUME NEW h \in Hours, NEW row \in Copies(h)' \ {Absent}
               PROVE  row.hour = h /\ row.expiry = h + KeyLife
    BY DEF RowsOK
  <2>1. row \in Copies(h) \/ (h = h0 /\ row = new)
    BY <1>1, <1>3 DEF Copies
  <2> QED BY <1>2, <2>1 DEF IInv, RowsOK
<1>13. LookupsOK'
  BY <1>1 DEF IInv, LookupsOK
<1>14. CoveredHoursHaveKeys'
  <2> SUFFICES ASSUME NEW h \in covered', Live(h)
               PROVE  table'[h] # Absent
    BY <1>1 DEF CoveredHoursHaveKeys, Live
  <2>1. CASE h \in covered
    <3>1. h \in Hours /\ table[h] # Absent
      BY <2>1 DEF IInv, TypeOK, CoveredHoursHaveKeys
    <3> QED BY <1>8, <3>1
  <2>2. CASE h \notin covered
    <3>1. h \in Window(run[r].start) /\ h0 = run[r].start + Ahead
      BY <1>4, <2>2
    <3>2. h \in run[r].start - Past .. h0
      BY <3>1 DEF Window
    <3> QED BY <1>7, <3>2
  <2> QED BY <2>1, <2>2
<1>15. \A h \in Hours : Seen(h)' \subseteq Seen(h) \cup (IF h = h0 THEN {KeyOf(new)} ELSE {})
  BY <1>1, <1>3 DEF Seen, Copies
<1>16. SeenIsStored'
  <2> SUFFICES ASSUME NEW h \in Hours, Live(h), Seen(h)' # {} PROVE table'[h] # Absent
    BY <1>1 DEF SeenIsStored, Live
  <2>1. CASE h = h0
    BY <1>2, <1>3, <2>1
  <2>2. CASE h # h0
    <3>1. Seen(h) # {}
      BY <1>15, <2>2
    <3> QED BY <1>8, <3>1 DEF IInv, SeenIsStored
  <2> QED BY <2>1, <2>2
<1>17. OneKeySeen'
  <2> SUFFICES ASSUME NEW h \in Hours \ replaced', NEW b \in Seen(h)', NEW c \in Seen(h)'
               PROVE  b = c
    BY DEF OneKeySeen
  <2>1. h \notin replaced
    BY <1>1
  <2>2. \A x, y \in Seen(h) : x = y
    BY <2>1 DEF IInv, OneKeySeen
  <2>3. CASE h # h0
    BY <1>15, <2>2, <2>3
  <2>4. CASE h = h0 /\ table[h0] = Absent
    <3>1. Seen(h) = {}
      BY <1>2, <2>4 DEF IInv, SeenIsStored
    <3> QED BY <1>15, <2>4, <3>1
  <2>5. CASE h = h0 /\ table[h0] = new
    <3>1. KeyOf(new) \in Seen(h)
      BY <1>2, <2>5 DEF Seen, Copies
    <3> QED BY <1>15, <2>2, <2>5, <3>1
  <2>6. h = h0 => table[h0] \in {Absent, new}
    BY <1>1
  <2> QED BY <2>3, <2>4, <2>5, <2>6
<1> QED BY <1>5, <1>11, <1>12, <1>13, <1>14, <1>16, <1>17 DEF IInv

\* What a reader has seen never grows but by a copy of a row.
LEMMA EnvEffect ==
    ASSUME IInv, NEW e \in Envs, EnvOnly(e)
    PROVE  /\ env' \in [Envs -> Env]
           /\ UNCHANGED <<clock, arn, table, lag, run, mishaps, covered, replaced>>
           /\ LookupsOK'
           /\ \A h \in Hours : Seen(h)' \subseteq Seen(h)
<1>1. TypeOK /\ env[e] \in Env /\ clock \in Clocks
  BY DEF IInv, TypeOK
<1>2. CASE StartLookup(e)
  <2> DEFINE new == [env[e] EXCEPT !.pc = "get", !.hour = clock]
  <2>1. env' = [env EXCEPT ![e] = new]
        /\ UNCHANGED <<clock, arn, table, lag, run, mishaps, covered, replaced>>
    BY <1>2 DEF StartLookup
  <2>2. new \in Env /\ new.pc = "get" /\ new.cache = env[e].cache
    BY <1>1 DEF Env
  <2>3. env'[e] = new /\ \A f \in Envs \ {e} : env'[f] = env[f]
    BY <1>1, <2>1 DEF TypeOK
  <2>4. \A h \in Hours : Seen(h)' \subseteq Seen(h)
    BY <2>1, <2>2, <2>3 DEF Seen, Copies
  <2> QED BY <1>1, <2>1, <2>2, <2>3, <2>4 DEF TypeOK, IInv, LookupsOK
<1>3. CASE FetchKey(e)
  <2>1. PICK row \in Copies(env[e].hour) \ {Absent} :
           env' = [env EXCEPT ![e] = [@ EXCEPT !.pc = "decrypt", !.blob = KeyOf(row)]]
    BY <1>3 DEF FetchKey
  <2> DEFINE new == [env[e] EXCEPT !.pc = "decrypt", !.blob = KeyOf(row)]
  <2>2. env' = [env EXCEPT ![e] = new]
        /\ UNCHANGED <<clock, arn, table, lag, run, mishaps, covered, replaced>>
    BY <1>3, <2>1 DEF FetchKey
  <2>3. env[e].hour \in Hours /\ env[e].hour \in Clocks
    BY <1>1, WindowHours, KeysAssumption DEF Env, Clocks, Hours
  <2>4. row \in Row /\ row.hour = env[e].hour
    BY <1>1, <2>3 DEF IInv, RowsOK, TypeOK, Copies, OptRow
  <2>5. KeyOf(row) \in Blob /\ KeyOf(row).hour = env[e].hour /\ KeyOf(row) # Absent
    BY <2>4, KeyOfType, NoRowAssumption DEF KeyOf
  <2>6. /\ new \in Env /\ new.pc = "decrypt" /\ new.cache = env[e].cache
        /\ new.blob = KeyOf(row) /\ new.hour = env[e].hour
    BY <1>1, <2>5 DEF Env, OptBlob
  <2>7. env'[e] = new /\ \A f \in Envs \ {e} : env'[f] = env[f]
    BY <1>1, <2>2 DEF TypeOK
  <2>8. \A h \in Hours : Seen(h)' \subseteq Seen(h)
    <3> SUFFICES ASSUME NEW h \in Hours, NEW b \in Seen(h)', b \notin Seen(h) PROVE FALSE
      OBVIOUS
    <3>1. b = KeyOf(row) /\ h = env[e].hour
      BY <2>2, <2>6, <2>7 DEF Seen, Copies
    <3>2. KeyOf(row) \in Seen(h)
      BY <3>1 DEF Seen
    <3> QED BY <3>1, <3>2
  <2> QED BY <1>1, <2>2, <2>5, <2>6, <2>7, <2>8 DEF TypeOK, IInv, LookupsOK
<1>4. CASE DecryptKey(e)
  <2> DEFINE new == NoLookup([env[e].cache EXCEPT ![env[e].hour] = env[e].blob])
  <2>1. /\ env' = [env EXCEPT ![e] = new] /\ env[e].pc = "decrypt"
        /\ UNCHANGED <<clock, arn, table, lag, run, mishaps, covered, replaced>>
    BY <1>4 DEF DecryptKey
  <2>2. /\ [env[e].cache EXCEPT ![env[e].hour] = env[e].blob] \in [Hours -> OptBlob]
        /\ env[e].hour \in Hours
    BY <1>1, KeysAssumption DEF Env, Clocks, Hours
  <2>3. /\ new \in Env /\ new.pc = "idle"
        /\ new.cache = [env[e].cache EXCEPT ![env[e].hour] = env[e].blob]
    BY <2>2, NoLookupType
  <2>4. env'[e] = new /\ \A f \in Envs \ {e} : env'[f] = env[f]
    BY <1>1, <2>1 DEF TypeOK
  <2>5. \A h \in Hours : Seen(h)' \subseteq Seen(h)
    <3> SUFFICES ASSUME NEW h \in Hours, NEW b \in Seen(h)', b \notin Seen(h) PROVE FALSE
      OBVIOUS
    <3>1. b = new.cache[h]
      BY <2>1, <2>3, <2>4 DEF Seen, Copies
    <3>2. CASE h = env[e].hour
      BY <1>1, <2>1, <2>2, <2>3, <3>1, <3>2 DEF Seen, Env
    <3>3. CASE h # env[e].hour
      <4>1. b = env[e].cache[h]
        BY <1>1, <2>2, <2>3, <3>1, <3>3 DEF Env
      <4>2. b # Absent
        BY <2>1, <2>3, <2>4, <4>1 DEF Seen, Copies
      <4> QED BY <4>1, <4>2 DEF Seen
    <3> QED BY <3>2, <3>3
  <2> QED BY <1>1, <2>1, <2>3, <2>4, <2>5 DEF TypeOK, IInv, LookupsOK
<1>5. CASE LookupFails(e)
  <2> DEFINE new == NoLookup(env[e].cache)
  <2>1. /\ env' = [env EXCEPT ![e] = new]
        /\ UNCHANGED <<clock, arn, table, lag, run, mishaps, covered, replaced>>
    BY <1>5 DEF LookupFails
  <2>2. new \in Env /\ new.pc = "idle" /\ new.cache = env[e].cache
    BY <1>1, NoLookupType DEF Env
  <2>3. env'[e] = new /\ \A f \in Envs \ {e} : env'[f] = env[f]
    BY <1>1, <2>1 DEF TypeOK
  <2>4. \A h \in Hours : Seen(h)' \subseteq Seen(h)
    BY <2>1, <2>2, <2>3 DEF Seen, Copies
  <2> QED BY <1>1, <2>1, <2>2, <2>3, <2>4 DEF TypeOK, IInv, LookupsOK
<1>6. ASSUME NEW h0 \in Hours, CacheExpires(e, h0)
      PROVE  /\ env' \in [Envs -> Env]
             /\ UNCHANGED <<clock, arn, table, lag, run, mishaps, covered, replaced>>
             /\ LookupsOK'
             /\ \A h \in Hours : Seen(h)' \subseteq Seen(h)
  <2> DEFINE cache == [env[e].cache EXCEPT ![h0] = Absent]
             new == [env[e] EXCEPT !.cache = cache]
  <2>1. /\ env' = [env EXCEPT ![e] = new]
        /\ UNCHANGED <<clock, arn, table, lag, run, mishaps, covered, replaced>>
    BY <1>6 DEF CacheExpires
  <2>2. cache \in [Hours -> OptBlob]
    BY <1>1 DEF Env, OptBlob
  <2>3. /\ new \in Env /\ new.pc = env[e].pc /\ new.hour = env[e].hour
        /\ new.blob = env[e].blob /\ new.cache = cache
    BY <1>1, <2>2 DEF Env
  <2>4. env'[e] = new /\ \A f \in Envs \ {e} : env'[f] = env[f]
    BY <1>1, <2>1 DEF TypeOK
  <2>5. \A h \in Hours : new.cache[h] \in {env[e].cache[h], Absent}
    BY <1>1, <2>3 DEF Env
  <2>6. \A h \in Hours : Seen(h)' \subseteq Seen(h)
    BY <2>1, <2>3, <2>4, <2>5 DEF Seen, Copies
  <2> QED BY <1>1, <2>1, <2>3, <2>4, <2>6 DEF TypeOK, IInv, LookupsOK
<1> QED BY <1>2, <1>3, <1>4, <1>5, <1>6 DEF EnvOnly

\* A step of an environment keeps the invariant.
LEMMA EnvStep ==
    ASSUME IInv, NEW e \in Envs, EnvOnly(e)
    PROVE  IInv'
<1>1. /\ env' \in [Envs -> Env]
      /\ UNCHANGED <<clock, arn, table, lag, run, mishaps, covered, replaced>>
      /\ LookupsOK'
      /\ \A h \in Hours : Seen(h)' \subseteq Seen(h)
  BY EnvEffect
<1>2. TypeOK'
  BY <1>1 DEF IInv, TypeOK
<1>3. RunsOK'
  BY <1>1 DEF IInv, RunsOK, RunOK, LeftBehind, Window, Live
<1>4. RowsOK'
  BY <1>1 DEF IInv, RowsOK, Copies
<1>5. CoveredHoursHaveKeys'
  BY <1>1 DEF IInv, CoveredHoursHaveKeys, Live
<1>6. SeenIsStored' /\ OneKeySeen'
  BY <1>1 DEF IInv, SeenIsStored, OneKeySeen, Live
<1> QED BY <1>1, <1>2, <1>3, <1>4, <1>5, <1>6 DEF IInv

\* The clock, deployments, replication and the TTL keep the invariant.
LEMMA WorldStep ==
    ASSUME IInv, Tick \/ Redeploy \/ (\E h \in Hours : Replicate(h) \/ Expire(h)) \/ UNCHANGED vars
    PROVE  IInv'
<1>1. CASE Tick
  <2>1. /\ clock' = clock + 1 /\ clock < LastHour /\ clock \in Clocks
        /\ \A r \in Runs : run[r].pc # "idle" => run[r].start = clock
        /\ UNCHANGED <<arn, table, lag, run, env, mishaps, covered, replaced>>
    BY <1>1 DEF Tick, IInv, TypeOK
  <2>2. TypeOK'
    BY <2>1, KeysAssumption DEF IInv, TypeOK, Clocks
  <2>3. \A h \in Hours : Live(h)' => Live(h)
    BY <2>1, KeysAssumption DEF Live, Hours, Clocks
  <2>4. ASSUME NEW r \in Runs PROVE RunOK(r)' /\ LeftBehind(r)'
    <3>1. RunOK(r) /\ LeftBehind(r) /\ run[r] \in Run
      BY DEF IInv, RunsOK, TypeOK
    <3>2. RunOK(r)'
      BY <2>1, <3>1, KeysAssumption DEF RunOK, Window, Clocks
    <3>3. run[r].pc # "idle" => \A h \in run[r].start - Past .. run[r].at - 1 : h \in Hours
      BY <3>1, KeysAssumption DEF RunOK, Run, Window, Clocks, Hours
    <3> QED BY <2>1, <2>3, <3>1, <3>2, <3>3 DEF LeftBehind
  <2>5. RowsOK' /\ LookupsOK'
    BY <2>1 DEF IInv, RowsOK, LookupsOK, Copies
  <2>6. CoveredHoursHaveKeys'
    BY <2>1, <2>3 DEF IInv, TypeOK, CoveredHoursHaveKeys
  <2>7. \A h \in Hours : Seen(h)' = Seen(h)
    BY <2>1 DEF Seen, Copies
  <2>8. SeenIsStored' /\ OneKeySeen'
    BY <2>1, <2>3, <2>7 DEF IInv, SeenIsStored, OneKeySeen
  <2> QED BY <2>2, <2>4, <2>5, <2>6, <2>8 DEF IInv, RunsOK
<1>2. CASE Redeploy \/ UNCHANGED vars
  <2>1. /\ arn' \in Arns /\ mishaps' \in Nat
        /\ UNCHANGED <<clock, table, lag, run, env, covered, replaced>>
    BY <1>2 DEF Redeploy, vars, IInv, TypeOK
  <2>2. TypeOK'
    BY <2>1 DEF IInv, TypeOK
  <2>3. RunsOK'
    BY <2>1 DEF IInv, RunsOK, RunOK, LeftBehind, Window, Live
  <2>4. RowsOK' /\ LookupsOK' /\ CoveredHoursHaveKeys'
    BY <2>1 DEF IInv, RowsOK, LookupsOK, CoveredHoursHaveKeys, Copies, Live
  <2>5. \A h \in Hours : Seen(h)' = Seen(h)
    BY <2>1 DEF Seen, Copies
  <2>6. SeenIsStored' /\ OneKeySeen'
    BY <2>1, <2>5 DEF IInv, SeenIsStored, OneKeySeen, Live
  <2> QED BY <2>2, <2>3, <2>4, <2>6 DEF IInv
<1>3. ASSUME NEW h0 \in Hours, Replicate(h0) PROVE IInv'
  <2>1. /\ lag' = [lag EXCEPT ![h0] = table[h0]]
        /\ UNCHANGED <<clock, arn, table, run, env, mishaps, covered, replaced>>
    BY <1>3 DEF Replicate
  <2>2. TypeOK'
    BY <2>1 DEF IInv, TypeOK
  <2>3. \A h \in Hours : Copies(h)' \subseteq Copies(h)
    BY <2>1 DEF IInv, TypeOK, Copies
  <2>4. \A h \in Hours : Seen(h)' \subseteq Seen(h)
    BY <2>1, <2>3 DEF Seen
  <2>5. RunsOK'
    BY <2>1 DEF IInv, RunsOK, RunOK, LeftBehind, Window, Live
  <2>6. RowsOK' /\ LookupsOK' /\ CoveredHoursHaveKeys'
    BY <2>1, <2>3 DEF IInv, RowsOK, LookupsOK, CoveredHoursHaveKeys, Live
  <2>7. SeenIsStored' /\ OneKeySeen'
    BY <2>1, <2>4 DEF IInv, SeenIsStored, OneKeySeen, Live
  <2> QED BY <2>2, <2>5, <2>6, <2>7 DEF IInv
<1>4. ASSUME NEW h0 \in Hours, Expire(h0) PROVE IInv'
  <2>1. /\ table' = [table EXCEPT ![h0] = Absent] /\ table[h0] # Absent /\ table[h0].expiry <= clock
        /\ UNCHANGED <<clock, arn, lag, run, env, mishaps, covered, replaced>>
    BY <1>4 DEF Expire
  <2>2. ~Live(h0)
    <3>1. table[h0].expiry = h0 + KeyLife /\ clock \in Int /\ h0 \in Int
      BY <2>1, KeysAssumption DEF IInv, RowsOK, Copies, TypeOK, Clocks, Hours
    <3> QED BY <2>1, <3>1, KeysAssumption DEF Live
  <2>3. TypeOK'
    BY <2>1 DEF IInv, TypeOK, OptRow
  <2>4. \A h \in Hours : table'[h] = IF h = h0 THEN Absent ELSE table[h]
    BY <2>1 DEF IInv, TypeOK
  <2>5. \A h \in Hours : Copies(h)' \subseteq Copies(h) \cup {Absent}
    BY <2>1, <2>4 DEF Copies
  <2>6. \A h \in Hours : Seen(h)' \subseteq Seen(h)
    BY <2>1, <2>5 DEF Seen
  <2>7. \A h \in Hours : (Live(h) /\ table[h] # Absent) => table'[h] # Absent
    BY <2>2, <2>4
  <2>8. ASSUME NEW r \in Runs PROVE RunOK(r)' /\ LeftBehind(r)'
    <3>1. RunOK(r) /\ LeftBehind(r) /\ run[r] \in Run
      BY DEF IInv, RunsOK, TypeOK
    <3>2. RunOK(r)'
      BY <2>1, <3>1 DEF RunOK, Window
    <3>3. run[r].pc # "idle" => \A h \in run[r].start - Past .. run[r].at - 1 : h \in Hours
      BY <3>1, KeysAssumption DEF RunOK, Run, Window, Clocks, Hours
    <3> QED BY <2>1, <2>7, <3>1, <3>2, <3>3 DEF LeftBehind, Live
  <2>9. RowsOK' /\ LookupsOK'
    BY <2>1, <2>5 DEF IInv, RowsOK, LookupsOK
  <2>10. CoveredHoursHaveKeys'
    BY <2>1, <2>7 DEF IInv, TypeOK, CoveredHoursHaveKeys, Live
  <2>11. SeenIsStored' /\ OneKeySeen'
    BY <2>1, <2>6, <2>7 DEF IInv, SeenIsStored, OneKeySeen, Live
  <2> QED BY <2>3, <2>8, <2>9, <2>10, <2>11 DEF IInv, RunsOK
<1> QED BY <1>1, <1>2, <1>3, <1>4

\* Every step keeps the invariant.
LEMMA StepIInv == IInv /\ [Next]_vars => IInv'
<1> SUFFICES ASSUME IInv, [Next]_vars PROVE IInv'
  OBVIOUS
<1>1. ASSUME NEW r \in Runs, RunOnly(r) PROVE IInv'
  BY <1>1, RunOnlyStep
<1>2. ASSUME NEW r \in Runs, PutItem(r) PROVE IInv'
  BY <1>2, PutItemStep
<1>3. ASSUME NEW e \in Envs, EnvOnly(e) PROVE IInv'
  BY <1>3, EnvStep
<1> QED BY <1>1, <1>2, <1>3, NextCases, WorldStep DEF RunOnly, EnvOnly

-----------------------------------------------------------------------------
(* Theorems. *)

\* The inductive invariant holds of every reachable state of the generator
\* and the lookups.
THEOREM KeysInductive == Spec => []IInv
BY InitIInv, StepIInv, PTL DEF Spec

\* Every variable of the generator and the lookups keeps its type.
THEOREM KeysTyped == Spec => []TypeOK
<1>1. IInv => TypeOK
  BY DEF IInv
<1> QED BY <1>1, KeysInductive, PTL

\* After one run that ends well (main.go:37-58), every hour of its window has
\* a key until it expires, whatever fails, overlaps or is deployed later.
THEOREM CoverageLasts == Spec => []CoveredHoursHaveKeys
<1>1. IInv => CoveredHoursHaveKeys
  BY DEF IInv
<1> QED BY <1>1, KeysInductive, PTL

\* The service's caches (calendar_dao.go:85-115) agree on the key of an hour
\* unless the generator exchanged it.
THEOREM CachesAgree == Spec => []EnvsAgree
<1>1. IInv => EnvsAgree
  <2> SUFFICES ASSUME IInv, NEW e \in Envs, NEW f \in Envs, NEW h \in Hours,
                      Absent \notin {env[e].cache[h], env[f].cache[h]}, h \notin replaced
               PROVE  env[e].cache[h] = env[f].cache[h]
    BY DEF EnvsAgree
  <2>1. env[e].cache[h] \in Seen(h) /\ env[f].cache[h] \in Seen(h)
    BY DEF Seen
  <2> QED BY <2>1 DEF IInv, OneKeySeen
<1> QED BY <1>1, KeysInductive, PTL

\* The generator never makes a key that has already expired.
THEOREM KeysBornLive == Spec => NoKeyBornExpired
<1>1. IInv /\ [Next]_vars => [\A h \in Hours : table'[h] \notin {table[h], Absent} => Live(h)]_vars
  <2> SUFFICES ASSUME IInv, [Next]_vars, NEW h \in Hours, table'[h] \notin {table[h], Absent}
               PROVE  Live(h)
    OBVIOUS
  <2>1. ASSUME NEW r \in Runs, PutItem(r) PROVE Live(h)
    <3>1. /\ run[r].pc = "put" /\ RunOK(r) /\ TypeOK
          /\ table' = [table EXCEPT ![run[r].at] = NewRow(r)]
      BY <2>1, PutItemEffect DEF IInv
    <3>2. h = run[r].at
      BY <3>1 DEF TypeOK
    <3> QED BY <3>1, <3>2, PutIsLive
  <2>2. ASSUME NEW h0 \in Hours, Expire(h0) PROVE FALSE
    BY <2>2 DEF Expire, IInv, TypeOK
  <2>3. ASSUME NEW r \in Runs, RunOnly(r) PROVE FALSE
    BY <2>3, RunOnlyEffect
  <2>4. ASSUME NEW e \in Envs, EnvOnly(e) PROVE FALSE
    BY <2>4, EnvEffect
  <2>5. ~(Tick \/ Redeploy \/ UNCHANGED vars) /\ \A h0 \in Hours : ~Replicate(h0)
    BY DEF Tick, Redeploy, Replicate, vars
  <2> QED BY <2>1, <2>2, <2>3, <2>4, <2>5, NextCases DEF RunOnly, EnvOnly
<1> QED BY <1>1, KeysInductive, PTL DEF Spec, NoKeyBornExpired

\* A run that is not at a decision about h keeps h settled.
LEMMA SettledRun ==
    ASSUME TypeOK, NEW h \in Hours, Settled(h), NEW r \in Runs,
           UNCHANGED <<arn, lag>>, table'[h] = table[h],
           \A q \in Runs \ {r} : run'[q].pc = run[q].pc /\ run'[q].arn = run[q].arn
                                 /\ run'[q].at = run[q].at,
           run'[r].pc # "idle" => /\ run'[r].arn = arn
                                  /\ run'[r].at = h => run'[r].pc = "check"
    PROVE  Settled(h)'
  BY DEF Settled

\* No step unsettles a key but its expiry or a deployment: neither overlapping
\* nor failing nor lagging runs (main.go:60-134).
THEOREM SettledStays == Spec => SettledKeysStay
<1>1. ASSUME IInv, [Next]_vars, NEW h \in Hours, Settled(h), arn' = arn, Live(h)
      PROVE  Settled(h)' /\ table'[h] = table[h]
  <2>1. TypeOK /\ RunsOK /\ RowsOK
    BY <1>1 DEF IInv
  <2>2. /\ table[h] # Absent /\ lag[h] = table[h] /\ table[h].arn = arn
        /\ \A r \in Runs : run[r].pc # "idle" =>
              run[r].arn = arn /\ (run[r].at = h => run[r].pc = "check")
    BY <1>1 DEF Settled
  <2>3. ASSUME NEW r \in Runs, KeyExists(r) \/ PutItem(r), NextHour(r),
               table'[h] = table[h], UNCHANGED <<arn, lag>>
        PROVE  Settled(h)'
    <3>1. run[r].pc # "idle" /\ RunOK(r)
      BY <2>1, <2>3 DEF KeyExists, PutItem, RunsOK
    <3>2. /\ \A q \in Runs \ {r} : run'[q] = run[q]
          /\ (run'[r].pc = "check" /\ run'[r].arn = run[r].arn) \/ run'[r] = NoRun
      BY <2>1, <2>3, <3>1, NextHourEffect
    <3>3. run'[r].pc # "idle" => run'[r].arn = arn /\ run'[r].pc = "check"
      BY <2>2, <3>1, <3>2 DEF NoRun
    <3> QED BY <1>1, <2>1, <2>3, <3>2, <3>3, SettledRun
  <2>4. ASSUME NEW r \in Runs, RunOnly(r) PROVE Settled(h)' /\ table'[h] = table[h]
    <3>1. UNCHANGED <<arn, table, lag>> /\ \A q \in Runs \ {r} : run'[q] = run[q]
      BY <1>1, <2>4, RunOnlyEffect
    <3>2. CASE KeyExists(r)
      BY <2>3, <3>1, <3>2 DEF KeyExists
    <3>3. CASE StartRun(r)
      <4>1. run'[r].arn = arn /\ run'[r].pc = "check"
        BY <2>1, <3>3 DEF StartRun, TypeOK, Run
      <4> QED BY <1>1, <2>1, <3>1, <4>1, SettledRun
    <3>4. CASE KeyNeeded(r)
      <4>1. run[r].at # h /\ run[r].arn = arn
        BY <2>2, <3>4 DEF KeyNeeded, Copies, UsesSameArn
      <4>2. run'[r].at = run[r].at /\ run'[r].arn = run[r].arn
        BY <2>1, <3>4 DEF KeyNeeded, TypeOK, Run
      <4> QED BY <1>1, <2>1, <3>1, <4>1, <4>2, SettledRun
    <3>5. CASE Generate(r)
      <4>1. run[r].at # h /\ run[r].arn = arn
        BY <2>2, <3>5 DEF Generate
      <4>2. run'[r].at = run[r].at /\ run'[r].arn = run[r].arn
        BY <2>1, <3>5 DEF Generate, TypeOK, Run
      <4> QED BY <1>1, <2>1, <3>1, <4>1, <4>2, SettledRun
    <3>6. CASE RunFails(r)
      <4>1. run'[r].pc = "idle"
        BY <2>1, <3>6 DEF RunFails, TypeOK, NoRun
      <4> QED BY <1>1, <2>1, <3>1, <4>1, SettledRun
    <3> QED BY <2>4, <3>2, <3>3, <3>4, <3>5, <3>6 DEF RunOnly
  <2>5. ASSUME NEW r \in Runs, PutItem(r) PROVE Settled(h)' /\ table'[h] = table[h]
    <3>1. /\ run[r].pc = "put" /\ UNCHANGED <<arn, lag>>
          /\ table' = [table EXCEPT ![run[r].at] = NewRow(r)]
          /\ NextHour(r) \/ run' = [run EXCEPT ![r].tries = @ + 1]
      BY <2>1, <2>5, PutItemEffect
    <3>2. run[r].at # h /\ run[r].arn = arn
      BY <2>2, <3>1
    <3>3. table'[h] = table[h]
      BY <2>1, <3>1, <3>2 DEF TypeOK
    <3>4. CASE NextHour(r)
      BY <2>3, <2>5, <3>1, <3>3, <3>4
    <3>5. CASE run' = [run EXCEPT ![r].tries = @ + 1]
      BY <1>1, <2>1, <3>1, <3>2, <3>3, <3>5, RepeatEffect, SettledRun
    <3> QED BY <3>1, <3>3, <3>4, <3>5
  <2>6. ASSUME NEW e \in Envs, EnvOnly(e) PROVE Settled(h)' /\ table'[h] = table[h]
    <3>1. UNCHANGED <<arn, table, lag, run>>
      BY <1>1, <2>6, EnvEffect
    <3> QED BY <2>2, <3>1 DEF Settled
  <2>7. CASE Tick \/ UNCHANGED vars
    <3>1. UNCHANGED <<arn, table, lag, run>>
      BY <2>7 DEF Tick, vars
    <3> QED BY <2>2, <3>1 DEF Settled
  <2>8. CASE Redeploy
    BY <1>1, <2>8 DEF Redeploy
  <2>9. ASSUME NEW h0 \in Hours, Replicate(h0) PROVE Settled(h)' /\ table'[h] = table[h]
    <3>1. UNCHANGED <<arn, table, run>> /\ lag'[h] = table[h]
      BY <2>1, <2>2, <2>9 DEF Replicate, TypeOK
    <3> QED BY <2>2, <3>1 DEF Settled
  <2>10. ASSUME NEW h0 \in Hours, Expire(h0) PROVE Settled(h)' /\ table'[h] = table[h]
    <3>1. table[h].expiry = h + KeyLife /\ clock \in Int /\ h \in Int
      BY <2>1, <2>2, KeysAssumption DEF RowsOK, Copies, TypeOK, Clocks, Hours
    <3>2. h0 # h
      BY <1>1, <2>10, <3>1, KeysAssumption DEF Expire, Live
    <3>3. UNCHANGED <<arn, lag, run>> /\ table'[h] = table[h]
      BY <2>1, <2>10, <3>2 DEF Expire, TypeOK
    <3> QED BY <2>2, <3>3 DEF Settled
  <2> QED BY <1>1, <2>4, <2>5, <2>6, <2>7, <2>8, <2>9, <2>10, NextCases DEF RunOnly, EnvOnly
<1>2. IInv /\ [Next]_vars =>
         [\A h \in Hours : (Settled(h) /\ arn' = arn /\ Live(h)) =>
             Settled(h)' /\ table'[h] = table[h]]_vars
  BY <1>1
<1> QED BY <1>2, KeysInductive, PTL DEF Spec, SettledKeysStay

-----------------------------------------------------------------------------
(* Runs come to an end. *)

TriesOK == \A r \in Runs : run[r].tries < MaxAttempts

\* The calls a run may still make for the hour it is at: the lookup, the new
\* data key and every try of the put.
CallsAtHour(r) ==
    CASE run[r].pc = "check"    -> MaxAttempts + 2
      [] run[r].pc = "generate" -> MaxAttempts + 1
      [] run[r].pc = "put"      -> MaxAttempts - run[r].tries

HoursLeft(r) == run[r].start + Ahead - run[r].at

\* The calls it may make until its end.
CallsLeft(r) ==
    IF run[r].pc = "idle" THEN 0 ELSE (MaxAttempts + 2) * HoursLeft(r) + CallsAtHour(r)

\* A run under way has calls left: those of this hour, and of each later one.
LEMMA CallsLeftTyped ==
    ASSUME IInv, TriesOK, NEW r \in Runs, run[r].pc # "idle"
    PROVE  /\ MaxAttempts \in Nat \ {0} /\ run[r] \in Run
           /\ HoursLeft(r) \in Nat
           /\ CallsAtHour(r) \in Nat \ {0}
           /\ CallsLeft(r) \in Nat \ {0}
           /\ CallsLeft(r) = (MaxAttempts + 2) * HoursLeft(r) + CallsAtHour(r)
<1>1. MaxAttempts \in Nat \ {0} /\ Ahead \in Nat
  BY KeysAssumption
<1>2. run[r] \in Run /\ run[r].at \in Window(run[r].start) /\ run[r].tries < MaxAttempts
  BY DEF IInv, TypeOK, RunsOK, RunOK, TriesOK
<1>3. HoursLeft(r) \in Nat
  <2>1. run[r].start \in Int /\ run[r].at \in Int /\ run[r].at <= run[r].start + Ahead
    BY <1>2, WindowHours DEF Run, Window
  <2> QED BY <1>1, <2>1 DEF HoursLeft
<1>4. CallsAtHour(r) \in Nat \ {0}
  BY <1>1, <1>2 DEF CallsAtHour, Run
<1>5. CallsLeft(r) = (MaxAttempts + 2) * HoursLeft(r) + CallsAtHour(r)
  BY DEF CallsLeft
<1>6. (MaxAttempts + 2) * HoursLeft(r) \in Nat
  BY <1>1, <1>3
<1> QED BY <1>1, <1>2, <1>3, <1>4, <1>5, <1>6

\* Going on to the next hour, or stopping, leaves fewer calls.
LEMMA NextHourLeaves ==
    ASSUME IInv, TriesOK, NEW r \in Runs, run[r].pc # "idle", NextHour(r)
    PROVE  CallsLeft(r)' < CallsLeft(r) /\ run'[r].tries = 0
<1> DEFINE w == MaxAttempts + 2
           k == HoursLeft(r)
<1>1. /\ MaxAttempts \in Nat \ {0} /\ run[r] \in Run
      /\ k \in Nat /\ CallsAtHour(r) \in Nat \ {0} /\ CallsLeft(r) \in Nat \ {0}
      /\ CallsLeft(r) = w * k + CallsAtHour(r)
  BY CallsLeftTyped
<1>2. TypeOK /\ RunOK(r)
  BY DEF IInv, RunsOK
<1>3. CASE MoreHours(r)
  <2> DEFINE new == [run[r] EXCEPT !.pc = "check", !.at = run[r].at + 1,
                             !.data = Absent, !.tries = 0]
  <2>1. run' = [run EXCEPT ![r] = new]
    BY <1>3 DEF NextHour
  <2>2. run'[r] = new
    BY <1>2, <2>1 DEF TypeOK
  <2>3. /\ run'[r].pc = "check" /\ run'[r].at = run[r].at + 1
        /\ run'[r].start = run[r].start /\ run'[r].tries = 0
    BY <1>1, <2>2 DEF Run
  <2>4. HoursLeft(r)' = k - 1
    <3>1. run[r].start \in Int /\ run[r].at \in Int /\ Ahead \in Int
      BY <1>1, KeysAssumption DEF Run, Clocks, Hours
    <3> QED BY <2>3, <3>1 DEF HoursLeft
  <2>5. CallsLeft(r)' = w * (k - 1) + w
    BY <2>3, <2>4 DEF CallsLeft, CallsAtHour
  <2>6. w * (k - 1) + w = w * k
    <3> HIDE DEF k
    <3> QED BY <1>1
  <2> HIDE DEF k
  <2>7. w * k \in Nat
    BY <1>1
  <2> QED BY <1>1, <2>3, <2>5, <2>6, <2>7
<1>4. CASE ~MoreHours(r)
  <2>1. run' = [run EXCEPT ![r] = NoRun]
    BY <1>4 DEF NextHour
  <2>2. run'[r] = NoRun
    BY <1>2, <2>1 DEF TypeOK
  <2>3. CallsLeft(r)' = 0
    BY <2>2 DEF CallsLeft, NoRun
  <2> QED BY <1>1, <2>2, <2>3 DEF NoRun
<1> QED BY <1>3, <1>4

\* Every step of a run under way leaves it fewer calls.
LEMMA RunStepLeaves ==
    ASSUME IInv, TriesOK, NEW r \in Runs, run[r].pc # "idle", RunStep(r) \/ RunFails(r)
    PROVE  CallsLeft(r)' < CallsLeft(r) /\ run'[r].tries < MaxAttempts
<1>1. /\ MaxAttempts \in Nat \ {0} /\ run[r] \in Run
      /\ HoursLeft(r) \in Nat /\ CallsAtHour(r) \in Nat \ {0} /\ CallsLeft(r) \in Nat \ {0}
      /\ CallsLeft(r) = (MaxAttempts + 2) * HoursLeft(r) + CallsAtHour(r)
  BY CallsLeftTyped
<1>2. TypeOK /\ run[r].tries < MaxAttempts /\ run[r].tries \in Nat
  BY <1>1 DEF IInv, TriesOK, Run
<1>3. CASE NextHour(r)
  BY <1>1, <1>3, NextHourLeaves
<1>4. ASSUME HoursLeft(r)' = HoursLeft(r), run'[r].pc # "idle",
             CallsAtHour(r)' \in Nat, CallsAtHour(r)' < CallsAtHour(r)
      PROVE  CallsLeft(r)' < CallsLeft(r)
  <2>1. CallsLeft(r)' = (MaxAttempts + 2) * HoursLeft(r) + CallsAtHour(r)'
    BY <1>4 DEF CallsLeft
  <2>2. (MaxAttempts + 2) * HoursLeft(r) \in Nat
    BY <1>1
  <2> QED BY <1>1, <1>4, <2>1, <2>2
<1>5. CASE KeyNeeded(r)
  <2>1. /\ run[r].pc = "check" /\ run'[r].pc = "generate" /\ run'[r].tries = run[r].tries
        /\ run'[r].start = run[r].start /\ run'[r].at = run[r].at
    BY <1>1, <1>2, <1>5 DEF KeyNeeded, TypeOK, Run
  <2> QED BY <1>1, <1>2, <1>4, <2>1 DEF HoursLeft, CallsAtHour
<1>6. CASE Generate(r)
  <2>1. PICK d \in Data : run' = [run EXCEPT ![r] = [@ EXCEPT !.pc = "put", !.data = d]]
    BY <1>6 DEF Generate
  <2>2. /\ run[r].pc = "generate" /\ run'[r].pc = "put" /\ run'[r].tries = run[r].tries
        /\ run'[r].start = run[r].start /\ run'[r].at = run[r].at
    BY <1>1, <1>2, <1>6, <2>1 DEF Generate, TypeOK, Run
  <2> QED BY <1>1, <1>2, <1>4, <2>2 DEF HoursLeft, CallsAtHour
<1>7. CASE PutItem(r) /\ ~NextHour(r)
  <2> DEFINE new == [run[r] EXCEPT !.tries = @ + 1]
  <2>1. /\ run[r].pc = "put" /\ run[r].tries + 1 < MaxAttempts
        /\ run' = [run EXCEPT ![r].tries = @ + 1]
    BY <1>7 DEF PutItem
  <2>2. run' = [run EXCEPT ![r] = new]
    BY <2>1
  <2>3. run'[r] = new
    BY <1>2, <2>2 DEF TypeOK
  <2>4. /\ run'[r].pc = "put" /\ run'[r].tries = run[r].tries + 1
        /\ run'[r].start = run[r].start /\ run'[r].at = run[r].at
    BY <1>1, <2>1, <2>3 DEF Run
  <2> QED BY <1>1, <1>2, <1>4, <2>1, <2>4 DEF HoursLeft, CallsAtHour
<1>8. CASE RunFails(r)
  <2>1. run'[r] = NoRun
    BY <1>2, <1>8 DEF RunFails, TypeOK
  <2> QED BY <1>1, <2>1 DEF CallsLeft, NoRun
<1> QED BY <1>3, <1>5, <1>6, <1>7, <1>8 DEF RunStep, KeyExists

\* A step of one run, as the others see it.
LEMMA OthersKept ==
    ASSUME IInv, NEW r \in Runs, RunStep(r) \/ RunFails(r) \/ StartRun(r)
    PROVE  \A q \in Runs \ {r} : run'[q] = run[q]
<1>1. CASE RunOnly(r)
  BY <1>1, RunOnlyEffect
<1>2. CASE PutItem(r)
  BY <1>2 DEF PutItem, NextHour, IInv, TypeOK
<1> QED BY <1>1, <1>2 DEF RunStep, RunOnly

\* A run only ever goes forward through the hours of its window
\* (main.go:37-58): with n hours left it ends within (MaxAttempts + 2) * n and
\* the calls of the present hour, whatever the others do to the table under it
\* (the safety half of Recovers).
THEOREM RunsAdvance ==
    Spec => [][\A r \in Runs : run[r].pc # "idle" =>
                  run'[r] = run[r] \/ (CallsLeft(r) \in Nat /\ CallsLeft(r)' < CallsLeft(r))]_vars
<1> DEFINE A == \A r \in Runs : run[r].pc # "idle" =>
                   run'[r] = run[r] \/ (CallsLeft(r) \in Nat /\ CallsLeft(r)' < CallsLeft(r))
<1>1. Init => TriesOK
  BY KeysAssumption DEF Init, TriesOK, NoRun
<1>2. ASSUME IInv, TriesOK, [Next]_vars PROVE A /\ TriesOK'
  <2>1. ASSUME NEW r \in Runs, RunStep(r) \/ RunFails(r) PROVE A /\ TriesOK'
    <3>1. run[r].pc # "idle"
      BY <2>1 DEF RunStep, KeyExists, KeyNeeded, Generate, PutItem, RunFails
    <3>2. CallsLeft(r)' < CallsLeft(r) /\ run'[r].tries < MaxAttempts /\ CallsLeft(r) \in Nat
      BY <1>2, <2>1, <3>1, RunStepLeaves, CallsLeftTyped
    <3>3. \A q \in Runs \ {r} : run'[q] = run[q]
      BY <1>2, <2>1, OthersKept
    <3> QED BY <1>2, <3>2, <3>3 DEF TriesOK
  <2>2. ASSUME NEW r \in Runs, StartRun(r) PROVE A /\ TriesOK'
    <3>1. run[r].pc = "idle" /\ run'[r].tries = 0 /\ MaxAttempts > 0
      BY <1>2, <2>2, KeysAssumption DEF StartRun, IInv, TypeOK, Run
    <3>2. \A q \in Runs \ {r} : run'[q] = run[q]
      BY <1>2, <2>2, OthersKept
    <3> QED BY <1>2, <3>1, <3>2 DEF TriesOK
  <2>3. CASE UNCHANGED run
    BY <1>2, <2>3 DEF TriesOK
  <2>4. ASSUME NEW e \in Envs, EnvOnly(e) PROVE UNCHANGED run
    BY <1>2, <2>4, EnvEffect
  <2>5. (Tick \/ Redeploy \/ (\E h \in Hours : Replicate(h) \/ Expire(h)) \/ UNCHANGED vars)
           => UNCHANGED run
    BY DEF Tick, Redeploy, Replicate, Expire, vars
  <2> QED BY <1>2, <2>1, <2>2, <2>3, <2>4, <2>5, NextCases DEF RunStep, EnvOnly
<1>3. IInv /\ TriesOK /\ [Next]_vars => A /\ TriesOK'
  BY <1>2
<1>4. IInv /\ TriesOK /\ [Next]_vars => [A]_vars
  BY <1>3
<1> QED BY <1>1, <1>3, <1>4, KeysInductive, PTL DEF Spec

-----------------------------------------------------------------------------
(* When no key is exchanged. *)

\* Runs do not overlap: what a concurrency of one would give the generator.
OneRun == \A q, r \in Runs : (run[q].pc # "idle" /\ run[r].pc # "idle") => q = r

\* A run decides on the table, not on a replica behind it: what a consistent
\* read in main.go:70 would give.
DecidesOnTable == \A r \in Runs : KeyNeeded(r) => lag[run[r].at] = table[run[r].at]

ChecksCurrent == [][DecidesOnTable]_vars

\* One KMS key for good.
ArnKept == [][arn' = arn]_vars

\* Every environment that has a key for an hour has the same one.
OneKeyPerHour ==
    \A e, f \in Envs, h \in Hours :
       Absent \notin {env[e].cache[h], env[f].cache[h]} => env[e].cache[h] = env[f].cache[h]

OneArn ==
    /\ \A h \in Hours : \A row \in Copies(h) \ {Absent} : row.arn = arn
    /\ \A r \in Runs : run[r].pc # "idle" => run[r].arn = arn

\* A run about to put a key does so into an hour that has none, unless it is
\* the one it has just put there.
PutsIntoEmptyHour ==
    \A r \in Runs :
       /\ run[r].pc = "generate" => table[run[r].at] = Absent
       /\ run[r].pc = "put" => table[run[r].at] \in {Absent, NewRow(r)}

NoExchange == OneArn /\ PutsIntoEmptyHour /\ replaced = {}

\* A step that leaves the runs alone, and adds no row, exchanges no key.
LEMMA WorldKeepsKeys ==
    ASSUME NoExchange, UNCHANGED <<arn, run, replaced>>,
           \A h \in Hours : Copies(h)' \subseteq Copies(h) \cup {Absent},
           \A h \in Hours : table'[h] \in {table[h], Absent},
           TypeOK
    PROVE  NoExchange'
<1>1. \A r \in Runs : run[r].at \in Hours /\ NewRow(r)' = NewRow(r)
  BY DEF TypeOK, Run, NewRow
<1>2. OneArn'
  BY DEF NoExchange, OneArn
<1>3. PutsIntoEmptyHour'
  BY <1>1 DEF NoExchange, PutsIntoEmptyHour
<1> QED BY <1>2, <1>3 DEF NoExchange

\* The only run under way keeps its ARN; where it decides that it needs a key
\* there is none.
LEMMA RunOnlyKeepsKeys ==
    ASSUME IInv, NoExchange, OneRun, DecidesOnTable, NEW r \in Runs, RunOnly(r)
    PROVE  NoExchange'
<1>1. /\ UNCHANGED <<clock, arn, table, lag, env, replaced>>
      /\ \A q \in Runs \ {r} : run'[q] = run[q]
      /\ TypeOK /\ RunOK(r) /\ run[r] \in Run
  BY RunOnlyEffect DEF IInv, RunsOK, TypeOK
<1>2. \A q \in Runs \ {r} : NewRow(q)' = NewRow(q)
  BY <1>1 DEF NewRow
<1>3. \A h \in Hours : Copies(h)' = Copies(h)
  BY <1>1 DEF Copies
<1>4. ASSUME run'[r].pc # "idle" => run'[r].arn = arn,
             run'[r].pc \in {"generate", "put"} => table[run'[r].at] = Absent
      PROVE  NoExchange'
  <2>1. OneArn'
    BY <1>1, <1>3, <1>4 DEF NoExchange, OneArn
  <2>2. PutsIntoEmptyHour'
    BY <1>1, <1>2, <1>4 DEF NoExchange, PutsIntoEmptyHour
  <2> QED BY <1>1, <2>1, <2>2 DEF NoExchange
<1>5. CASE StartRun(r)
  BY <1>1, <1>4, <1>5 DEF StartRun, TypeOK, Run
<1>6. CASE KeyExists(r)
  <2>1. (run'[r].pc = "check" /\ run'[r].arn = run[r].arn) \/ run'[r] = NoRun
    BY <1>1, <1>6, NextHourEffect DEF KeyExists
  <2> QED BY <1>4, <1>6, <2>1 DEF KeyExists, NoRun, NoExchange, OneArn
<1>7. CASE KeyNeeded(r)
  <2>1. /\ run'[r].pc = "generate" /\ run'[r].arn = run[r].arn /\ run'[r].at = run[r].at
        /\ run[r].arn = arn /\ run[r].at \in Hours
    BY <1>1, <1>7 DEF KeyNeeded, TypeOK, Run, NoExchange, OneArn
  <2>2. Copies(run[r].at) = {table[run[r].at]}
    BY <1>7 DEF DecidesOnTable, Copies
  <2>3. table[run[r].at] = Absent
    BY <1>7, <2>1, <2>2 DEF KeyNeeded, UsesSameArn, NoExchange, OneArn
  <2> QED BY <1>4, <2>1, <2>3
<1>8. CASE Generate(r)
  <2>1. PICK d \in Data : run' = [run EXCEPT ![r] = [@ EXCEPT !.pc = "put", !.data = d]]
    BY <1>8 DEF Generate
  <2>2. /\ run[r].pc = "generate" /\ run'[r].arn = run[r].arn /\ run'[r].at = run[r].at
    BY <1>1, <1>8, <2>1 DEF Generate, TypeOK, Run
  <2> QED BY <1>4, <2>2 DEF NoExchange, OneArn, PutsIntoEmptyHour
<1>9. CASE RunFails(r)
  <2>1. run'[r] = NoRun
    BY <1>1, <1>9 DEF RunFails, TypeOK
  <2> QED BY <1>4, <2>1 DEF NoRun
<1> QED BY <1>5, <1>6, <1>7, <1>8, <1>9 DEF RunOnly

\* Its put, repeated or not, finds the hour empty or its own row.
LEMMA PutKeepsKeys ==
    ASSUME IInv, NoExchange, OneRun, NEW r \in Runs, PutItem(r)
    PROVE  NoExchange'
<1> DEFINE h0 == run[r].at
<1>1. /\ run[r].pc = "put" /\ RunOK(r) /\ TypeOK
      /\ table' = [table EXCEPT ![h0] = NewRow(r)]
      /\ replaced' = IF table[h0] \in {Absent, NewRow(r)} THEN replaced ELSE replaced \cup {h0}
      /\ UNCHANGED <<clock, arn, lag, env, mishaps>>
      /\ NextHour(r) \/ run' = [run EXCEPT ![r].tries = @ + 1]
  BY PutItemEffect DEF IInv
<1>2. run[r].arn = arn /\ NewRow(r).arn = arn /\ h0 \in Hours /\ run[r] \in Run
  BY <1>1 DEF NoExchange, OneArn, NewRow, TypeOK, Run
<1>3. replaced' = {}
  BY <1>1 DEF NoExchange, PutsIntoEmptyHour
<1>4. /\ table'[h0] = NewRow(r)
      /\ \A h \in Hours : Copies(h)' \subseteq Copies(h) \cup {NewRow(r)}
  BY <1>1, <1>2 DEF TypeOK, Copies
<1>5. \A q \in Runs \ {r} : run[q].pc = "idle"
  BY <1>1 DEF OneRun
<1>6. CASE NextHour(r)
  <2>1. /\ \A q \in Runs \ {r} : run'[q] = run[q]
        /\ (run'[r].pc = "check" /\ run'[r].arn = run[r].arn) \/ run'[r] = NoRun
    BY <1>1, <1>6, NextHourEffect
  <2>2. \A q \in Runs : run'[q].pc \in {"idle", "check"} /\ (run'[q].pc # "idle" => run'[q].arn = arn)
    BY <1>2, <1>5, <2>1 DEF NoRun
  <2>3. PutsIntoEmptyHour'
    BY <2>2 DEF PutsIntoEmptyHour
  <2>4. OneArn'
    BY <1>1, <1>2, <1>4, <2>2 DEF NoExchange, OneArn
  <2> QED BY <1>3, <2>3, <2>4 DEF NoExchange
<1>7. CASE run' = [run EXCEPT ![r].tries = @ + 1]
  <2>1. \A q \in Runs : /\ run'[q].pc = run[q].pc /\ run'[q].arn = run[q].arn
                        /\ run'[q].at = run[q].at /\ run'[q].data = run[q].data
    BY <1>1, <1>7, RepeatEffect
  <2>2. NewRow(r)' = NewRow(r)
    BY <2>1 DEF NewRow
  <2>3. PutsIntoEmptyHour'
    BY <1>1, <1>4, <1>5, <2>1, <2>2 DEF PutsIntoEmptyHour
  <2>4. OneArn'
    BY <1>1, <1>2, <1>4, <2>1 DEF NoExchange, OneArn
  <2> QED BY <1>3, <2>3, <2>4 DEF NoExchange
<1> QED BY <1>1, <1>6, <1>7

\* Where runs do not overlap, decide on the table itself and keep one ARN, no
\* key is ever exchanged for another (the put is unconditional,
\* main.go:122-128, so nothing else prevents it)...
THEOREM NoKeyExchanged ==
    Spec /\ []OneRun /\ ChecksCurrent /\ ArnKept => [](replaced = {})
<1>1. Init => NoExchange
  BY DEF Init, NoExchange, OneArn, PutsIntoEmptyHour, Copies, NoRows, NoRun
<1>2. ASSUME IInv, NoExchange, OneRun, [DecidesOnTable]_vars, [arn' = arn]_vars, [Next]_vars
      PROVE  NoExchange'
  <2>1. arn' = arn /\ TypeOK
    BY <1>2 DEF vars, IInv
  <2>2. ASSUME NEW r \in Runs, RunOnly(r) PROVE NoExchange'
    <3>1. CASE DecidesOnTable
      BY <1>2, <2>2, <3>1, RunOnlyKeepsKeys
    <3>2. CASE UNCHANGED vars
      <4>1. UNCHANGED <<arn, run, replaced, table, lag>>
        BY <3>2 DEF vars
      <4> QED BY <1>2, <2>1, <4>1, WorldKeepsKeys DEF Copies
    <3> QED BY <1>2, <3>1, <3>2
  <2>3. ASSUME NEW r \in Runs, PutItem(r) PROVE NoExchange'
    BY <1>2, <2>3, PutKeepsKeys
  <2>4. CASE UNCHANGED <<run, replaced, table, lag>>
    BY <1>2, <2>1, <2>4, WorldKeepsKeys DEF Copies
  <2>5. ASSUME NEW e \in Envs, EnvOnly(e) PROVE NoExchange'
    BY <1>2, <2>4, <2>5, EnvEffect
  <2>6. CASE Tick \/ Redeploy \/ UNCHANGED vars
    BY <2>4, <2>6 DEF Tick, Redeploy, vars
  <2>7. ASSUME NEW h0 \in Hours, Replicate(h0) PROVE NoExchange'
    <3>1. /\ lag' = [lag EXCEPT ![h0] = table[h0]]
          /\ UNCHANGED <<arn, table, run, replaced>>
      BY <2>7 DEF Replicate
    <3>2. \A h \in Hours : Copies(h)' \subseteq Copies(h)
      BY <2>1, <3>1 DEF TypeOK, Copies
    <3> QED BY <1>2, <2>1, <3>1, <3>2, WorldKeepsKeys
  <2>8. ASSUME NEW h0 \in Hours, Expire(h0) PROVE NoExchange'
    <3>1. /\ table' = [table EXCEPT ![h0] = Absent]
          /\ UNCHANGED <<arn, lag, run, replaced>>
      BY <2>8 DEF Expire
    <3>2. \A h \in Hours : table'[h] \in {table[h], Absent}
      BY <2>1, <3>1 DEF TypeOK
    <3>3. \A h \in Hours : Copies(h)' \subseteq Copies(h) \cup {Absent}
      BY <3>1, <3>2 DEF Copies
    <3> QED BY <1>2, <2>1, <3>1, <3>2, <3>3, WorldKeepsKeys
  <2> QED BY <1>2, <2>2, <2>3, <2>5, <2>6, <2>7, <2>8, NextCases DEF RunOnly, EnvOnly
<1>3. IInv /\ NoExchange /\ OneRun /\ [DecidesOnTable]_vars /\ [arn' = arn]_vars /\ [Next]_vars
         => NoExchange'
  BY <1>2
<1>4. NoExchange => replaced = {}
  BY DEF NoExchange
<1> QED BY <1>1, <1>3, <1>4, KeysInductive, PTL DEF Spec, ChecksCurrent, ArnKept

\* ...so all environments of the service decrypt the tokens of an hour with
\* the same key (calendar_dao.go:80-115): the exception EnvsAgree makes is
\* due to overlapping runs, lagging reads and redeployments, to nothing else.
THEOREM EnvsShareKey ==
    Spec /\ []OneRun /\ ChecksCurrent /\ ArnKept => []OneKeyPerHour
<1>1. EnvsAgree /\ replaced = {} => OneKeyPerHour
  BY DEF EnvsAgree, OneKeyPerHour
<1> QED BY <1>1, NoKeyExchanged, CachesAgree, PTL
=============================================================================
