-------------------------- MODULE SessionAuthority --------------------------
(***************************************************************************)
(* What accounts and sessions promise: the abstract specification that     *)
(* UserAccounts implements.  A name is registered once and for all; a      *)
(* session is opened for whoever presents the name's password; a request   *)
(* is served when it names an open session and the user of that session.   *)
(***************************************************************************)
EXTENDS Naturals

CONSTANTS Usernames, Passwords, UserIds, SessionIds, Slots, Absent

VARIABLES
    account,    \* id and password of each registered name, or Absent
    openings,   \* the name and password that opened each session, and its end
    serving,    \* the user and session each slot is serving, or Absent
    time

vars == <<account, openings, serving, time>>

Init ==
    /\ account  = [u \in Usernames |-> Absent]
    /\ openings = [s \in SessionIds |-> Absent]
    /\ serving  = [r \in Slots |-> Absent]
    /\ time     = 0

\* A slot that served a request may turn to another.
MayFinish ==
    serving' = serving \/ \E r \in Slots : serving' = [serving EXCEPT ![r] = Absent]

\* Two names never share an id.
Register(u, id, p) ==
    /\ account[u] = Absent
    /\ \A v \in Usernames : account[v] # Absent => account[v].id # id
    /\ account' = [account EXCEPT ![u] = [id |-> id, password |-> p]]
    /\ MayFinish
    /\ UNCHANGED <<openings, time>>

\* Until when the session lasts is left open, but it is not over yet.
Open(s, u, p) ==
    /\ openings[s] = Absent
    /\ account[u] # Absent
    /\ account[u].password = p
    /\ openings'[s] # Absent
    /\ openings'[s].until > time
    /\ openings' = [openings EXCEPT ![s] =
                      [name |-> u, password |-> p, until |-> openings'[s].until]]
    /\ UNCHANGED <<account, serving, time>>

Serve(r, s) ==
    /\ openings[s] # Absent
    /\ time < openings[s].until
    /\ serving' = [serving EXCEPT ![r] =
                     [userId |-> account[openings[s].name].id, session |-> s]]
    /\ UNCHANGED <<account, openings, time>>

Finish(r) ==
    /\ serving' = [serving EXCEPT ![r] = Absent]
    /\ UNCHANGED <<account, openings, time>>

Tick ==
    /\ time' = time + 1
    /\ UNCHANGED <<account, openings, serving>>

Next ==
    \/ \E u \in Usernames, id \in UserIds, p \in Passwords : Register(u, id, p)
    \/ \E s \in SessionIds, u \in Usernames, p \in Passwords :
          Open(s, u, p)
    \/ \E r \in Slots : Finish(r) \/ \E s \in SessionIds : Serve(r, s)
    \/ Tick

Spec == Init /\ [][Next]_vars
=============================================================================
