---------------------------- MODULE AuthSessions ----------------------------
(***************************************************************************)
(* Login sessions and the credentials they come from: logins with a        *)
(* password or an access key, rotation of refresh tokens, logout, and the  *)
(* operator commands that take credentials back.                           *)
(*                                                                         *)
(* Every request and every command is a PostgreSQL transaction at READ     *)
(* COMMITTED.  What it has written is seen by the others when it commits;  *)
(* an UPDATE sees the rows committed when the statement begins and, when   *)
(* one of them is locked, waits and tests it again.  Row locks:            *)
(*   SELECT ... FOR UPDATE           excludes every other lock;            *)
(*   UPDATE of ordinary columns      excludes all but key-share locks;     *)
(*   INSERT of a referencing row     takes a key-share lock on the user    *)
(*                                   and on the access key it refers to.   *)
(* A lock is not a variable of its own: it is held from the step that      *)
(* takes it to the end of the transaction, so the transaction's place in   *)
(* its code says which locks it holds.                                     *)
(***************************************************************************)
EXTENDS Naturals, FiniteSets, FiniteSetsExt

CONSTANTS
  Users,
  Keys, Passwords,   \* every access key there can be, the passwords of users
  Owner,             \* the user each of them belongs to
  MaxSessions,       \* bound on the sessions at the same time
  Requests,          \* API requests at the same time
  Operators          \* operator commands at the same time

Creds == Keys \cup Passwords
NoCred == 0

Sids == 1..MaxSessions
NoSid == 0

ASSUME CredsAssumption ==
  Keys \subseteq Nat \ {0} /\ Passwords \subseteq Nat \ {0} /\ Keys \cap Passwords = {}
ASSUME OwnerAssumption == Owner \in [Keys \cup Passwords -> Users]
ASSUME SessionsAssumption == MaxSessions \in Nat
ASSUME RequestsAssumption == IsFiniteSet(Requests)

VARIABLES
  enabled,    \* users.is_active
  cred,       \* per credential: was it issued, and how was it taken back
  session,    \* the auth_sessions table: the sessions neither revoked nor expired
  request,    \* per API request: where its transaction is
  operator    \* per operator command: where its transaction is

vars == <<enabled, cred, session, request, operator>>

-----------------------------------------------------------------------------
\* "revoked" is revoke-key, "reset" is reset-access-key.  A session does not
\* know the password it comes from, and an ordinary change of a password ends no
\* session: the passwords of a user are not told apart.
CredState == {"unissued", "active", "revoked", "reset"}

NoSession == [cred |-> NoCred, login |-> NoSid]
IdleRequest == [pc |-> "idle", cred |-> NoCred, login |-> NoSid, old |-> NoSid, new |-> NoSid]
IdleOperator == [pc |-> "idle", kind |-> "revoke", cred |-> NoCred,
                 new |-> NoCred, targets |-> {}]

\* login is the session the chain of rotations began with.  A session that is
\* revoked or expired is like one that never was: every test refuses both.
Session == {NoSession} \cup [cred : Creds, login : Sids]

\* From its row lock on, a request knows the credential of the new session, and
\* a rotation its login.
Request ==
  {IdleRequest}
  \cup [pc : {"verified", "keyed"}, cred : Creds, login : {NoSid}, old : {NoSid}, new : {NoSid}]
  \cup [pc : {"checked"}, cred : {NoCred}, login : {NoSid}, old : Sids, new : {NoSid}]
  \cup [pc : {"locked"}, cred : Creds, login : Sids, old : Sids, new : {NoSid}]
  \cup [pc : {"inserted"}, cred : Creds, login : Sids, old : Sids, new : Sids]
  \cup [pc : {"inserted"}, cred : Creds, login : {NoSid}, old : {NoSid}, new : Sids]

Operator == [pc : {"idle", "locked", "updated", "sweeping"},
             kind : {"revoke", "password", "key"},
             cred : Creds \cup {NoCred}, new : Creds \cup {NoCred},
             targets : SUBSET Sids]

TypeOK ==
  /\ enabled \in [Users -> BOOLEAN]
  /\ cred \in [Creds -> CredState]
  /\ session \in [Sids -> Session]
  /\ request \in [Requests -> Request]
  /\ operator \in [Operators -> Operator]

Init ==
  /\ enabled = [u \in Users |-> TRUE]
  /\ cred = [c \in Creds |-> IF c \in Passwords THEN "active" ELSE "unissued"]
  /\ session = [s \in Sids |-> NoSession]
  /\ request = [r \in Requests |-> IdleRequest]
  /\ operator = [o \in Operators |-> IdleOperator]

-----------------------------------------------------------------------------
(* Row locks.                                                              *)

\* A rotation holds its session row from get_for_update on.
SessionLocked(s) ==
  \E r \in Requests : request[r].pc \in {"locked", "inserted"} /\ request[r].old = s

\* A login holds its key row; so does a command that has updated it.
KeyWriteLocked(k) ==
  \/ \E r \in Requests : /\ request[r].pc \in {"keyed", "inserted"}
                         /\ request[r].cred = k /\ request[r].old = NoSid
  \/ \E o \in Operators :
       /\ operator[o].pc \in {"updated", "sweeping"}
       /\ \/ operator[o].kind = "revoke" /\ operator[o].cred = k
          \/ /\ operator[o].kind = "key" /\ cred[k] = "active"
             /\ Owner[operator[o].new] = Owner[k]

\* The only FOR UPDATE lock a rotation's key-share lock has to wait for.
KeyTakenByLogin(k, r) ==
  \E q \in Requests \ {r} : /\ request[q].pc \in {"keyed", "inserted"}
                            /\ request[q].cred = k /\ request[q].old = NoSid

KeyShared(k) ==
  \E r \in Requests : request[r].pc = "inserted" /\ request[r].cred = k

\* reset-access-key holds the user row FOR UPDATE; reset-admin-password has
\* updated it.
UserTaken(u) ==
  \E o \in Operators : /\ operator[o].pc # "idle" /\ operator[o].kind = "key"
                       /\ Owner[operator[o].new] = u

UserWriteLocked(u) ==
  \E o \in Operators : /\ operator[o].pc # "idle" /\ operator[o].kind # "revoke"
                       /\ Owner[operator[o].new] = u

UserShared(u) ==
  \E r \in Requests : request[r].pc = "inserted" /\ Owner[request[r].cred] = u

-----------------------------------------------------------------------------
(* API requests.                                                           *)

Rollback(r) == request' = [request EXCEPT ![r] = IdleRequest]

\* What lets an access token pass, and a refresh token be rotated.
Live(s) == session[s] # NoSession

\* Session ids are uuid4 values; the model gives an id again when nothing refers
\* to it, and every transaction that has begun finds one.
UnusedSids ==
  {s \in Sids : /\ ~Live(s) /\ \A q \in Requests : s \notin {request[q].old, request[q].new}
                /\ \A t \in Sids : session[t].login # s}

Room == Cardinality({r \in Requests : request[r].pc # "idle"}) < Cardinality(UnusedSids)

\* authenticate: the password is verified against a row read without a lock.
VerifyPassword(r, p) ==
  /\ request[r].pc = "idle" /\ Room
  /\ enabled[Owner[p]]
  /\ request' = [request EXCEPT ![r].pc = "verified", ![r].cred = p]
  /\ UNCHANGED <<enabled, cred, session, operator>>

\* authenticate_key: the key row is locked, then tested.
LockKey(r, k) ==
  /\ request[r].pc = "idle" /\ Room
  /\ ~KeyWriteLocked(k) /\ ~KeyShared(k)
  /\ cred[k] = "active" /\ enabled[Owner[k]]
  /\ request' = [request EXCEPT ![r].pc = "keyed", ![r].cred = k]
  /\ UNCHANGED <<enabled, cred, session, operator>>

\* rotate: a refresh token of s is presented; that of a session which is over
\* by now is refused below.
CheckUser(r, s) ==
  /\ request[r].pc = "idle" /\ Room
  /\ Live(s) /\ enabled[Owner[session[s].cred]]
  /\ request' = [request EXCEPT ![r].pc = "checked", ![r].old = s]
  /\ UNCHANGED <<enabled, cred, session, operator>>

\* The new session has the key of the old one, and its login.
Inherited(q, s) ==
  [q EXCEPT !.pc = "locked", !.cred = session[s].cred, !.login = session[s].login]

\* Mutant: the session row is read without a lock.
LockSessionWithoutLock(r) ==
  LET s == request[r].old IN
  /\ request[r].pc = "checked"
  /\ IF Live(s)
       THEN request' = [request EXCEPT ![r] = Inherited(@, s)]
       ELSE Rollback(r)
  /\ UNCHANGED <<enabled, cred, session, operator>>

\* Mutant: the new session does not inherit the key.
LockSessionForgettingKey(r) ==
  LET s == request[r].old IN
  /\ request[r].pc = "checked"
  /\ ~SessionLocked(s)
  /\ IF Live(s)
       THEN request' = [request EXCEPT ![r].pc = "locked", ![r].login = session[s].login]
       ELSE Rollback(r)
  /\ UNCHANGED <<enabled, cred, session, operator>>

\* Mutant: a token that lost the race is tried again instead of refused.
LockSessionOrRetry(r) ==
  LET s == request[r].old IN
  /\ request[r].pc = "checked"
  /\ ~SessionLocked(s)
  /\ Live(s)
  /\ request' = [request EXCEPT ![r] = Inherited(@, s)]
  /\ UNCHANGED <<enabled, cred, session, operator>>

LockSession(r) ==
  LET s == request[r].old IN
  /\ request[r].pc = "checked"
  /\ ~SessionLocked(s)
  /\ IF Live(s)
       THEN request' = [request EXCEPT ![r] = Inherited(@, s)]
       ELSE Rollback(r)
  /\ UNCHANGED <<enabled, cred, session, operator>>

\* create: the new row is flushed, which takes its two key-share locks.
InsertSession(r) ==
  LET c == request[r].cred IN
  /\ request[r].pc \in {"verified", "keyed", "locked"}
  /\ ~UserTaken(Owner[c])
  /\ c \in Keys => ~KeyTakenByLogin(c, r)
  /\ request' = [request EXCEPT ![r].pc = "inserted", ![r].new = Min(UnusedSids)]
  /\ UNCHANGED <<enabled, cred, session, operator>>

\* The new session becomes visible and, in a rotation, the old one ends.
CommitSession(r) ==
  LET q == request[r]
      login == IF q.old = NoSid THEN q.new ELSE q.login IN
  /\ q.pc = "inserted"
  /\ session' = [s \in Sids |->
                   IF s = q.new THEN [cred |-> q.cred, login |-> login]
                   ELSE IF s = q.old THEN NoSession ELSE session[s]]
  /\ Rollback(r)
  /\ UNCHANGED <<enabled, cred, operator>>

\* revoke: lock, test, update and commit, with nothing else to wait for.
Logout(s) ==
  /\ Live(s) /\ ~SessionLocked(s)
  /\ session' = [session EXCEPT ![s] = NoSession]
  /\ UNCHANGED <<enabled, cred, request, operator>>

\* A lost connection, a cancelled request, an error: the transaction is
\* rolled back.
RequestDies(r) ==
  /\ request[r].pc # "idle"
  /\ Rollback(r)
  /\ UNCHANGED <<enabled, cred, session, operator>>

-----------------------------------------------------------------------------
(* Operator commands.                                                      *)

Begin(o, pc, kind, c, new) ==
  operator' = [operator EXCEPT ![o] = [pc |-> pc, kind |-> kind, cred |-> c,
                                       new |-> new, targets |-> {}]]

\* A new key is a random value; the model takes the next of its numbers.
UnissuedKeys(u) ==
  {k \in Keys : Owner[k] = u /\ cred[k] = "unissued" /\ \A o \in Operators : operator[o].new # k}

IsNew(k) == k \in UnissuedKeys(Owner[k]) /\ k = Min(UnissuedKeys(Owner[k]))

IssueKey(k) ==
  /\ IsNew(k)
  /\ ~UserTaken(Owner[k])
  /\ cred' = [cred EXCEPT ![k] = "active"]
  /\ UNCHANGED <<enabled, session, request, operator>>

SetEnabled(u) ==
  /\ ~UserWriteLocked(u)
  /\ enabled' = [enabled EXCEPT ![u] = ~@]
  /\ UNCHANGED <<cred, session, request, operator>>

\* Mutant: as if logins did not lock their key.
RevokeKeyAtOnce(o, k) ==
  /\ operator[o].pc = "idle"
  /\ cred[k] = "active"
  /\ Begin(o, "updated", "revoke", k, NoCred)
  /\ UNCHANGED <<enabled, cred, session, request>>

\* revoke-key: the UPDATE of access_keys.
RevokeKey(o, k) ==
  /\ operator[o].pc = "idle"
  /\ cred[k] = "active" /\ ~KeyWriteLocked(k)
  /\ Begin(o, "updated", "revoke", k, NoCred)
  /\ UNCHANGED <<enabled, cred, session, request>>

\* reset-admin-password: the UPDATE of users.
ResetPassword(o, p) ==
  /\ operator[o].pc = "idle"
  /\ enabled[Owner[p]] /\ ~UserWriteLocked(Owner[p])
  /\ Begin(o, "updated", "password", NoCred, p)
  /\ UNCHANGED <<enabled, cred, session, request>>

\* Mutant: the user row is read without FOR UPDATE.
ResetKeyWithoutLock(o, k) ==
  /\ operator[o].pc = "idle"
  /\ IsNew(k)
  /\ enabled[Owner[k]] /\ ~UserWriteLocked(Owner[k])
  /\ Begin(o, "locked", "key", NoCred, k)
  /\ UNCHANGED <<enabled, cred, session, request>>

\* reset-access-key: SELECT ... FOR UPDATE of the user, ...
ResetKey(o, k) ==
  /\ operator[o].pc = "idle"
  /\ IsNew(k)
  /\ enabled[Owner[k]] /\ ~UserWriteLocked(Owner[k]) /\ ~UserShared(Owner[k])
  /\ Begin(o, "locked", "key", NoCred, k)
  /\ UNCHANGED <<enabled, cred, session, request>>

KeysOf(u) == {k \in Keys : Owner[k] = u /\ cred[k] = "active"}

\* Mutant: the command, which has locked the user, waits for requests to end.
UpdateKeysWhenQuiet(o) ==
  /\ operator[o].pc = "locked"
  /\ \A r \in Requests : request[r].pc = "idle"
  /\ operator' = [operator EXCEPT ![o].pc = "updated"]
  /\ UNCHANGED <<enabled, cred, session, request>>

\* ... then the UPDATE of the user's keys, which waits for each of them.
UpdateKeys(o) ==
  /\ operator[o].pc = "locked"
  /\ \A k \in KeysOf(Owner[operator[o].new]) : ~KeyWriteLocked(k)
  /\ operator' = [operator EXCEPT ![o].pc = "updated"]
  /\ UNCHANGED <<enabled, cred, session, request>>

\* The UPDATE of auth_sessions begins: these are the rows it will visit.
SelectSessions(o) ==
  LET op == operator[o] IN
  /\ op.pc = "updated"
  /\ operator' = [operator EXCEPT ![o].pc = "sweeping",
       ![o].targets = {s \in Sids : /\ Live(s)
                                    /\ IF op.kind = "revoke" THEN session[s].cred = op.cred
                                       ELSE Owner[session[s].cred] = Owner[op.new]}]
  /\ UNCHANGED <<enabled, cred, session, request>>

\* What the command has written becomes visible.
TakenBack(op, c) ==
  CASE c = op.new -> "active"
    [] c = op.cred -> "revoked"
    [] op.kind = "key" /\ c \in KeysOf(Owner[op.new]) \ {op.new} -> "reset"
    [] OTHER -> cred[c]

\* Each row was waited for and tested again; the transaction commits.
FinishSweep(o) ==
  LET op == operator[o] IN
  /\ op.pc = "sweeping"
  /\ \A s \in op.targets : ~SessionLocked(s)
  /\ session' = [s \in Sids |-> IF s \in op.targets THEN NoSession ELSE session[s]]
  /\ cred' = [c \in Creds |-> TakenBack(op, c)]
  /\ operator' = [operator EXCEPT ![o] = IdleOperator]
  /\ UNCHANGED <<enabled, request>>

OperatorDies(o) ==
  /\ operator[o].pc # "idle"
  /\ operator' = [operator EXCEPT ![o] = IdleOperator]
  /\ UNCHANGED <<enabled, cred, session, request>>

-----------------------------------------------------------------------------
(* The environment.                                                        *)

\* An expiry under a lock changes nothing before the lock is released.
SessionExpires(s) ==
  /\ Live(s) /\ ~SessionLocked(s)
  /\ session' = [session EXCEPT ![s] = NoSession]
  /\ UNCHANGED <<enabled, cred, request, operator>>

\* r waits for the user row o has locked, and o for the row r has locked.
Deadlocked(r, o) ==
  LET q == request[r]
      op == operator[o] IN
  /\ op.pc # "idle" /\ op.kind = "key"
  /\ \/ /\ q.pc = "keyed" /\ op.pc = "locked"
        /\ Owner[q.cred] = Owner[op.new]
     \/ q.pc = "locked" /\ op.pc = "sweeping" /\ q.old \in op.targets

\* PostgreSQL finds the cycle and aborts one of the two.
BreakDeadlock(r, o) ==
  /\ Deadlocked(r, o)
  /\ \/ Rollback(r) /\ UNCHANGED operator
     \/ operator' = [operator EXCEPT ![o] = IdleOperator] /\ UNCHANGED request
  /\ UNCHANGED <<enabled, cred, session>>

-----------------------------------------------------------------------------
RequestStep(r) == LockSession(r) \/ InsertSession(r) \/ CommitSession(r)

RequestBegins(r) ==
  \/ \E p \in Passwords : VerifyPassword(r, p)
  \/ \E k \in Keys : LockKey(r, k)
  \/ \E s \in Sids : CheckUser(r, s)

OperatorStep(o) == UpdateKeys(o) \/ SelectSessions(o) \/ FinishSweep(o)

OperatorBegins(o) ==
  \/ \E k \in Keys : RevokeKey(o, k) \/ ResetKey(o, k)
  \/ \E p \in Passwords : ResetPassword(o, p)

Next ==
  \/ \E r \in Requests : RequestBegins(r) \/ RequestStep(r) \/ RequestDies(r)
  \/ \E o \in Operators : OperatorBegins(o) \/ OperatorStep(o) \/ OperatorDies(o)
  \/ \E r \in Requests, o \in Operators : BreakDeadlock(r, o)
  \/ \E s \in Sids : Logout(s) \/ SessionExpires(s)
  \/ \E k \in Keys : IssueKey(k)
  \/ \E u \in Users : SetEnabled(u)

Spec == Init /\ [][Next]_vars

(* A transaction that can go on does, lock queues are first in first out   *)
(* (hence strong fairness), and a deadlock is broken.                      *)
Fairness ==
  /\ \A r \in Requests : SF_vars(RequestStep(r))
  /\ \A o \in Operators : SF_vars(OperatorStep(o))
  /\ WF_vars(\E r \in Requests, o \in Operators : BreakDeadlock(r, o))

FairSpec == Spec /\ Fairness

-----------------------------------------------------------------------------
(* Properties.                                                             *)

\* A login has at most one live session, however often and by however many
\* requests its refresh tokens are presented: rotation hands the login on and
\* never forks it (service.py:101).
OneLivePerLogin ==
  \A s1, s2 \in Sids :
    Live(s1) /\ Live(s2) /\ session[s1].login = session[s2].login => s1 = s2

\* reset-access-key leaves no session of the keys it took back, whatever
\* logins and rotations were under way (rescue.py:170).
KeyResetComplete ==
  \A s \in Sids : Live(s) /\ session[s].cred \in Keys => cred[session[s].cred] # "reset"

\* No login gets past revoke-key: a session that outlives its revoked key is
\* the product of a rotation.
NoLoginOutlivesKey ==
  \A s \in Sids :
    Live(s) /\ session[s].cred \in Keys /\ cred[session[s].cred] = "revoked"
      => session[s].login # s

\* revoke-key ends all sessions created with the key.
KeyRevocationComplete ==
  \A s \in Sids : Live(s) /\ session[s].cred \in Keys => cred[session[s].cred] # "revoked"

\* A refresh that waits for its session row ends: it gets the row, or learns
\* that the token is spent.
RefreshEnds ==
  \A r \in Requests : request[r].pc = "checked" ~> request[r].pc # "checked"

\* An operator command ends, deadlocks with logins and rotations included.
CommandEnds ==
  \A o \in Operators : operator[o].pc # "idle" ~> operator[o].pc = "idle"
=============================================================================
