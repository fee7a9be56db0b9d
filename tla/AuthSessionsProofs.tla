------------------------- MODULE AuthSessionsProofs -------------------------
(***************************************************************************)
(* One live session per login, and what reset-access-key and revoke-key    *)
(* leave behind, for any number of users, credentials, requests, commands  *)
(* and sessions.                                                           *)
(***************************************************************************)
EXTENDS AuthSessions, FiniteSetTheorems, WellFoundedInduction, TLAPS

-----------------------------------------------------------------------------
(* Types.                                                                  *)

Sid == Sids \cup {NoSid}
Verified == [pc : {"verified", "keyed"}, cred : Creds, login : {NoSid}, old : {NoSid},
             new : {NoSid}]
Checked == [pc : {"checked"}, cred : {NoCred}, login : {NoSid}, old : Sids, new : {NoSid}]
Locked == [pc : {"locked"}, cred : Creds, login : Sids, old : Sids, new : {NoSid}]
Rotated == [pc : {"inserted"}, cred : Creds, login : Sids, old : Sids, new : Sids]
LoggedIn == [pc : {"inserted"}, cred : Creds, login : {NoSid}, old : {NoSid}, new : Sids]

LEMMA Ids == NoSid \notin Sids /\ NoCred \notin Creds /\ Sids \subseteq Nat
  BY CredsAssumption, SessionsAssumption DEF NoSid, NoCred, Sids, Creds

LEMMA RequestKinds ==
  ASSUME NEW q \in Request
  PROVE  /\ q.pc \in {"idle", "verified", "keyed", "checked", "locked", "inserted"}
         /\ q.pc = "idle" => q = IdleRequest
         /\ q.pc \in {"verified", "keyed"} => q \in Verified
         /\ q.pc = "checked" => q \in Checked
         /\ q.pc = "locked" => q \in Locked
         /\ q.pc = "inserted" => q \in Rotated \/ q \in LoggedIn
<1>1. \/ q = IdleRequest \/ q \in Verified \/ q \in Checked \/ q \in Locked
      \/ q \in Rotated \/ q \in LoggedIn
  BY DEF Request, Verified, Checked, Locked, Rotated, LoggedIn
<1>2. CASE q = IdleRequest
  BY <1>2 DEF IdleRequest
<1>3. CASE q \in Verified
  BY <1>3 DEF Verified
<1>4. CASE q \in Checked
  BY <1>4 DEF Checked
<1>5. CASE q \in Locked
  BY <1>5 DEF Locked
<1>6. CASE q \in Rotated
  BY <1>6 DEF Rotated
<1>7. CASE q \in LoggedIn
  BY <1>7 DEF LoggedIn
<1>. QED  BY <1>1, <1>2, <1>3, <1>4, <1>5, <1>6, <1>7

\* What a request knows at each place of its transaction.
LEMMA RequestFields ==
  ASSUME NEW q \in Request
  PROVE  /\ q.pc \in {"idle", "verified", "keyed", "checked", "locked", "inserted"}
         /\ q.old \in Sid /\ q.new \in Sid /\ q.login \in Sid /\ q.cred \in Creds \cup {NoCred}
         /\ q.pc # "inserted" => q.new = NoSid
         /\ q.pc \in {"idle", "verified", "keyed"} => q.old = NoSid
         /\ q.pc \in {"checked", "locked"} => q.old \in Sids
         /\ q.pc \in {"verified", "keyed", "locked", "inserted"} => q.cred \in Creds
         /\ q.pc = "inserted" => q.new \in Sids /\ (q.old # NoSid => q.login \in Sids)
<1>1. CASE q.pc = "idle"
  BY <1>1, RequestKinds DEF IdleRequest, Sid
<1>2. CASE q.pc \in {"verified", "keyed"}
  <2>1. q \in Verified
    BY <1>2, RequestKinds
  <2>. QED  BY <1>2, <2>1 DEF Verified, Sid
<1>3. CASE q.pc = "checked"
  <2>1. q \in Checked
    BY <1>3, RequestKinds
  <2>. QED  BY <1>3, <2>1 DEF Checked, Sid
<1>4. CASE q.pc = "locked"
  <2>1. q \in Locked
    BY <1>4, RequestKinds
  <2>. QED  BY <1>4, <2>1 DEF Locked, Sid
<1>5. CASE q.pc = "inserted" /\ q \in Rotated
  BY <1>5 DEF Rotated, Sid
<1>6. CASE q.pc = "inserted" /\ q \in LoggedIn
  BY <1>6 DEF LoggedIn, Sid
<1>. QED  BY <1>1, <1>2, <1>3, <1>4, <1>5, <1>6, RequestKinds

LEMMA SessionFields ==
  ASSUME NEW x \in Session
  PROVE  /\ x # NoSession => x.cred \in Creds /\ x.login \in Sids
         /\ x = NoSession => x.cred = NoCred /\ x.login = NoSid
  BY DEF Session, NoSession

LEMMA SmallestId ==
  ASSUME NEW S \in SUBSET Nat, S # {}
  PROVE  Min(S) \in S
<1> DEFINE Less == {ss \in Nat \X Nat : ss[1] < ss[2]}
<1>1. IsWellFoundedOn(Less, Nat)
  BY NatLessThanWellFounded DEF OpToRel
<1> HIDE DEF Less
<1>2. PICK x \in S : \A y \in S : <<y, x>> \notin Less
  BY <1>1, WFMin
<1>3. ASSUME NEW y \in S
      PROVE  x =< y
  <2>1. x \in Nat /\ y \in Nat
    OBVIOUS
  <2>2. ~(y < x)
    BY <1>2, <2>1 DEF Less
  <2>. QED  BY <2>1, <2>2
<1>. QED  BY <1>3 DEF Min

-----------------------------------------------------------------------------
(* The inductive invariant.                                                *)

\* The request has the row of a session locked.
Rotating(r) == request[r].pc \in {"locked", "inserted"} /\ request[r].old # NoSid

\* The request has begun and has not given its session an id.
Pending == {r \in Requests : request[r].pc \in {"verified", "keyed", "checked", "locked"}}

\* The session a rotation has locked is live, and is what the rotation read.
LockedIsRead ==
  \A r \in Requests : Rotating(r) =>
    LET old == request[r].old IN
    /\ Live(old)
    /\ session[old].cred = request[r].cred /\ session[old].login = request[r].login

\* No session is rotated by two requests.
OneRotationEach ==
  \A r1, r2 \in Requests :
    Rotating(r1) /\ Rotating(r2) /\ request[r1].old = request[r2].old => r1 = r2

\* Nothing refers to the id of a session that is not committed.
Fresh(n, r) ==
  /\ ~Live(n) /\ n # request[r].old
  /\ \A q \in Requests \ {r} : n # request[q].old /\ n # request[q].new
  /\ \A t \in Sids : session[t].login # n

NewIsFresh == \A r \in Requests : request[r].pc = "inserted" => Fresh(request[r].new, r)

\* Every request that will need an id finds one.
RoomForAll == Cardinality(Pending) <= Cardinality(UnusedSids)

\* What a command is about.
CommandKinds ==
  \A o \in Operators : LET op == operator[o] IN op.pc # "idle" =>
    /\ op.kind = "revoke" => op.cred \in Keys /\ op.new = NoCred
    /\ op.kind = "password" => op.cred = NoCred /\ op.new \in Passwords
    /\ op.kind = "key" => op.cred = NoCred /\ op.new \in Keys
    /\ op.pc = "locked" => op.kind = "key"

\* The request is a login and holds the row of its key.
LoggingIn(r) ==
  /\ request[r].pc \in {"keyed", "inserted"} /\ request[r].old = NoSid
  /\ request[r].cred \in Keys

\* A command that has updated key rows takes this one back.
TakesBack(op, k) ==
  /\ op.pc \in {"updated", "sweeping"}
  /\ \/ op.kind = "revoke" /\ op.cred = k
     \/ op.kind = "key" /\ Owner[op.new] = Owner[k]

\* While a login holds its key, the key is active and no command takes it back.
LoginKeyActive ==
  \A r \in Requests : LoggingIn(r) =>
    /\ cred[request[r].cred] = "active"
    /\ \A o \in Operators : ~TakesBack(operator[o], request[r].cred)

\* Only the password of a user is verified without a lock.
VerifiedPassword == \A r \in Requests : request[r].pc = "verified" => request[r].cred \in Passwords

\* While reset-access-key holds the row of the user, no request has a new
\* session of that user.
NoneUnderReset ==
  \A o \in Operators, r \in Requests :
    /\ operator[o].pc # "idle" /\ operator[o].kind = "key"
    /\ request[r].pc = "inserted"
    => Owner[request[r].cred] # Owner[operator[o].new]

\* The sessions a reset visits are all the user has; those a revocation misses
\* are the product of rotations.
SweepCovers ==
  \A o \in Operators, s \in Sids :
    LET op == operator[o] IN
    op.pc = "sweeping" /\ Live(s) /\ s \notin op.targets =>
      /\ op.kind = "key" => Owner[session[s].cred] # Owner[op.new]
      /\ op.kind = "revoke" /\ session[s].cred = op.cred => session[s].login # s

SessionInv == LockedIsRead /\ OneRotationEach /\ NewIsFresh /\ RoomForAll /\ OneLivePerLogin

KeyInv ==
  /\ CommandKinds /\ VerifiedPassword /\ LoginKeyActive /\ NoneUnderReset /\ SweepCovers
  /\ KeyResetComplete /\ NoLoginOutlivesKey

AuthInv == TypeOK /\ SessionInv /\ KeyInv

-----------------------------------------------------------------------------
(* What each step of a request does to its row of the model.               *)

LEMMA IdleFits == IdleRequest \in Request /\ IdleOperator \in Operator /\ NoSession \in Session
  BY DEF Request, Operator, IdleOperator, NoCred, Session

\* One request moves, the others stay.
Moves(r, q) ==
  /\ request'[r] = q
  /\ \A p \in Requests \ {r} : request'[p] = request[p]
  /\ request' \in [Requests -> Request]

LEMMA OneMoves ==
  ASSUME TypeOK, NEW r \in Requests, NEW q \in Request, request' = [request EXCEPT ![r] = q]
  PROVE  Moves(r, q)
  BY DEF Moves, TypeOK

LEMMA RollsBack ==
  ASSUME TypeOK, NEW r \in Requests, Rollback(r)
  PROVE  Moves(r, IdleRequest)
  BY OneMoves, IdleFits DEF Rollback

LEMMA Begins ==
  ASSUME TypeOK, NEW r \in Requests, RequestBegins(r)
  PROVE  \E q \in Request :
           /\ Moves(r, q)
           /\ q.pc \in {"verified", "keyed", "checked"} /\ request[r].pc = "idle" /\ Room
           /\ q.new = NoSid
           /\ q.pc = "checked" => Live(q.old)
           /\ q.pc = "verified" => q.cred \in Passwords
           /\ q.pc = "keyed" => /\ q.cred \in Keys /\ cred[q.cred] = "active"
                                /\ ~KeyWriteLocked(q.cred)
           /\ UNCHANGED <<enabled, cred, session, operator>>
<1>1. request[r] = IdleRequest /\ request[r].pc = "idle"
  <2>1. request[r].pc = "idle" /\ request[r] \in Request
    BY DEF TypeOK, RequestBegins, VerifyPassword, LockKey, CheckUser
  <2>. QED  BY <2>1, RequestKinds
<1>2. ASSUME NEW p \in Passwords, VerifyPassword(r, p)
      PROVE  /\ request' = [request EXCEPT ![r] = [IdleRequest EXCEPT !.pc = "verified", !.cred = p]]
             /\ Room /\ UNCHANGED <<enabled, cred, session, operator>>
  BY <1>1, <1>2 DEF VerifyPassword, TypeOK
<1>3. ASSUME NEW k \in Keys, LockKey(r, k)
      PROVE  /\ request' = [request EXCEPT ![r] = [IdleRequest EXCEPT !.pc = "keyed", !.cred = k]]
             /\ Room /\ UNCHANGED <<enabled, cred, session, operator>>
             /\ cred[k] = "active" /\ ~KeyWriteLocked(k)
  BY <1>1, <1>3 DEF LockKey, TypeOK
<1>4. ASSUME NEW s \in Sids, CheckUser(r, s)
      PROVE  /\ request' = [request EXCEPT ![r] = [IdleRequest EXCEPT !.pc = "checked", !.old = s]]
             /\ Room /\ UNCHANGED <<enabled, cred, session, operator>> /\ Live(s)
  BY <1>1, <1>4 DEF CheckUser, TypeOK
<1>5. CASE \E p \in Passwords : VerifyPassword(r, p)
  <2>1. PICK p \in Passwords : VerifyPassword(r, p)
    BY <1>5
  <2> DEFINE q == [IdleRequest EXCEPT !.pc = "verified", !.cred = p]
  <2>2. q \in Request /\ q.pc = "verified" /\ q.new = NoSid /\ q.cred = p
    BY DEF Request, IdleRequest, Creds
  <2>3. Moves(r, q)
    BY <1>2, <2>1, <2>2, OneMoves
  <2> HIDE DEF q
  <2>4. Room /\ UNCHANGED <<enabled, cred, session, operator>>
    BY <1>2, <2>1
  <2>. QED  BY <1>1, <2>2, <2>3, <2>4
<1>6. CASE \E k \in Keys : LockKey(r, k)
  <2>1. PICK k \in Keys : LockKey(r, k)
    BY <1>6
  <2> DEFINE q == [IdleRequest EXCEPT !.pc = "keyed", !.cred = k]
  <2>2. q \in Request /\ q.pc = "keyed" /\ q.new = NoSid /\ q.cred = k
    BY DEF Request, IdleRequest, Creds
  <2>3. Moves(r, q)
    BY <1>3, <2>1, <2>2, OneMoves
  <2> HIDE DEF q
  <2>4. /\ Room /\ UNCHANGED <<enabled, cred, session, operator>>
        /\ cred[k] = "active" /\ ~KeyWriteLocked(k)
    BY <1>3, <2>1
  <2>. QED  BY <1>1, <2>2, <2>3, <2>4
<1>7. CASE \E s \in Sids : CheckUser(r, s)
  <2>1. PICK s \in Sids : CheckUser(r, s)
    BY <1>7
  <2> DEFINE q == [IdleRequest EXCEPT !.pc = "checked", !.old = s]
  <2>2. q \in Request /\ q.pc = "checked" /\ q.new = NoSid /\ q.old = s
    BY DEF Request, IdleRequest
  <2>3. Moves(r, q)
    BY <1>4, <2>1, <2>2, OneMoves
  <2> HIDE DEF q
  <2>4. Room /\ Live(s) /\ UNCHANGED <<enabled, cred, session, operator>>
    BY <1>4, <2>1
  <2>. QED  BY <1>1, <2>2, <2>3, <2>4
<1>. QED  BY <1>5, <1>6, <1>7 DEF RequestBegins

LEMMA Locks ==
  ASSUME TypeOK, NEW r \in Requests, LockSession(r)
  PROVE  /\ UNCHANGED <<enabled, cred, session, operator>>
         /\ \/ Moves(r, IdleRequest)
            \/ \E q \in Request :
                 /\ Moves(r, q)
                 /\ q.pc = "locked" /\ request[r].pc = "checked"
                 /\ q.old = request[r].old /\ q.new = NoSid
                 /\ Live(q.old) /\ ~SessionLocked(q.old)
                 /\ q.cred = session[q.old].cred /\ q.login = session[q.old].login
<1>1. request[r].pc = "checked" /\ request[r] \in Request
      /\ UNCHANGED <<enabled, cred, session, operator>>
  BY DEF LockSession, TypeOK
<1>2. request[r] \in Checked
  BY <1>1, RequestKinds
<1>3. CASE ~Live(request[r].old)
  BY <1>1, <1>3, RollsBack DEF LockSession
<1>4. CASE Live(request[r].old)
  <2> DEFINE s == request[r].old
             q == Inherited(request[r], s)
  <2>1. s \in Sids /\ session[s] \in Session
    BY <1>2 DEF Checked, TypeOK
  <2>2. session[s].cred \in Creds /\ session[s].login \in Sids
    BY <1>4, <2>1, SessionFields DEF Live
  <2>3. /\ q \in Locked /\ q.cred = session[s].cred /\ q.login = session[s].login
        /\ q.old = s
    BY <1>2, <2>1, <2>2 DEF Inherited, Checked, Locked
  <2>4. q \in Request /\ q.pc = "locked" /\ q.new = NoSid
    BY <2>3 DEF Request, Locked
  <2>5. Moves(r, q)
    <3>1. request' = [request EXCEPT ![r] = q]
      BY <1>4 DEF LockSession, TypeOK
    <3>. QED  BY <2>4, <3>1, OneMoves
  <2> HIDE DEF q
  <2>. QED  BY <1>1, <1>4, <2>3, <2>4, <2>5 DEF LockSession
<1>. QED  BY <1>3, <1>4

LEMMA NewId ==
  ASSUME TypeOK, RoomForAll, NEW r \in Pending
  PROVE  Min(UnusedSids) \in UnusedSids
<1>1. IsFiniteSet(Pending) /\ IsFiniteSet(UnusedSids)
  <2>1. IsFiniteSet(Sids)
    BY FS_Interval, SessionsAssumption DEF Sids
  <2>2. Pending \in SUBSET Requests /\ UnusedSids \in SUBSET Sids
    BY DEF Pending, UnusedSids
  <2>. QED  BY <2>1, <2>2, FS_Subset, RequestsAssumption
<1>2. Cardinality(Pending) \in Nat /\ Cardinality(Pending) # 0
  BY <1>1, FS_EmptySet, FS_CardinalityType
<1>3. UnusedSids # {}
  BY <1>2, FS_EmptySet DEF RoomForAll
<1>. QED  BY <1>3, SmallestId, Ids DEF UnusedSids

LEMMA Inserts ==
  ASSUME TypeOK, RoomForAll, NEW r \in Requests, InsertSession(r)
  PROVE  \E q \in Request :
           /\ Moves(r, q)
           /\ request[r].pc \in {"verified", "keyed", "locked"}
           /\ q.pc = "inserted" /\ q.new \in UnusedSids
           /\ q.old = request[r].old /\ q.cred = request[r].cred /\ q.login = request[r].login
           /\ ~UserTaken(Owner[q.cred])
           /\ UNCHANGED <<enabled, cred, session, operator>>
<1> DEFINE n == Min(UnusedSids)
           q == [request[r] EXCEPT !.pc = "inserted", !.new = n]
<1>1. request[r].pc \in {"verified", "keyed", "locked"} /\ request[r] \in Request
  BY DEF InsertSession, TypeOK
<1>2. n \in UnusedSids /\ n \in Sids
  BY <1>1, NewId DEF Pending, UnusedSids
<1>3. request' = [request EXCEPT ![r] = q]
  BY DEF InsertSession, TypeOK
<1> HIDE DEF n
<1>4. /\ q \in Request /\ q.pc = "inserted" /\ q.new = n
      /\ q.old = request[r].old /\ q.cred = request[r].cred /\ q.login = request[r].login
  <2>1. CASE request[r].pc = "locked"
    <3>1. request[r] \in Locked
      BY <1>1, <2>1, RequestKinds
    <3>. QED  BY <1>2, <3>1 DEF Locked, Request
  <2>2. CASE request[r].pc \in {"verified", "keyed"}
    <3>1. request[r] \in Verified
      BY <1>1, <2>2, RequestKinds
    <3>. QED  BY <1>2, <3>1 DEF Verified, Request
  <2>. QED  BY <1>1, <2>1, <2>2
<1>5. Moves(r, q)
  BY <1>3, <1>4, OneMoves
<1> HIDE DEF q
<1>. QED  BY <1>1, <1>2, <1>4, <1>5 DEF InsertSession

LEMMA Commits ==
  ASSUME TypeOK, NEW r \in Requests, CommitSession(r)
  PROVE  LET q == request[r] IN
         /\ q \in Request /\ q.pc = "inserted" /\ Moves(r, IdleRequest)
         /\ session' \in [Sids -> Session]
         /\ session'[q.new].cred = q.cred /\ session'[q.new] # NoSession
         /\ session'[q.new].login = IF q.old = NoSid THEN q.new ELSE q.login
         /\ q.old # NoSid /\ q.old # q.new => session'[q.old] = NoSession
         /\ \A s \in Sids \ {q.new, q.old} : session'[s] = session[s]
         /\ UNCHANGED <<enabled, cred, operator>>
<1> DEFINE q == request[r]
           login == IF q.old = NoSid THEN q.new ELSE q.login
           new == [cred |-> q.cred, login |-> login]
<1>1. q \in Request /\ q.pc = "inserted"
  BY DEF CommitSession, TypeOK
<1>2. Moves(r, IdleRequest)
  BY RollsBack DEF CommitSession
<1>3. q.new \in Sids /\ q.cred \in Creds /\ login \in Sids /\ q.old \in Sid
  BY <1>1, RequestFields
<1>4. new \in Session /\ new # NoSession /\ new.cred = q.cred /\ new.login = login
  BY <1>3, Ids DEF Session, NoSession
<1>5. session' = [s \in Sids |-> IF s = q.new THEN new
                                 ELSE IF s = q.old THEN NoSession ELSE session[s]]
  BY DEF CommitSession
<1> HIDE DEF new
<1>6. session' \in [Sids -> Session]
  BY <1>4, <1>5, IdleFits DEF TypeOK
<1>7. session'[q.new] = new /\ \A s \in Sids \ {q.new, q.old} : session'[s] = session[s]
  BY <1>3, <1>5
<1>8. q.old # NoSid /\ q.old # q.new => session'[q.old] = NoSession
  BY <1>3, <1>5 DEF Sid
<1>. QED  BY <1>1, <1>2, <1>4, <1>6, <1>7, <1>8 DEF CommitSession

-----------------------------------------------------------------------------
(* The sessions: each step keeps SessionInv.                               *)

LEMMA FiniteAll ==
  /\ IsFiniteSet(Pending) /\ IsFiniteSet(UnusedSids)
  /\ IsFiniteSet(Pending') /\ IsFiniteSet(UnusedSids')
  /\ IsFiniteSet({r \in Requests : request[r].pc # "idle"})
<1>1. IsFiniteSet(Sids)
  BY FS_Interval, SessionsAssumption DEF Sids
<1>2. /\ Pending \in SUBSET Requests /\ UnusedSids \in SUBSET Sids
      /\ Pending' \in SUBSET Requests /\ UnusedSids' \in SUBSET Sids
      /\ {r \in Requests : request[r].pc # "idle"} \in SUBSET Requests
  BY DEF Pending, UnusedSids
<1>. QED  BY <1>1, <1>2, FS_Subset, RequestsAssumption

LEMMA RoomKept ==
  ASSUME RoomForAll, Pending' \subseteq Pending, UnusedSids \subseteq UnusedSids'
  PROVE  RoomForAll'
<1>1. Cardinality(Pending') <= Cardinality(Pending)
  BY FiniteAll, FS_Subset
<1>2. Cardinality(UnusedSids) <= Cardinality(UnusedSids')
  BY FiniteAll, FS_Subset
<1>3. /\ Cardinality(Pending) \in Nat /\ Cardinality(UnusedSids) \in Nat
      /\ Cardinality(Pending') \in Nat /\ Cardinality(UnusedSids') \in Nat
  BY FiniteAll, FS_CardinalityType
<1>. QED  BY <1>1, <1>2, <1>3 DEF RoomForAll

LEMMA SessionsRollback ==
  ASSUME TypeOK, SessionInv, NEW r \in Requests, Moves(r, IdleRequest), UNCHANGED session
  PROVE  SessionInv'
<1>1. \A p \in Requests : request'[p] = request[p] \/ request'[p] = IdleRequest
  BY DEF Moves
<1>2. \A p \in Requests : request'[p].pc # "idle" => request'[p] = request[p]
  BY <1>1 DEF IdleRequest
<1>3. \A s \in Sids : Live(s)' <=> Live(s)
  BY DEF Live
<1>4. LockedIsRead' /\ OneRotationEach' /\ OneLivePerLogin'
  <2>1. \A p \in Requests : Rotating(p)' => Rotating(p) /\ request'[p] = request[p]
    BY <1>2 DEF Rotating
  <2>. QED  BY <2>1 DEF SessionInv, LockedIsRead, OneRotationEach, OneLivePerLogin, Live
<1>5. \A p \in Requests : /\ request'[p].old \in {NoSid, request[p].old}
                          /\ request'[p].new \in {NoSid, request[p].new}
  BY <1>1 DEF IdleRequest
<1>6. NewIsFresh'
  <2> SUFFICES ASSUME NEW p \in Requests, request'[p].pc = "inserted"
               PROVE  Fresh(request[p].new, p)' /\ request'[p] = request[p]
    BY DEF NewIsFresh
  <2>1. request'[p] = request[p] /\ Fresh(request[p].new, p)
    BY <1>2 DEF SessionInv, NewIsFresh
  <2>2. request[p].new # NoSid
    BY <2>1, RequestFields, Ids DEF TypeOK
  <2>. QED  BY <1>5, <2>1, <2>2 DEF Fresh, Live
<1>7. Pending' \subseteq Pending
  BY <1>2 DEF Pending
<1>8. UnusedSids \subseteq UnusedSids'
  BY <1>5, Ids DEF UnusedSids, Live
<1>. QED  BY <1>4, <1>6, <1>7, <1>8, RoomKept DEF SessionInv

LEMMA SessionsBegin ==
  ASSUME TypeOK, SessionInv, NEW r \in Requests, RequestBegins(r)
  PROVE  SessionInv'
<1>1. PICK q \in Request :
           /\ Moves(r, q)
           /\ q.pc \in {"verified", "keyed", "checked"} /\ request[r].pc = "idle" /\ Room
           /\ q.new = NoSid
           /\ q.pc = "checked" => Live(q.old)
           /\ UNCHANGED <<enabled, cred, session, operator>>
  BY Begins
<1>2. q.old = NoSid \/ (q.old \in Sids /\ Live(q.old))
  BY <1>1, RequestFields
<1>3. request[r].old = NoSid /\ request[r].new = NoSid
  BY <1>1, RequestFields DEF TypeOK
<1>4. \A p \in Requests \ {r} : request'[p] = request[p]
  BY <1>1 DEF Moves
<1>5. request'[r] = q
  BY <1>1 DEF Moves
<1>6. \A p \in Requests : Rotating(p)' => p # r /\ Rotating(p) /\ request'[p] = request[p]
  BY <1>1, <1>4, <1>5 DEF Rotating
<1>7. LockedIsRead' /\ OneRotationEach' /\ OneLivePerLogin'
  BY <1>1, <1>6 DEF SessionInv, LockedIsRead, OneRotationEach, OneLivePerLogin, Live
<1>8. NewIsFresh'
  <2> SUFFICES ASSUME NEW p \in Requests, request'[p].pc = "inserted"
               PROVE  Fresh(request[p].new, p)' /\ request'[p] = request[p]
    BY DEF NewIsFresh
  <2>1. p # r /\ request'[p] = request[p]
    BY <1>1, <1>4, <1>5
  <2>2. Fresh(request[p].new, p) /\ request[p].new \in Sids
    BY <2>1, RequestFields DEF SessionInv, NewIsFresh, TypeOK
  <2>3. request[p].new # q.old /\ request[p].new # q.new
    BY <1>1, <1>2, <2>2, Ids DEF Fresh
  <2>. QED  BY <1>1, <1>4, <1>5, <2>1, <2>2, <2>3 DEF Fresh, Live
<1>9. RoomForAll'
  <2> DEFINE Busy == {p \in Requests : request[p].pc # "idle"}
  <2>1. UnusedSids' = UnusedSids
    <3>1. \A s \in Sids : ~Live(s) => s # q.old /\ s # q.new
      BY <1>1, <1>2, Ids
    <3>2. \A s \in Sids : ~Live(s) =>
            ((\A p \in Requests : s \notin {request'[p].old, request'[p].new})
              <=> (\A p \in Requests : s \notin {request[p].old, request[p].new}))
      BY <1>3, <1>4, <1>5, <3>1, Ids
    <3>. QED  BY <1>1, <3>2 DEF UnusedSids, Live
  <2>2. Pending' \subseteq Busy \cup {r}
    BY <1>4 DEF Pending
  <2>3. r \notin Busy /\ IsFiniteSet(Busy)
    BY <1>1, FiniteAll
  <2>4. IsFiniteSet(Busy \cup {r}) /\ Cardinality(Busy \cup {r}) = Cardinality(Busy) + 1
    BY <2>3, FS_AddElement
  <2>5. Cardinality(Pending') <= Cardinality(Busy \cup {r})
    BY <2>2, <2>4, FS_Subset
  <2>6. Cardinality(Busy) < Cardinality(UnusedSids)
    BY <1>1 DEF Room
  <2>7. /\ Cardinality(Busy) \in Nat /\ Cardinality(UnusedSids) \in Nat
        /\ Cardinality(Pending') \in Nat
    BY FiniteAll, FS_CardinalityType
  <2>. QED  BY <2>1, <2>4, <2>5, <2>6, <2>7 DEF RoomForAll
<1>. QED  BY <1>7, <1>8, <1>9 DEF SessionInv

LEMMA SessionsLock ==
  ASSUME TypeOK, SessionInv, NEW r \in Requests, LockSession(r)
  PROVE  SessionInv'
<1>1. UNCHANGED session
  BY Locks
<1>2. CASE Moves(r, IdleRequest)
  BY <1>1, <1>2, SessionsRollback
<1>3. CASE \E q \in Request :
             /\ Moves(r, q)
             /\ q.pc = "locked" /\ request[r].pc = "checked"
             /\ q.old = request[r].old /\ q.new = NoSid
             /\ Live(q.old) /\ ~SessionLocked(q.old)
             /\ q.cred = session[q.old].cred /\ q.login = session[q.old].login
  <2>1. PICK q \in Request :
             /\ Moves(r, q)
             /\ q.pc = "locked" /\ request[r].pc = "checked"
             /\ q.old = request[r].old /\ q.new = NoSid
             /\ Live(q.old) /\ ~SessionLocked(q.old)
             /\ q.cred = session[q.old].cred /\ q.login = session[q.old].login
    BY <1>3
  <2>2. request'[r] = q /\ \A p \in Requests \ {r} : request'[p] = request[p]
    BY <2>1 DEF Moves
  <2>3. request[r].new = NoSid
    BY <2>1, RequestFields DEF TypeOK
  <2>4. \A p \in Requests : /\ request'[p].old = request[p].old
                            /\ request'[p].new = request[p].new
    BY <2>1, <2>2, <2>3
  <2>5. \A p \in Requests \ {r} : Rotating(p)' <=> Rotating(p)
    BY <2>2 DEF Rotating
  <2>6. \A p \in Requests \ {r} : Rotating(p) => request[p].old # q.old
    BY <2>1 DEF Rotating, SessionLocked
  <2>7. LockedIsRead'
    BY <1>1, <2>1, <2>2, <2>5 DEF SessionInv, LockedIsRead, Live
  <2>8. OneRotationEach'
    BY <2>2, <2>4, <2>5, <2>6 DEF SessionInv, OneRotationEach
  <2>9. NewIsFresh'
    <3> SUFFICES ASSUME NEW p \in Requests, request'[p].pc = "inserted"
                 PROVE  Fresh(request[p].new, p)'
      BY DEF NewIsFresh
    <3>1. p # r /\ request'[p] = request[p]
      BY <2>1, <2>2
    <3>2. Fresh(request[p].new, p)
      BY <3>1 DEF SessionInv, NewIsFresh
    <3>. QED  BY <1>1, <2>4, <3>2 DEF Fresh, Live
  <2>10. Pending' \subseteq Pending
    BY <2>1, <2>2 DEF Pending
  <2>11. UnusedSids' = UnusedSids
    BY <1>1, <2>4 DEF UnusedSids, Live
  <2>12. OneLivePerLogin'
    BY <1>1 DEF SessionInv, OneLivePerLogin, Live
  <2>. QED  BY <2>7, <2>8, <2>9, <2>10, <2>11, <2>12, RoomKept DEF SessionInv
<1>. QED  BY <1>2, <1>3, Locks

LEMMA SessionsInsert ==
  ASSUME TypeOK, SessionInv, NEW r \in Requests, InsertSession(r)
  PROVE  SessionInv'
<1>0. RoomForAll
  BY DEF SessionInv
<1>1. PICK q \in Request :
           /\ Moves(r, q)
           /\ request[r].pc \in {"verified", "keyed", "locked"}
           /\ q.pc = "inserted" /\ q.new \in UnusedSids
           /\ q.old = request[r].old /\ q.cred = request[r].cred /\ q.login = request[r].login
           /\ UNCHANGED <<enabled, cred, session, operator>>
  BY <1>0, Inserts
<1>2. request'[r] = q /\ \A p \in Requests \ {r} : request'[p] = request[p]
  BY <1>1 DEF Moves
<1>3. request[r].new = NoSid /\ (request[r].pc # "locked" => request[r].old = NoSid)
  BY <1>1, RequestFields DEF TypeOK
<1>4. \A p \in Requests : Rotating(p)' <=> Rotating(p)
  BY <1>1, <1>2, <1>3 DEF Rotating
<1>5. \A p \in Requests : /\ request'[p].old = request[p].old
                          /\ request'[p].cred = request[p].cred
                          /\ request'[p].login = request[p].login
  BY <1>1, <1>2
<1>6. LockedIsRead' /\ OneRotationEach' /\ OneLivePerLogin'
  BY <1>1, <1>4, <1>5 DEF SessionInv, LockedIsRead, OneRotationEach, OneLivePerLogin, Live
<1>7. /\ q.new \in Sids /\ ~Live(q.new)
      /\ \A p \in Requests : q.new # request[p].old /\ q.new # request[p].new
      /\ \A t \in Sids : session[t].login # q.new
  BY <1>1 DEF UnusedSids
<1>8. NewIsFresh'
  <2> SUFFICES ASSUME NEW p \in Requests, request'[p].pc = "inserted"
               PROVE  Fresh(request[p].new, p)'
    BY DEF NewIsFresh
  <2>1. CASE p = r
    BY <1>1, <1>2, <1>7, <2>1 DEF Fresh, Live
  <2>2. CASE p # r
    <3>1. request'[p] = request[p] /\ Fresh(request[p].new, p)
      BY <1>2, <2>2 DEF SessionInv, NewIsFresh
    <3>2. request[p].new # q.new
      BY <1>7
    <3>. QED  BY <1>1, <1>2, <1>5, <3>1, <3>2 DEF Fresh, Live
  <2>. QED  BY <2>1, <2>2
<1>9. RoomForAll'
  <2>1. Pending' = Pending \ {r} /\ r \in Pending
    BY <1>1, <1>2 DEF Pending
  <2>2. UnusedSids' = UnusedSids \ {q.new}
    <3>1. \A s \in Sids : s \in UnusedSids' <=> s \in UnusedSids /\ s # q.new
      BY <1>1, <1>2, <1>3, <1>5, Ids DEF UnusedSids, Live
    <3>2. UnusedSids \subseteq Sids /\ UnusedSids' \subseteq Sids
      BY DEF UnusedSids
    <3>. QED  BY <3>1, <3>2
  <2>3. Cardinality(Pending') = Cardinality(Pending) - 1
    BY <2>1, FiniteAll, FS_RemoveElement
  <2>4. Cardinality(UnusedSids') = Cardinality(UnusedSids) - 1
    BY <1>1, <2>2, FiniteAll, FS_RemoveElement
  <2>5. Cardinality(Pending) \in Nat /\ Cardinality(UnusedSids) \in Nat
    BY FiniteAll, FS_CardinalityType
  <2>. QED  BY <1>0, <2>3, <2>4, <2>5 DEF RoomForAll
<1>. QED  BY <1>6, <1>8, <1>9 DEF SessionInv

LEMMA SessionsCommit ==
  ASSUME TypeOK, SessionInv, NEW r \in Requests, CommitSession(r)
  PROVE  SessionInv'
<1> DEFINE q == request[r]
<1>1. /\ q \in Request /\ q.pc = "inserted" /\ Moves(r, IdleRequest)
      /\ session'[q.new].cred = q.cred /\ session'[q.new] # NoSession
      /\ session'[q.new].login = IF q.old = NoSid THEN q.new ELSE q.login
      /\ q.old # NoSid /\ q.old # q.new => session'[q.old] = NoSession
      /\ \A s \in Sids \ {q.new, q.old} : session'[s] = session[s]
  BY Commits
<1>2. q.new \in Sids /\ q.old \in Sid /\ (q.old # NoSid => q.old \in Sids)
  BY <1>1, RequestFields DEF Sid
<1>3. Fresh(q.new, r)
  BY <1>1 DEF SessionInv, NewIsFresh
<1>4. request'[r] = IdleRequest /\ \A p \in Requests \ {r} : request'[p] = request[p]
  BY <1>1 DEF Moves
<1>5. q.old # NoSid => Live(q.old) /\ session[q.old].login = q.login
  BY <1>1 DEF SessionInv, LockedIsRead, Rotating
<1>6. \A p \in Requests : Rotating(p)' =>
        /\ p # r /\ Rotating(p) /\ request'[p] = request[p]
        /\ request[p].old # q.new /\ request[p].old # q.old
  <2> SUFFICES ASSUME NEW p \in Requests, Rotating(p)'
               PROVE  /\ p # r /\ Rotating(p) /\ request'[p] = request[p]
                      /\ request[p].old # q.new /\ request[p].old # q.old
    OBVIOUS
  <2>1. p # r /\ Rotating(p) /\ request'[p] = request[p]
    BY <1>4 DEF Rotating, IdleRequest
  <2>2. request[p].old # q.new
    BY <1>3, <2>1 DEF Fresh
  <2>3. request[p].old # q.old
    BY <1>1, <2>1 DEF SessionInv, OneRotationEach, Rotating
  <2>. QED  BY <2>1, <2>2, <2>3
<1>7. LockedIsRead'
  <2> SUFFICES ASSUME NEW p \in Requests, Rotating(p)'
               PROVE  /\ Live(request[p].old)'
                      /\ session'[request'[p].old].cred = request'[p].cred
                      /\ session'[request'[p].old].login = request'[p].login
    BY DEF LockedIsRead
  <2>1. request'[p] = request[p] /\ session'[request[p].old] = session[request[p].old]
    <3>1. request[p].old \in Sids \ {q.new, q.old}
      BY <1>6, RequestFields DEF Rotating, TypeOK, Sid
    <3>. QED  BY <1>1, <1>6, <3>1
  <2>. QED  BY <1>6, <2>1 DEF SessionInv, LockedIsRead, Live
<1>8. OneRotationEach'
  BY <1>6 DEF SessionInv, OneRotationEach
<1>9. \A s \in Sids : Live(s)' /\ s # q.new => Live(s) /\ s # q.old /\ session'[s] = session[s]
  BY <1>1, <1>2, Ids DEF Live
<1>10. OneLivePerLogin'
  <2> SUFFICES ASSUME NEW s1 \in Sids, NEW s2 \in Sids, Live(s1)', Live(s2)',
                      session'[s1].login = session'[s2].login, s1 # s2
               PROVE  FALSE
    BY DEF OneLivePerLogin
  <2>1. ASSUME NEW s \in Sids, Live(s)', s # q.new
        PROVE  session'[s].login # session'[q.new].login
    <3>1. Live(s) /\ s # q.old /\ session'[s] = session[s]
      BY <1>9, <2>1
    <3>2. CASE q.old = NoSid
      BY <1>1, <1>3, <3>1, <3>2 DEF Fresh
    <3>3. CASE q.old # NoSid
      <4>1. session[s].login # session[q.old].login
        BY <1>2, <1>5, <3>1, <3>3 DEF SessionInv, OneLivePerLogin
      <4>. QED  BY <1>1, <1>5, <3>1, <3>3, <4>1
    <3>. QED  BY <3>2, <3>3
  <2>2. s1 # q.new /\ s2 # q.new
    BY <2>1
  <2>. QED  BY <1>9, <2>2 DEF SessionInv, OneLivePerLogin
<1>11. \A t \in Sids : \/ session'[t] = session[t] \/ session'[t] = NoSession
                       \/ t = q.new
  BY <1>1, <1>2, Ids
<1>12. \A t \in Sids : \A s \in Sids :
         s # q.new /\ (\A u \in Sids : session[u].login # s) => session'[t].login # s
  <2>1. NoSession.login \notin Sids
    BY Ids DEF NoSession
  <2>. QED  BY <1>1, <1>2, <1>5, <1>11, <2>1
<1>13. NewIsFresh'
  <2> SUFFICES ASSUME NEW p \in Requests, request'[p].pc = "inserted"
               PROVE  Fresh(request[p].new, p)'
    BY DEF NewIsFresh
  <2> DEFINE n == request[p].new
  <2>1. p # r /\ request'[p] = request[p]
    BY <1>4 DEF IdleRequest
  <2>2. Fresh(n, p) /\ n \in Sids
    BY <2>1, RequestFields DEF SessionInv, NewIsFresh, TypeOK
  <2>3. n # q.new /\ n # q.old
    BY <2>1, <2>2 DEF Fresh
  <2>4. session'[n] = session[n]
    BY <1>1, <2>2, <2>3
  <2>5. \A t \in Sids : session'[t].login # n
    BY <1>12, <2>2, <2>3 DEF Fresh
  <2>6. \A u \in Requests \ {p} : n # request'[u].old /\ n # request'[u].new
    BY <1>4, <2>2, Ids DEF Fresh, IdleRequest
  <2>. QED  BY <2>1, <2>2, <2>4, <2>5, <2>6 DEF Fresh, Live
<1>14. UnusedSids \subseteq UnusedSids'
  <2> SUFFICES ASSUME NEW s \in UnusedSids
               PROVE  s \in UnusedSids'
    OBVIOUS
  <2>1. /\ s \in Sids /\ ~Live(s) /\ s # q.new /\ s # q.old
        /\ \A u \in Sids : session[u].login # s
        /\ \A p \in Requests : s # request[p].old /\ s # request[p].new
    BY DEF UnusedSids
  <2>2. session'[s] = session[s]
    BY <1>1, <2>1
  <2>3. \A t \in Sids : session'[t].login # s
    BY <1>12, <2>1
  <2>4. \A p \in Requests : s # request'[p].old /\ s # request'[p].new
    BY <1>4, <2>1, Ids DEF IdleRequest
  <2>. QED  BY <2>1, <2>2, <2>3, <2>4 DEF UnusedSids, Live
<1>15. Pending' \subseteq Pending
  BY <1>4 DEF Pending, IdleRequest
<1>. QED  BY <1>7, <1>8, <1>10, <1>13, <1>14, <1>15, RoomKept DEF SessionInv

\* Sessions end that no rotation has locked.
SomeEnd ==
  /\ \A s \in Sids : session'[s] \in {session[s], NoSession}
  /\ \A s \in Sids : SessionLocked(s) => session'[s] = session[s]
  /\ session' \in [Sids -> Session]

LEMMA SessionsEnd ==
  ASSUME TypeOK, SessionInv, SomeEnd, UNCHANGED request
  PROVE  SessionInv'
<1>1. \A s \in Sids : Live(s)' => Live(s) /\ session'[s] = session[s]
  BY DEF SomeEnd, Live
<1>2. \A p \in Requests : Rotating(p)' <=> Rotating(p)
  BY DEF Rotating
<1>3. \A p \in Requests : Rotating(p) => session'[request[p].old] = session[request[p].old]
  <2> SUFFICES ASSUME NEW p \in Requests, Rotating(p)
               PROVE  session'[request[p].old] = session[request[p].old]
    OBVIOUS
  <2>1. request[p].old \in Sids /\ SessionLocked(request[p].old)
    BY RequestFields DEF Rotating, SessionLocked, TypeOK, Sid
  <2>. QED  BY <2>1 DEF SomeEnd
<1>4. LockedIsRead' /\ OneRotationEach'
  BY <1>2, <1>3 DEF SessionInv, LockedIsRead, OneRotationEach, Live
<1>5. OneLivePerLogin'
  BY <1>1 DEF SessionInv, OneLivePerLogin
<1>6. \A t \in Sids : \A s \in Sids : session[t].login # s => session'[t].login # s
  BY Ids DEF SomeEnd, NoSession
<1>7. NewIsFresh'
  <2> SUFFICES ASSUME NEW p \in Requests, request[p].pc = "inserted"
               PROVE  Fresh(request[p].new, p)'
    BY DEF NewIsFresh
  <2>1. Fresh(request[p].new, p) /\ request[p].new \in Sids
    BY RequestFields DEF SessionInv, NewIsFresh, TypeOK
  <2>. QED  BY <1>1, <1>6, <2>1 DEF Fresh
<1>8. UnusedSids \subseteq UnusedSids'
  BY <1>1, <1>6 DEF UnusedSids
<1>9. Pending' = Pending
  BY DEF Pending
<1>. QED  BY <1>4, <1>5, <1>7, <1>8, <1>9, RoomKept DEF SessionInv

-----------------------------------------------------------------------------
(* The keys: each step of a request keeps KeyInv.                          *)

LEMMA KeysRollback ==
  ASSUME TypeOK, KeyInv, NEW r \in Requests, Moves(r, IdleRequest),
         UNCHANGED <<cred, session, operator>>
  PROVE  KeyInv'
<1>1. \A p \in Requests : request'[p].pc # "idle" => request'[p] = request[p]
  BY DEF Moves, IdleRequest
<1>2. CommandKinds' /\ SweepCovers' /\ KeyResetComplete' /\ NoLoginOutlivesKey'
  BY DEF KeyInv, CommandKinds, SweepCovers, KeyResetComplete, NoLoginOutlivesKey, Live
<1>3. VerifiedPassword' /\ NoneUnderReset'
  BY <1>1 DEF KeyInv, VerifiedPassword, NoneUnderReset
<1>4. LoginKeyActive'
  <2>1. \A p \in Requests : LoggingIn(p)' => LoggingIn(p) /\ request'[p] = request[p]
    BY <1>1 DEF LoggingIn
  <2>. QED  BY <2>1 DEF KeyInv, LoginKeyActive, TakesBack
<1>. QED  BY <1>2, <1>3, <1>4 DEF KeyInv

LEMMA KeysBegin ==
  ASSUME TypeOK, KeyInv, NEW r \in Requests, RequestBegins(r)
  PROVE  KeyInv'
<1>1. PICK q \in Request :
           /\ Moves(r, q)
           /\ q.pc \in {"verified", "keyed", "checked"}
           /\ q.pc = "verified" => q.cred \in Passwords
           /\ q.pc = "keyed" => /\ q.cred \in Keys /\ cred[q.cred] = "active"
                                /\ ~KeyWriteLocked(q.cred)
           /\ UNCHANGED <<enabled, cred, session, operator>>
  BY Begins
<1>2. request'[r] = q /\ \A p \in Requests \ {r} : request'[p] = request[p]
  BY <1>1 DEF Moves
<1>3. CommandKinds' /\ SweepCovers' /\ KeyResetComplete' /\ NoLoginOutlivesKey'
  BY <1>1 DEF KeyInv, CommandKinds, SweepCovers, KeyResetComplete, NoLoginOutlivesKey, Live
<1>4. VerifiedPassword' /\ NoneUnderReset'
  BY <1>1, <1>2 DEF KeyInv, VerifiedPassword, NoneUnderReset
<1>5. LoginKeyActive'
  <2> SUFFICES ASSUME NEW p \in Requests, LoggingIn(p)'
               PROVE  /\ cred[request'[p].cred] = "active"
                      /\ \A o \in Operators : ~TakesBack(operator[o], request'[p].cred)
    BY <1>1 DEF LoginKeyActive, TakesBack
  <2>1. CASE p # r
    BY <1>2, <2>1 DEF KeyInv, LoginKeyActive, LoggingIn
  <2>2. CASE p = r
    <3>1. q.pc = "keyed"
      BY <1>1, <1>2, <2>2 DEF LoggingIn
    <3>2. ASSUME NEW o \in Operators, TakesBack(operator[o], q.cred)
          PROVE  FALSE
      BY <1>1, <3>1, <3>2 DEF TakesBack, KeyWriteLocked
    <3>. QED  BY <1>1, <1>2, <2>2, <3>1, <3>2
  <2>. QED  BY <2>1, <2>2
<1>. QED  BY <1>3, <1>4, <1>5 DEF KeyInv

LEMMA KeysLock ==
  ASSUME TypeOK, KeyInv, NEW r \in Requests, LockSession(r)
  PROVE  KeyInv'
<1>1. UNCHANGED <<cred, session, operator>>
  BY Locks
<1>2. CASE Moves(r, IdleRequest)
  BY <1>1, <1>2, KeysRollback
<1>3. CASE \E q \in Request : Moves(r, q) /\ q.pc = "locked"
  <2>1. PICK q \in Request : Moves(r, q) /\ q.pc = "locked"
    BY <1>3
  <2>2. request'[r] = q /\ \A p \in Requests \ {r} : request'[p] = request[p]
    BY <2>1 DEF Moves
  <2>3. CommandKinds' /\ SweepCovers' /\ KeyResetComplete' /\ NoLoginOutlivesKey'
    BY <1>1 DEF KeyInv, CommandKinds, SweepCovers, KeyResetComplete, NoLoginOutlivesKey, Live
  <2>4. VerifiedPassword' /\ NoneUnderReset'
    BY <1>1, <2>1, <2>2 DEF KeyInv, VerifiedPassword, NoneUnderReset
  <2>5. LoginKeyActive'
    <3>1. \A p \in Requests : LoggingIn(p)' => LoggingIn(p) /\ request'[p] = request[p]
      BY <2>1, <2>2 DEF LoggingIn
    <3>. QED  BY <1>1, <3>1 DEF KeyInv, LoginKeyActive, TakesBack
  <2>. QED  BY <2>3, <2>4, <2>5 DEF KeyInv
<1>. QED  BY <1>2, <1>3, Locks

LEMMA KeysInsert ==
  ASSUME TypeOK, RoomForAll, KeyInv, NEW r \in Requests, InsertSession(r)
  PROVE  KeyInv'
<1>1. PICK q \in Request :
           /\ Moves(r, q)
           /\ request[r].pc \in {"verified", "keyed", "locked"}
           /\ q.pc = "inserted"
           /\ q.old = request[r].old /\ q.cred = request[r].cred
           /\ ~UserTaken(Owner[q.cred])
           /\ UNCHANGED <<enabled, cred, session, operator>>
  BY Inserts
<1>2. request'[r] = q /\ \A p \in Requests \ {r} : request'[p] = request[p]
  BY <1>1 DEF Moves
<1>3. CommandKinds' /\ SweepCovers' /\ KeyResetComplete' /\ NoLoginOutlivesKey'
  BY <1>1 DEF KeyInv, CommandKinds, SweepCovers, KeyResetComplete, NoLoginOutlivesKey, Live
<1>4. VerifiedPassword'
  BY <1>1, <1>2 DEF KeyInv, VerifiedPassword
<1>5. NoneUnderReset'
  BY <1>1, <1>2 DEF KeyInv, NoneUnderReset, UserTaken
<1>6. LoginKeyActive'
  <2>1. \A p \in Requests : LoggingIn(p)' => LoggingIn(p) /\ request'[p].cred = request[p].cred
    <3> SUFFICES ASSUME NEW p \in Requests, LoggingIn(p)'
                 PROVE  LoggingIn(p) /\ request'[p].cred = request[p].cred
      OBVIOUS
    <3>1. CASE p # r
      BY <1>2, <3>1 DEF LoggingIn
    <3>2. CASE p = r
      <4>1. request[r].old = NoSid /\ request[r].cred \in Keys
        BY <1>1, <1>2, <3>2 DEF LoggingIn
      <4>2. request[r].pc # "verified"
        BY <4>1, CredsAssumption DEF KeyInv, VerifiedPassword
      <4>3. request[r].pc # "locked"
        BY <4>1, RequestFields, Ids DEF TypeOK
      <4>. QED  BY <1>1, <1>2, <3>2, <4>1, <4>2, <4>3 DEF LoggingIn
    <3>. QED  BY <3>1, <3>2
  <2>. QED  BY <1>1, <2>1 DEF KeyInv, LoginKeyActive, TakesBack
<1>. QED  BY <1>3, <1>4, <1>5, <1>6 DEF KeyInv

\* Some sessions end: nothing about keys is disturbed.
LEMMA KeysEnd ==
  ASSUME TypeOK, KeyInv, SomeEnd, UNCHANGED <<cred, request, operator>>
  PROVE  KeyInv'
<1>1. \A s \in Sids : Live(s)' => Live(s) /\ session'[s] = session[s]
  BY DEF SomeEnd, Live
<1>2. CommandKinds' /\ VerifiedPassword' /\ NoneUnderReset'
  BY DEF KeyInv, CommandKinds, VerifiedPassword, NoneUnderReset
<1>3. SweepCovers' /\ KeyResetComplete' /\ NoLoginOutlivesKey'
  BY <1>1 DEF KeyInv, SweepCovers, KeyResetComplete, NoLoginOutlivesKey
<1>4. LoginKeyActive'
  BY DEF KeyInv, LoginKeyActive, LoggingIn, TakesBack
<1>. QED  BY <1>2, <1>3, <1>4 DEF KeyInv

LEMMA KeysCommit ==
  ASSUME TypeOK, SessionInv, KeyInv, NEW r \in Requests, CommitSession(r)
  PROVE  KeyInv'
<1> DEFINE q == request[r]
<1>1. /\ q \in Request /\ q.pc = "inserted" /\ Moves(r, IdleRequest)
      /\ session'[q.new].cred = q.cred /\ session'[q.new] # NoSession
      /\ session'[q.new].login = IF q.old = NoSid THEN q.new ELSE q.login
      /\ q.old # NoSid /\ q.old # q.new => session'[q.old] = NoSession
      /\ \A s \in Sids \ {q.new, q.old} : session'[s] = session[s]
      /\ UNCHANGED <<enabled, cred, operator>>
  BY Commits
<1>2. q.new \in Sids /\ q.old \in Sid /\ (q.old # NoSid => q.old \in Sids) /\ q.cred \in Creds
  BY <1>1, RequestFields DEF Sid
<1>3. Fresh(q.new, r)
  BY <1>1 DEF SessionInv, NewIsFresh
<1>4. q.old # NoSid => Live(q.old) /\ session[q.old].cred = q.cred /\ session[q.old].login = q.login
  BY <1>1 DEF SessionInv, LockedIsRead, Rotating
<1>5. \A s \in Sids : Live(s)' /\ s # q.new => Live(s) /\ session'[s] = session[s]
  BY <1>1, <1>2, Ids DEF Live
<1>6. q.old # NoSid => session'[q.new].login # q.new
  BY <1>1, <1>2, <1>3, <1>4 DEF Fresh
<1>7. q.old = NoSid /\ q.cred \in Keys =>
        /\ cred[q.cred] = "active"
        /\ \A o \in Operators : ~TakesBack(operator[o], q.cred)
  BY <1>1 DEF KeyInv, LoginKeyActive, LoggingIn
<1>8. \A p \in Requests : request'[p].pc # "idle" => request'[p] = request[p]
  BY <1>1 DEF Moves, IdleRequest
<1>9. CommandKinds' /\ VerifiedPassword' /\ NoneUnderReset'
  BY <1>1, <1>8 DEF KeyInv, CommandKinds, VerifiedPassword, NoneUnderReset
<1>10. LoginKeyActive'
  <2>1. \A p \in Requests : LoggingIn(p)' => LoggingIn(p) /\ request'[p] = request[p]
    BY <1>8 DEF LoggingIn
  <2>. QED  BY <1>1, <2>1 DEF KeyInv, LoginKeyActive, TakesBack
<1>11. SweepCovers'
  <2> SUFFICES ASSUME NEW o \in Operators, NEW s \in Sids, operator[o].pc = "sweeping",
                      Live(s)', s \notin operator[o].targets
               PROVE  /\ operator[o].kind = "key" =>
                           Owner[session'[s].cred] # Owner[operator[o].new]
                      /\ operator[o].kind = "revoke" /\ session'[s].cred = operator[o].cred
                           => session'[s].login # s
    BY <1>1 DEF SweepCovers
  <2>1. CASE s # q.new
    BY <1>5, <2>1 DEF KeyInv, SweepCovers
  <2>2. CASE s = q.new
    <3>1. operator[o].kind = "key" => Owner[q.cred] # Owner[operator[o].new]
      BY <1>1 DEF KeyInv, NoneUnderReset
    <3>2. operator[o].kind = "revoke" /\ q.cred = operator[o].cred => q.old # NoSid
      BY <1>7 DEF TakesBack, KeyInv, CommandKinds
    <3>. QED  BY <1>1, <1>6, <2>2, <3>1, <3>2
  <2>. QED  BY <2>1, <2>2
<1>12. KeyResetComplete'
  <2> SUFFICES ASSUME NEW s \in Sids, Live(s)', session'[s].cred \in Keys
               PROVE  cred[session'[s].cred] # "reset"
    BY <1>1 DEF KeyResetComplete
  <2>1. CASE s # q.new
    BY <1>5, <2>1 DEF KeyInv, KeyResetComplete
  <2>2. CASE s = q.new /\ q.old = NoSid
    BY <1>1, <1>7, <2>2
  <2>3. CASE s = q.new /\ q.old # NoSid
    BY <1>1, <1>2, <1>4, <2>3 DEF KeyInv, KeyResetComplete
  <2>. QED  BY <2>1, <2>2, <2>3
<1>13. NoLoginOutlivesKey'
  <2> SUFFICES ASSUME NEW s \in Sids, Live(s)', session'[s].cred \in Keys,
                      cred[session'[s].cred] = "revoked"
               PROVE  session'[s].login # s
    BY <1>1 DEF NoLoginOutlivesKey
  <2>1. CASE s # q.new
    BY <1>5, <2>1 DEF KeyInv, NoLoginOutlivesKey
  <2>2. CASE s = q.new /\ q.old = NoSid
    BY <1>1, <1>7, <2>2
  <2>3. CASE s = q.new /\ q.old # NoSid
    BY <1>6, <2>3
  <2>. QED  BY <2>1, <2>2, <2>3
<1>. QED  BY <1>9, <1>10, <1>11, <1>12, <1>13 DEF KeyInv

-----------------------------------------------------------------------------
(* The keys: each step of a command keeps KeyInv.                          *)

\* One command moves, and nothing else.
Turns(o, x) ==
  /\ operator'[o] = x
  /\ \A c \in Operators \ {o} : operator'[c] = operator[c]
  /\ operator' \in [Operators -> Operator]
  /\ UNCHANGED <<enabled, cred, session, request>>

LEMMA OneTurns ==
  ASSUME TypeOK, NEW o \in Operators, NEW x \in Operator,
         operator' = [operator EXCEPT ![o] = x], UNCHANGED <<enabled, cred, session, request>>
  PROVE  Turns(o, x)
  BY DEF Turns, TypeOK

\* What a command's new row of the model has to satisfy.
LEMMA TurnKeepsKeys ==
  ASSUME TypeOK, KeyInv, NEW o \in Operators, NEW x, Turns(o, x),
         x.pc # "idle" =>
           /\ x.kind = "revoke" => x.cred \in Keys /\ x.new = NoCred
           /\ x.kind = "password" => x.cred = NoCred /\ x.new \in Passwords
           /\ x.kind = "key" => x.cred = NoCred /\ x.new \in Keys
           /\ x.pc = "locked" => x.kind = "key",
         \A r \in Requests : LoggingIn(r) => ~TakesBack(x, request[r].cred),
         \A r \in Requests : x.pc # "idle" /\ x.kind = "key" /\ request[r].pc = "inserted"
                               => Owner[request[r].cred] # Owner[x.new],
         \A s \in Sids : x.pc = "sweeping" /\ Live(s) /\ s \notin x.targets =>
           /\ x.kind = "key" => Owner[session[s].cred] # Owner[x.new]
           /\ x.kind = "revoke" /\ session[s].cred = x.cred => session[s].login # s
  PROVE  KeyInv'
<1>1. operator'[o] = x /\ \A c \in Operators \ {o} : operator'[c] = operator[c]
  BY DEF Turns
<1>2. UNCHANGED <<cred, session, request>>
  BY DEF Turns
<1>3. VerifiedPassword' /\ KeyResetComplete' /\ NoLoginOutlivesKey'
  BY <1>2 DEF KeyInv, VerifiedPassword, KeyResetComplete, NoLoginOutlivesKey, Live
<1>4. CommandKinds'
  BY <1>1 DEF KeyInv, CommandKinds
<1>5. LoginKeyActive'
  BY <1>1, <1>2 DEF KeyInv, LoginKeyActive, LoggingIn
<1>6. NoneUnderReset'
  BY <1>1, <1>2 DEF KeyInv, NoneUnderReset
<1>7. SweepCovers'
  <2> SUFFICES ASSUME NEW c \in Operators, NEW s \in Sids, operator'[c].pc = "sweeping",
                      Live(s), s \notin operator'[c].targets
               PROVE  /\ operator'[c].kind = "key" =>
                           Owner[session[s].cred] # Owner[operator'[c].new]
                      /\ operator'[c].kind = "revoke" /\ session[s].cred = operator'[c].cred
                           => session[s].login # s
    BY <1>2 DEF SweepCovers, Live
  <2>. QED  BY <1>1 DEF KeyInv, SweepCovers
<1>. QED  BY <1>3, <1>4, <1>5, <1>6, <1>7 DEF KeyInv

LEMMA KeysCommandEnds ==
  ASSUME TypeOK, KeyInv, NEW o \in Operators, operator' = [operator EXCEPT ![o] = IdleOperator],
         UNCHANGED <<enabled, cred, session, request>>
  PROVE  KeyInv' /\ operator' \in [Operators -> Operator]
<1>1. Turns(o, IdleOperator)
  BY IdleFits, OneTurns
<1>2. IdleOperator.pc = "idle"
  BY DEF IdleOperator
<1>. QED  BY <1>1, <1>2, TurnKeepsKeys DEF TakesBack, Turns

LEMMA KeysRevoke ==
  ASSUME TypeOK, KeyInv, NEW o \in Operators, NEW k \in Keys, RevokeKey(o, k)
  PROVE  KeyInv' /\ operator' \in [Operators -> Operator]
<1> DEFINE x == [pc |-> "updated", kind |-> "revoke", cred |-> k, new |-> NoCred, targets |-> {}]
<1>1. x \in Operator /\ x.pc = "updated" /\ x.kind = "revoke" /\ x.cred = k /\ x.new = NoCred
  BY DEF Operator, Creds
<1>2. operator' = [operator EXCEPT ![o] = x] /\ UNCHANGED <<enabled, cred, session, request>>
  BY DEF RevokeKey, Begin
<1> HIDE DEF x
<1>3. Turns(o, x)
  BY <1>1, <1>2, OneTurns
<1>4. ASSUME NEW r \in Requests, LoggingIn(r)
      PROVE  ~TakesBack(x, request[r].cred)
  BY <1>1, <1>4 DEF RevokeKey, KeyWriteLocked, LoggingIn, TakesBack
<1>. QED  BY <1>1, <1>3, <1>4, TurnKeepsKeys DEF Turns

LEMMA KeysResetPassword ==
  ASSUME TypeOK, KeyInv, NEW o \in Operators, NEW p \in Passwords, ResetPassword(o, p)
  PROVE  KeyInv' /\ operator' \in [Operators -> Operator]
<1> DEFINE x == [pc |-> "updated", kind |-> "password", cred |-> NoCred, new |-> p, targets |-> {}]
<1>1. x \in Operator /\ x.pc = "updated" /\ x.kind = "password" /\ x.cred = NoCred /\ x.new = p
  BY DEF Operator, Creds
<1>2. operator' = [operator EXCEPT ![o] = x] /\ UNCHANGED <<enabled, cred, session, request>>
  BY DEF ResetPassword, Begin
<1> HIDE DEF x
<1>3. Turns(o, x)
  BY <1>1, <1>2, OneTurns
<1>. QED  BY <1>1, <1>3, TurnKeepsKeys DEF Turns, TakesBack

LEMMA KeysResetKey ==
  ASSUME TypeOK, KeyInv, NEW o \in Operators, NEW k \in Keys, ResetKey(o, k)
  PROVE  KeyInv' /\ operator' \in [Operators -> Operator]
<1> DEFINE x == [pc |-> "locked", kind |-> "key", cred |-> NoCred, new |-> k, targets |-> {}]
<1>1. x \in Operator /\ x.pc = "locked" /\ x.kind = "key" /\ x.cred = NoCred /\ x.new = k
  BY DEF Operator, Creds
<1>2. operator' = [operator EXCEPT ![o] = x] /\ UNCHANGED <<enabled, cred, session, request>>
  BY DEF ResetKey, Begin
<1> HIDE DEF x
<1>3. Turns(o, x)
  BY <1>1, <1>2, OneTurns
<1>4. \A r \in Requests : request[r].pc = "inserted" => Owner[request[r].cred] # Owner[k]
  BY DEF ResetKey, UserShared
<1>. QED  BY <1>1, <1>3, <1>4, TurnKeepsKeys DEF Turns, TakesBack

LEMMA KeysUpdate ==
  ASSUME TypeOK, KeyInv, NEW o \in Operators, UpdateKeys(o)
  PROVE  KeyInv' /\ operator' \in [Operators -> Operator]
<1> DEFINE x == [operator[o] EXCEPT !.pc = "updated"]
<1>1. operator[o] \in Operator /\ operator[o].pc = "locked"
  BY DEF TypeOK, UpdateKeys
<1>2. /\ x \in Operator /\ x.pc = "updated" /\ x.kind = operator[o].kind
      /\ x.cred = operator[o].cred /\ x.new = operator[o].new
  BY <1>1 DEF Operator
<1>3. operator' = [operator EXCEPT ![o] = x] /\ UNCHANGED <<enabled, cred, session, request>>
  BY DEF UpdateKeys, TypeOK
<1> HIDE DEF x
<1>4. Turns(o, x)
  BY <1>2, <1>3, OneTurns
<1>5. x.kind = "key" /\ x.cred = NoCred /\ x.new \in Keys
  BY <1>1, <1>2 DEF KeyInv, CommandKinds
<1>6. ASSUME NEW r \in Requests, LoggingIn(r), TakesBack(x, request[r].cred)
      PROVE  FALSE
  <2>1. request[r].cred \in KeysOf(Owner[operator[o].new])
    BY <1>2, <1>5, <1>6 DEF KeyInv, LoginKeyActive, LoggingIn, TakesBack, KeysOf
  <2>2. KeyWriteLocked(request[r].cred)
    BY <1>6 DEF LoggingIn, KeyWriteLocked
  <2>. QED  BY <2>1, <2>2 DEF UpdateKeys
<1>7. \A r \in Requests : request[r].pc = "inserted" => Owner[request[r].cred] # Owner[x.new]
  BY <1>1, <1>2, <1>5 DEF KeyInv, NoneUnderReset
<1>. QED  BY <1>2, <1>4, <1>5, <1>6, <1>7, TurnKeepsKeys DEF Turns

LEMMA KeysSelect ==
  ASSUME TypeOK, KeyInv, NEW o \in Operators, SelectSessions(o)
  PROVE  KeyInv' /\ operator' \in [Operators -> Operator]
<1> DEFINE op == operator[o]
           hit == {s \in Sids : /\ Live(s)
                                /\ IF op.kind = "revoke" THEN session[s].cred = op.cred
                                   ELSE Owner[session[s].cred] = Owner[op.new]}
           x == [op EXCEPT !.pc = "sweeping", !.targets = hit]
<1>1. op \in Operator /\ op.pc = "updated"
  BY DEF TypeOK, SelectSessions
<1>2. operator' = [operator EXCEPT ![o] = x] /\ UNCHANGED <<enabled, cred, session, request>>
  BY DEF SelectSessions, TypeOK
<1>3. /\ hit \in SUBSET Sids
      /\ \A s \in Sids : Live(s) /\ s \notin hit =>
           /\ op.kind = "revoke" => session[s].cred # op.cred
           /\ op.kind = "key" => Owner[session[s].cred] # Owner[op.new]
  OBVIOUS
<1> HIDE DEF hit
<1>4. /\ x \in Operator /\ x.pc = "sweeping" /\ x.kind = op.kind
      /\ x.cred = op.cred /\ x.new = op.new /\ x.targets = hit
  BY <1>1, <1>3 DEF Operator
<1> HIDE DEF x
<1>5. Turns(o, x)
  BY <1>2, <1>4, OneTurns
<1>6. /\ op.kind = "revoke" => op.cred \in Keys /\ op.new = NoCred
      /\ op.kind = "password" => op.cred = NoCred /\ op.new \in Passwords
      /\ op.kind = "key" => op.cred = NoCred /\ op.new \in Keys
  BY <1>1 DEF KeyInv, CommandKinds
<1>7. \A r \in Requests : LoggingIn(r) => ~TakesBack(x, request[r].cred)
  BY <1>1, <1>4 DEF KeyInv, LoginKeyActive, TakesBack
<1>8. \A r \in Requests : op.kind = "key" /\ request[r].pc = "inserted"
                            => Owner[request[r].cred] # Owner[op.new]
  BY <1>1 DEF KeyInv, NoneUnderReset
<1>. QED  BY <1>3, <1>4, <1>5, <1>6, <1>7, <1>8, TurnKeepsKeys DEF Turns

\* What FinishSweep writes into access_keys and users.
LEMMA Written ==
  ASSUME TypeOK, CommandKinds, NEW o \in Operators, operator[o].pc = "sweeping", NEW c \in Creds
  PROVE  LET op == operator[o]
             v == TakenBack(op, c) IN
         /\ v \in CredState
         /\ v = "revoked" => cred[c] = "revoked" \/ (op.kind = "revoke" /\ c = op.cred)
         /\ v = "reset" =>
              cred[c] = "reset" \/ (op.kind = "key" /\ c \in KeysOf(Owner[op.new]))
         /\ cred[c] = "active" /\ c \in Keys /\ ~TakesBack(op, c) => v = "active"
<1> DEFINE op == operator[o]
<1>1. /\ op.kind \in {"revoke", "password", "key"}
      /\ op.kind = "revoke" => op.cred \in Keys /\ op.new = NoCred
      /\ op.kind # "revoke" => op.cred = NoCred
  BY DEF TypeOK, Operator, CommandKinds
<1>2. cred[c] \in CredState
  BY DEF TypeOK
<1>3. CASE c = op.new
  <2>1. c # op.cred
    BY <1>1, <1>3, Ids
  <2>. QED  BY <1>3, <2>1 DEF TakenBack, CredState
<1>4. CASE c # op.new /\ c = op.cred
  <2>1. op.kind = "revoke"
    BY <1>1, <1>4, Ids
  <2>. QED  BY <1>4, <2>1 DEF TakenBack, CredState, TakesBack
<1>5. CASE c # op.new /\ c # op.cred /\ op.kind = "key" /\ c \in KeysOf(Owner[op.new])
  BY <1>5 DEF TakenBack, CredState, TakesBack, KeysOf
<1>6. CASE c # op.new /\ c # op.cred /\ ~(op.kind = "key" /\ c \in KeysOf(Owner[op.new]))
  BY <1>2, <1>6 DEF TakenBack, CredState
<1>. QED  BY <1>3, <1>4, <1>5, <1>6

LEMMA Finishes ==
  ASSUME TypeOK, NEW o \in Operators, FinishSweep(o)
  PROVE  /\ SomeEnd /\ UNCHANGED <<enabled, request>>
         /\ operator[o].pc = "sweeping"
         /\ \A s \in Sids : Live(s)' => s \notin operator[o].targets /\ session'[s] = session[s]
         /\ \A c \in Creds : cred'[c] = TakenBack(operator[o], c)
         /\ operator' \in [Operators -> Operator]
         /\ operator'[o].pc = "idle" /\ \A c \in Operators \ {o} : operator'[c] = operator[c]
<1>1. session' = [s \in Sids |-> IF s \in operator[o].targets THEN NoSession ELSE session[s]]
  BY DEF FinishSweep
<1>2. SomeEnd
  BY <1>1, IdleFits DEF FinishSweep, SomeEnd, TypeOK
<1>3. \A s \in Sids : Live(s)' => s \notin operator[o].targets /\ session'[s] = session[s]
  BY <1>1 DEF Live
<1>4. /\ operator' \in [Operators -> Operator]
      /\ operator'[o].pc = "idle" /\ \A c \in Operators \ {o} : operator'[c] = operator[c]
  BY IdleFits DEF FinishSweep, TypeOK, IdleOperator
<1>. QED  BY <1>2, <1>3, <1>4 DEF FinishSweep

LEMMA KeysFinish ==
  ASSUME TypeOK, KeyInv, NEW o \in Operators, FinishSweep(o)
  PROVE  KeyInv' /\ cred' \in [Creds -> CredState]
<1> DEFINE op == operator[o]
<1>1. /\ SomeEnd /\ UNCHANGED <<enabled, request>>
      /\ op.pc = "sweeping"
      /\ \A s \in Sids : Live(s)' => s \notin op.targets /\ session'[s] = session[s]
      /\ \A c \in Creds : cred'[c] = TakenBack(op, c)
      /\ operator'[o].pc = "idle" /\ \A c \in Operators \ {o} : operator'[c] = operator[c]
  BY Finishes
<1>2. \A s \in Sids : Live(s)' => Live(s)
  BY <1>1 DEF Live
<1>3. CommandKinds
  BY DEF KeyInv
<1>4. CommandKinds' /\ VerifiedPassword' /\ NoneUnderReset'
  BY <1>1 DEF KeyInv, CommandKinds, VerifiedPassword, NoneUnderReset
<1>5. SweepCovers'
  BY <1>1, <1>2 DEF KeyInv, SweepCovers
<1>6. LoginKeyActive'
  <2> SUFFICES ASSUME NEW r \in Requests, LoggingIn(r)
               PROVE  /\ cred'[request[r].cred] = "active"
                      /\ \A c \in Operators : ~TakesBack(operator'[c], request[r].cred)
    BY <1>1 DEF LoginKeyActive, LoggingIn, TakesBack
  <2>1. /\ cred[request[r].cred] = "active" /\ request[r].cred \in Keys
        /\ \A c \in Operators : ~TakesBack(operator[c], request[r].cred)
    BY DEF KeyInv, LoginKeyActive, LoggingIn
  <2>2. cred'[request[r].cred] = "active"
    BY <1>1, <1>3, <2>1, Written DEF Creds
  <2>. QED  BY <1>1, <2>1, <2>2 DEF TakesBack
<1>7. KeyResetComplete'
  <2> SUFFICES ASSUME NEW s \in Sids, Live(s)', session'[s].cred \in Keys,
                      cred'[session'[s].cred] = "reset"
               PROVE  FALSE
    BY DEF KeyResetComplete
  <2> DEFINE c == session[s].cred
  <2>1. Live(s) /\ s \notin op.targets /\ session'[s].cred = c /\ c \in Keys
    BY <1>1, <1>2
  <2>2. cred[c] = "reset" \/ (op.kind = "key" /\ c \in KeysOf(Owner[op.new]))
    BY <1>1, <1>3, <2>1, Written DEF Creds
  <2>3. cred[c] # "reset"
    BY <2>1 DEF KeyInv, KeyResetComplete
  <2>4. op.kind = "key" => Owner[c] # Owner[op.new]
    BY <1>1, <2>1 DEF KeyInv, SweepCovers
  <2>. QED  BY <2>2, <2>3, <2>4 DEF KeysOf
<1>8. NoLoginOutlivesKey'
  <2> SUFFICES ASSUME NEW s \in Sids, Live(s)', session'[s].cred \in Keys,
                      cred'[session'[s].cred] = "revoked"
               PROVE  session'[s].login # s
    BY DEF NoLoginOutlivesKey
  <2> DEFINE c == session[s].cred
  <2>1. Live(s) /\ s \notin op.targets /\ session'[s] = session[s] /\ c \in Keys
    BY <1>1, <1>2
  <2>2. cred[c] = "revoked" \/ (op.kind = "revoke" /\ c = op.cred)
    BY <1>1, <1>3, <2>1, Written DEF Creds
  <2>3. CASE cred[c] = "revoked"
    BY <2>1, <2>3 DEF KeyInv, NoLoginOutlivesKey
  <2>4. CASE op.kind = "revoke" /\ c = op.cred
    BY <1>1, <2>1, <2>4 DEF KeyInv, SweepCovers
  <2>. QED  BY <2>2, <2>3, <2>4
<1>9. cred' \in [Creds -> CredState]
  BY <1>1, <1>3, Written DEF FinishSweep
<1>. QED  BY <1>4, <1>5, <1>6, <1>7, <1>8, <1>9 DEF KeyInv

LEMMA KeysIssue ==
  ASSUME TypeOK, KeyInv, NEW k \in Keys, IssueKey(k)
  PROVE  KeyInv' /\ cred' \in [Creds -> CredState]
<1>1. /\ cred' \in [Creds -> CredState] /\ cred'[k] = "active"
      /\ \A c \in Creds \ {k} : cred'[c] = cred[c]
      /\ UNCHANGED <<session, request, operator>>
  BY DEF IssueKey, TypeOK, CredState, Creds
<1>2. /\ CommandKinds' /\ VerifiedPassword' /\ NoneUnderReset' /\ SweepCovers'
  BY <1>1 DEF KeyInv, CommandKinds, VerifiedPassword, NoneUnderReset, SweepCovers, Live
<1>3. LoginKeyActive'
  BY <1>1 DEF KeyInv, LoginKeyActive, LoggingIn, TakesBack, Creds
<1>4. KeyResetComplete' /\ NoLoginOutlivesKey'
  BY <1>1 DEF KeyInv, KeyResetComplete, NoLoginOutlivesKey, Live, Creds
<1>. QED  BY <1>1, <1>2, <1>3, <1>4 DEF KeyInv

LEMMA AuthInit == Init => AuthInv
<1> SUFFICES ASSUME Init PROVE AuthInv
  OBVIOUS
<1>1. TypeOK
  BY IdleFits DEF Init, TypeOK, CredState
<1>2. \A r \in Requests : request[r].pc = "idle" /\ request[r].old = NoSid
  BY DEF Init, IdleRequest
<1>3. \A s \in Sids : ~Live(s)
  BY DEF Init, Live
<1>4. \A o \in Operators : operator[o].pc = "idle"
  BY DEF Init, IdleOperator
<1>5. RoomForAll
  <2>1. Pending = {}
    BY <1>2 DEF Pending
  <2>2. Cardinality(Pending) = 0 /\ Cardinality(UnusedSids) \in Nat
    BY <2>1, FiniteAll, FS_EmptySet, FS_CardinalityType
  <2>. QED  BY <2>2 DEF RoomForAll
<1>6. SessionInv
  <2>1. LockedIsRead /\ OneRotationEach
    BY <1>2 DEF LockedIsRead, OneRotationEach, Rotating
  <2>2. NewIsFresh
    BY <1>2 DEF NewIsFresh
  <2>3. OneLivePerLogin
    BY <1>3 DEF OneLivePerLogin
  <2>. QED  BY <1>5, <2>1, <2>2, <2>3 DEF SessionInv
<1>7. KeyInv
  BY <1>2, <1>3, <1>4
     DEF KeyInv, CommandKinds, VerifiedPassword, LoginKeyActive, NoneUnderReset, SweepCovers,
         KeyResetComplete, NoLoginOutlivesKey, LoggingIn
<1>. QED  BY <1>1, <1>6, <1>7 DEF AuthInv

-----------------------------------------------------------------------------
(* The theorems.                                                           *)

LEMMA Deadlocks ==
  ASSUME TypeOK, NEW r \in Requests, NEW o \in Operators, BreakDeadlock(r, o)
  PROVE  /\ UNCHANGED <<enabled, cred, session>>
         /\ \/ Moves(r, IdleRequest) /\ UNCHANGED operator
            \/ operator' = [operator EXCEPT ![o] = IdleOperator] /\ UNCHANGED request
  BY RollsBack DEF BreakDeadlock

LEMMA OneEnds ==
  ASSUME TypeOK, NEW s \in Sids, Logout(s) \/ SessionExpires(s)
  PROVE  SomeEnd /\ UNCHANGED <<enabled, cred, request, operator>>
<1>1. session' = [session EXCEPT ![s] = NoSession] /\ ~SessionLocked(s)
      /\ UNCHANGED <<enabled, cred, request, operator>>
  BY DEF Logout, SessionExpires
<1>. QED  BY <1>1, IdleFits DEF SomeEnd, TypeOK

LEMMA RequestMoves ==
  ASSUME AuthInv, NEW r \in Requests, RequestBegins(r) \/ RequestStep(r) \/ RequestDies(r)
  PROVE  AuthInv'
<1>1. TypeOK /\ SessionInv /\ KeyInv /\ RoomForAll
  BY DEF AuthInv, SessionInv
<1>2. CASE RequestBegins(r)
  <2>1. TypeOK'
    BY <1>1, <1>2, Begins DEF TypeOK, Moves
  <2>. QED  BY <1>1, <1>2, <2>1, SessionsBegin, KeysBegin DEF AuthInv
<1>3. CASE LockSession(r)
  <2>1. TypeOK'
    BY <1>1, <1>3, Locks DEF TypeOK, Moves
  <2>. QED  BY <1>1, <1>3, <2>1, SessionsLock, KeysLock DEF AuthInv
<1>4. CASE InsertSession(r)
  <2>1. TypeOK'
    BY <1>1, <1>4, Inserts DEF TypeOK, Moves
  <2>. QED  BY <1>1, <1>4, <2>1, SessionsInsert, KeysInsert DEF AuthInv
<1>5. CASE CommitSession(r)
  <2>1. TypeOK'
    BY <1>1, <1>5, Commits DEF TypeOK, Moves
  <2>. QED  BY <1>1, <1>5, <2>1, SessionsCommit, KeysCommit DEF AuthInv
<1>6. CASE RequestDies(r)
  <2>1. Moves(r, IdleRequest) /\ UNCHANGED <<enabled, cred, session, operator>>
    BY <1>1, <1>6, RollsBack DEF RequestDies
  <2>2. TypeOK'
    BY <1>1, <2>1 DEF TypeOK, Moves
  <2>. QED  BY <1>1, <2>1, <2>2, SessionsRollback, KeysRollback DEF AuthInv
<1>. QED  BY <1>2, <1>3, <1>4, <1>5, <1>6 DEF RequestStep

\* A step that leaves the sessions and the requests alone leaves SessionInv.
LEMMA SessionsStay ==
  ASSUME SessionInv, UNCHANGED <<session, request>>
  PROVE  SessionInv'
<1>1. LockedIsRead' /\ OneRotationEach' /\ NewIsFresh' /\ OneLivePerLogin'
  BY DEF SessionInv, LockedIsRead, OneRotationEach, NewIsFresh, OneLivePerLogin, Rotating,
         Fresh, Live
<1>2. Pending' = Pending /\ UnusedSids' = UnusedSids
  BY DEF Pending, UnusedSids, Live
<1>. QED  BY <1>1, <1>2 DEF SessionInv, RoomForAll

LEMMA OperatorMoves ==
  ASSUME AuthInv, NEW o \in Operators, OperatorBegins(o) \/ OperatorStep(o) \/ OperatorDies(o)
  PROVE  AuthInv'
<1>1. TypeOK /\ SessionInv /\ KeyInv
  BY DEF AuthInv
<1>2. CASE FinishSweep(o)
  <2>1. TypeOK'
    BY <1>1, <1>2, Finishes, KeysFinish DEF TypeOK, SomeEnd
  <2>2. SessionInv'
    BY <1>1, <1>2, Finishes, SessionsEnd
  <2>. QED  BY <1>1, <1>2, <2>1, <2>2, KeysFinish DEF AuthInv
<1>3. CASE ~FinishSweep(o)
  <2>1. UNCHANGED <<enabled, cred, session, request>>
    BY <1>3 DEF OperatorBegins, OperatorStep, OperatorDies, RevokeKey, ResetKey, ResetPassword,
                UpdateKeys, SelectSessions
  <2>2. KeyInv' /\ operator' \in [Operators -> Operator]
    BY <1>1, <1>3, KeysRevoke, KeysResetKey, KeysResetPassword, KeysUpdate, KeysSelect,
       KeysCommandEnds
       DEF OperatorBegins, OperatorStep, OperatorDies
  <2>3. TypeOK'
    BY <1>1, <2>1, <2>2 DEF TypeOK
  <2>4. SessionInv'
    BY <1>1, <2>1, SessionsStay
  <2>. QED  BY <2>2, <2>3, <2>4 DEF AuthInv
<1>. QED  BY <1>2, <1>3

LEMMA AuthNext == AuthInv /\ [Next]_vars => AuthInv'
<1> SUFFICES ASSUME AuthInv, [Next]_vars PROVE AuthInv'
  OBVIOUS
<1>1. TypeOK /\ SessionInv /\ KeyInv
  BY DEF AuthInv
<1>2. CASE \E r \in Requests : RequestBegins(r) \/ RequestStep(r) \/ RequestDies(r)
  BY <1>2, RequestMoves
<1>3. CASE \E o \in Operators : OperatorBegins(o) \/ OperatorStep(o) \/ OperatorDies(o)
  BY <1>3, OperatorMoves
<1>4. ASSUME NEW r \in Requests, NEW o \in Operators, BreakDeadlock(r, o)
      PROVE  AuthInv'
  <2>1. CASE Moves(r, IdleRequest) /\ UNCHANGED operator
    <3>1. TypeOK'
      BY <1>1, <1>4, <2>1, Deadlocks DEF TypeOK, Moves
    <3>. QED  BY <1>1, <1>4, <2>1, <3>1, Deadlocks, SessionsRollback, KeysRollback DEF AuthInv
  <2>2. CASE operator' = [operator EXCEPT ![o] = IdleOperator] /\ UNCHANGED request
    <3>1. KeyInv' /\ operator' \in [Operators -> Operator]
      BY <1>1, <1>4, <2>2, Deadlocks, KeysCommandEnds
    <3>2. TypeOK'
      BY <1>1, <1>4, <2>2, <3>1, Deadlocks DEF TypeOK
    <3>. QED  BY <1>1, <1>4, <2>2, <3>1, <3>2, Deadlocks, SessionsStay DEF AuthInv
  <2>. QED  BY <1>1, <1>4, <2>1, <2>2, Deadlocks
<1>5. ASSUME NEW s \in Sids, Logout(s) \/ SessionExpires(s)
      PROVE  AuthInv'
  <2>1. SomeEnd /\ UNCHANGED <<enabled, cred, request, operator>>
    BY <1>1, <1>5, OneEnds
  <2>2. TypeOK'
    BY <1>1, <2>1 DEF TypeOK, SomeEnd
  <2>. QED  BY <1>1, <2>1, <2>2, SessionsEnd, KeysEnd DEF AuthInv
<1>6. ASSUME NEW k \in Keys, IssueKey(k)
      PROVE  AuthInv'
  <2>1. UNCHANGED <<enabled, session, request, operator>>
    BY <1>6 DEF IssueKey
  <2>2. TypeOK'
    BY <1>1, <1>6, <2>1, KeysIssue DEF TypeOK
  <2>. QED  BY <1>1, <1>6, <2>1, <2>2, KeysIssue, SessionsStay DEF AuthInv
<1>7. CASE UNCHANGED <<cred, session, request, operator>> /\ enabled' \in [Users -> BOOLEAN]
  <2>1. TypeOK'
    BY <1>1, <1>7 DEF TypeOK
  <2>2. KeyInv'
    BY <1>1, <1>7
       DEF KeyInv, CommandKinds, VerifiedPassword, LoginKeyActive, NoneUnderReset, SweepCovers,
           KeyResetComplete, NoLoginOutlivesKey, LoggingIn, TakesBack, Live
  <2>. QED  BY <1>1, <1>7, <2>1, <2>2, SessionsStay DEF AuthInv
<1>8. ASSUME NEW u \in Users, SetEnabled(u)
      PROVE  AuthInv'
  BY <1>1, <1>7, <1>8 DEF SetEnabled, TypeOK
<1>9. CASE UNCHANGED vars
  BY <1>1, <1>7, <1>9 DEF vars, TypeOK
<1>. QED  BY <1>2, <1>3, <1>4, <1>5, <1>6, <1>8, <1>9 DEF Next

LEMMA AuthInvariant == Spec => []AuthInv
  BY AuthInit, AuthNext, PTL DEF Spec

\* Every request and command is where its code can be, with what it knows
\* there; a transaction that inserts a session finds an id.
THEOREM AuthTypes == Spec => []TypeOK
  BY AuthInvariant, PTL DEF AuthInv

\* A login has at most one live session, however often and by however many
\* requests its refresh tokens are presented (service.py:101).
THEOREM LoginNeverForks == Spec => []OneLivePerLogin
<1>1. AuthInv => OneLivePerLogin
  BY DEF AuthInv, SessionInv
<1>. QED  BY <1>1, AuthInvariant, PTL

\* reset-access-key leaves no session of the keys it took back (rescue.py:170).
THEOREM ResetLeavesNoSession == Spec => []KeyResetComplete
<1>1. AuthInv => KeyResetComplete
  BY DEF AuthInv, KeyInv
<1>. QED  BY <1>1, AuthInvariant, PTL

\* A session that outlives its revoked key is the product of a rotation, never
\* of a login (rescue.py).
THEOREM RevocationStopsLogins == Spec => []NoLoginOutlivesKey
<1>1. AuthInv => NoLoginOutlivesKey
  BY DEF AuthInv, KeyInv
<1>. QED  BY <1>1, AuthInvariant, PTL

=============================================================================
