-------------------------- MODULE UserAdminProofs --------------------------
(***************************************************************************)
(* Which administrators can be lost, and how many bootstrap-admin creates, *)
(* for any number of users, requests and commands.                         *)
(***************************************************************************)
EXTENDS UserAdmin, FiniteSetTheorems, TLAPS

Row == [present : {TRUE}, admin : BOOLEAN, enabled : BOOLEAN]

LEMMA UserIs == ASSUME NEW x \in User PROVE x = NobodyYet \/ x \in Row
  BY DEF User, Row

LEMMA UserFields ==
  ASSUME NEW x \in User
  PROVE  x.present \in BOOLEAN /\ x.admin \in BOOLEAN /\ x.enabled \in BOOLEAN
<1>1. CASE x = NobodyYet
  BY <1>1 DEF NobodyYet
<1>2. CASE x \in Row
  BY <1>2 DEF Row
<1>. QED  BY <1>1, <1>2, UserIs

LEMMA NewIsUser ==
  ASSUME NEW admin \in BOOLEAN
  PROVE  /\ NewUser(admin) \in User /\ NewUser(admin).present
         /\ NewUser(admin).enabled /\ NewUser(admin).admin = admin
  BY DEF NewUser, User

LEMMA PresentUser ==
  ASSUME NEW x \in User, x.present
  PROVE  x \in Row
<1>1. ~NobodyYet.present
  BY DEF NobodyYet
<1>. QED  BY <1>1, UserIs

\* A write leaves a row, or none.
LEMMA ChangedIsUser ==
  ASSUME NEW x \in User, x.present, NEW q, q.change \in Changes, q.loaded \in User
  PROVE  Changed(q, x) \in User
<1>1. x \in Row
  BY PresentUser
<1>2. q.loaded.admin \in BOOLEAN /\ q.loaded.enabled \in BOOLEAN
  BY UserFields
<1>3. q.change \in {"delete", "demote", "promote", "disable", "enable"}
  BY DEF Changes, Removals
<1>4. CASE q.change = "delete"
  BY <1>4 DEF Changed, User, Row
<1>5. CASE q.change \in {"demote", "promote"}
  BY <1>1, <1>2, <1>5 DEF Changed, User, Row
<1>6. CASE q.change \in {"disable", "enable"}
  BY <1>1, <1>2, <1>6 DEF Changed, User, Row
<1>. QED  BY <1>3, <1>4, <1>5, <1>6

-----------------------------------------------------------------------------
(* Types.                                                                  *)

Reading == [pc : {"read"}, target : Users, change : Changes, loaded : User \ {NobodyYet},
            candidates : {{}}, admins : {{}}]
Counting == [pc : {"counting", "counted"}, target : Users, change : Removals,
             loaded : {NewUser(TRUE)}, candidates : SUBSET Users, admins : SUBSET Users]

LEMMA RequestKinds ==
  ASSUME NEW q \in Request
  PROVE  /\ q.pc = "idle" => q = IdleRequest
         /\ q.pc = "read" => q \in Reading
         /\ q.pc \in {"counting", "counted"} => q \in Counting
         /\ q.pc \in {"idle", "read", "counting", "counted"}
<1>1. q = IdleRequest \/ q \in Reading \/ q \in Counting
  BY DEF Request, Reading, Counting
<1>2. IdleRequest.pc = "idle"
  BY DEF IdleRequest
<1>3. q \in Reading => q.pc = "read"
  BY DEF Reading
<1>4. q \in Counting => q.pc \in {"counting", "counted"}
  BY DEF Counting
<1>. QED  BY <1>1, <1>2, <1>3, <1>4

LEMMA Writing ==
  ASSUME NEW q \in Request, q.pc # "idle"
  PROVE  q.target \in Users /\ q.change \in Changes /\ q.loaded \in User
<1>1. CASE q \in Reading
  BY <1>1 DEF Reading
<1>2. CASE q \in Counting
  BY <1>2, NewIsUser DEF Counting, Changes
<1>. QED  BY <1>1, <1>2, RequestKinds

LEMMA TypeInit == Init => TypeOK
  BY DEF Init, TypeOK, User, Request

\* One row changes.
LEMMA RowMoves ==
  ASSUME TypeOK, NEW u \in Users, NEW x \in User, user' = [user EXCEPT ![u] = x]
  PROVE  user' \in [Users -> User] /\ \A v \in Users \ {u} : user'[v] = user[v]
  BY DEF TypeOK

LEMMA WriteTypes ==
  ASSUME TypeOK, NEW r \in Requests, WriteUser(r)
  PROVE  /\ request[r].target \in Users
         /\ user' \in [Users -> User]
         /\ \A v \in Users \ {request[r].target} : user'[v] = user[v]
<1> DEFINE q == request[r]
<1>1. q \in Request /\ q.pc # "idle" /\ user \in [Users -> User]
  BY DEF TypeOK, WriteUser
<1>2. q.target \in Users /\ q.change \in Changes /\ q.loaded \in User
  BY <1>1, Writing
<1>3. CASE user[q.target].present
  <2>1. Changed(q, user[q.target]) \in User
    BY <1>1, <1>2, <1>3, ChangedIsUser
  <2>2. user' = [user EXCEPT ![q.target] = Changed(q, user[q.target])]
    BY <1>3 DEF WriteUser
  <2>. QED  BY <1>2, <2>1, <2>2, RowMoves
<1>4. CASE ~user[q.target].present
  BY <1>1, <1>2, <1>4 DEF WriteUser
<1>. QED  BY <1>3, <1>4

LEMMA TypeNext == TypeOK /\ [Next]_vars => TypeOK'
<1> SUFFICES ASSUME TypeOK, [Next]_vars PROVE TypeOK'
  OBVIOUS
<1>1. /\ user \in [Users -> User] /\ request \in [Requests -> Request]
      /\ command \in [Commands -> {"idle", "locked", "counted"}] /\ bootstrapped \in SUBSET Users
  BY DEF TypeOK
<1>2. ASSUME NEW r \in Requests, NEW u \in Users, NEW change \in Changes, ReadUser(r, u, change)
      PROVE  TypeOK'
  <2>1. user[u] \in User \ {NobodyYet}
    BY <1>1, <1>2 DEF ReadUser, NobodyYet
  <2>2. [IdleRequest EXCEPT !.pc = "read", !.target = u, !.change = change, !.loaded = user[u]]
          \in Request
    BY <2>1 DEF IdleRequest, Request
  <2>. QED  BY <1>1, <1>2, <2>2 DEF ReadUser, TypeOK
<1>3. ASSUME NEW r \in Requests, SelectAdmins(r) PROVE TypeOK'
  <2>1. request[r] \in Reading /\ RemovesAdmin(request[r])
    BY <1>1, <1>3, RequestKinds DEF SelectAdmins
  <2>2. request[r].loaded = NewUser(TRUE) /\ request[r].change \in Removals
    BY <2>1 DEF Reading, RemovesAdmin, User, NewUser
  <2>3. [request[r] EXCEPT !.pc = "counting", !.candidates = {u \in Users : ActiveAdmin(u)}]
          \in Counting
    BY <2>1, <2>2 DEF Reading, Counting
  <2>4. request' = [request EXCEPT ![r] =
          [request[r] EXCEPT !.pc = "counting", !.candidates = {u \in Users : ActiveAdmin(u)}]]
    BY <1>1, <1>3 DEF SelectAdmins
  <2>5. Counting \subseteq Request
    BY DEF Counting, Request
  <2>. QED  BY <1>1, <1>3, <2>3, <2>4, <2>5 DEF SelectAdmins, TypeOK
<1>4. ASSUME NEW r \in Requests, CountAdmins(r) PROVE TypeOK'
  <2> DEFINE admins == {u \in request[r].candidates : ActiveAdmin(u)}
  <2>1. request[r] \in Counting
    BY <1>1, <1>4, RequestKinds DEF CountAdmins
  <2>2. admins \in SUBSET Users
    BY <2>1 DEF Counting
  <2>3. \/ request' = [request EXCEPT ![r] = IdleRequest]
        \/ request' = [request EXCEPT ![r] = [request[r] EXCEPT !.pc = "counted", !.admins = admins]]
    BY <1>1, <1>4 DEF CountAdmins, Finish
  <2> HIDE DEF admins
  <2>4. [request[r] EXCEPT !.pc = "counted", !.admins = admins] \in Request
    BY <2>1, <2>2 DEF Counting, Request
  <2>5. IdleRequest \in Request
    BY DEF Request
  <2>. QED  BY <1>1, <1>4, <2>3, <2>4, <2>5 DEF CountAdmins, TypeOK
<1>5. ASSUME NEW r \in Requests, WriteUser(r) \/ RequestDies(r) PROVE TypeOK'
  <2>1. request' \in [Requests -> Request]
    BY <1>1, <1>5 DEF WriteUser, RequestDies, Finish, Request
  <2>2. user' \in [Users -> User]
    BY <1>1, <1>5, WriteTypes DEF RequestDies
  <2>. QED  BY <1>1, <1>5, <2>1, <2>2 DEF WriteUser, RequestDies, TypeOK
<1>6. ASSUME NEW u \in Users, NEW admin \in BOOLEAN, InsertUser(u, admin) PROVE TypeOK'
  BY <1>1, <1>6, NewIsUser, RowMoves DEF InsertUser, TypeOK
<1>7. ASSUME NEW u \in Users, Promote(u) PROVE TypeOK'
  <2>1. [user[u] EXCEPT !.admin = TRUE] \in User
    BY <1>1, <1>7, PresentUser DEF Promote, User, Row
  <2>2. user' = [user EXCEPT ![u] = [user[u] EXCEPT !.admin = TRUE]]
    BY <1>1, <1>7 DEF Promote
  <2>. QED  BY <1>1, <1>7, <2>1, <2>2, RowMoves DEF Promote, TypeOK
<1>8. ASSUME NEW k \in Commands,
             BeginBootstrap(k) \/ CountForBootstrap(k) \/ CommandDies(k)
      PROVE  TypeOK'
  BY <1>1, <1>8 DEF BeginBootstrap, CountForBootstrap, CommandDies, TypeOK
<1>9. ASSUME NEW k \in Commands, InsertAdmin(k) PROVE TypeOK'
  BY <1>1, <1>9, NewIsUser, RowMoves DEF InsertAdmin, TypeOK
<1>10. CASE UNCHANGED vars
  BY <1>10 DEF vars, TypeOK
<1>. QED  BY <1>2, <1>3, <1>4, <1>5, <1>6, <1>7, <1>8, <1>9, <1>10
          DEF Next, Register, CreateUser, CreateByCommand

-----------------------------------------------------------------------------
(* Administrators.                                                         *)

\* Only a request takes an active administrator away, and only the one it is to
\* change.
LEMMA StaysActive ==
  ASSUME TypeOK, [Next]_vars, NEW u \in Users, ActiveAdmin(u)
  PROVE  \/ ActiveAdmin(u)'
         \/ \E r \in Requests : WriteUser(r) /\ request[r].target = u
<1> SUFFICES ASSUME ~\E r \in Requests : WriteUser(r) /\ request[r].target = u
             PROVE  user'[u] = user[u]
  BY DEF ActiveAdmin
<1>1. user \in [Users -> User]
  BY DEF TypeOK
<1>2. ASSUME NEW r \in Requests, WriteUser(r) PROVE user'[u] = user[u]
  BY <1>2, WriteTypes
<1>3. ASSUME NEW v \in Users, NEW x, ~ActiveAdmin(v), user' = [user EXCEPT ![v] = x]
      PROVE  user'[u] = user[u]
  BY <1>1, <1>3
<1>4. ASSUME NEW v \in Users, NEW admin \in BOOLEAN, InsertUser(v, admin) PROVE user'[u] = user[u]
  BY <1>3, <1>4 DEF InsertUser, Fresh, ActiveAdmin
<1>5. ASSUME NEW v \in Users, Promote(v) PROVE user'[u] = user[u]
  BY <1>3, <1>5 DEF Promote, ActiveAdmin
<1>6. ASSUME NEW k \in Commands, InsertAdmin(k) PROVE user'[u] = user[u]
  BY <1>3, <1>6 DEF InsertAdmin, Fresh, ActiveAdmin
<1>7. ASSUME \/ \E r \in Requests :
                  \/ \E v \in Users, change \in Changes : ReadUser(r, v, change)
                  \/ SelectAdmins(r) \/ CountAdmins(r) \/ RequestDies(r)
             \/ \E k \in Commands : BeginBootstrap(k) \/ CountForBootstrap(k) \/ CommandDies(k)
             \/ UNCHANGED vars
      PROVE  user'[u] = user[u]
  BY <1>7 DEF ReadUser, SelectAdmins, CountAdmins, RequestDies, BeginBootstrap,
     CountForBootstrap, CommandDies, vars
<1>. QED  BY <1>2, <1>4, <1>5, <1>6, <1>7 DEF Next, Register, CreateUser, CreateByCommand

\* What lock_active_admin_ids has returned is locked, and so stays active; with
\* the user to be removed it has returned another one.
HoldsAdmins(r) ==
  LET q == request[r] IN
  q.pc = "counted" =>
    /\ q.admins \subseteq q.candidates /\ \A u \in q.admins : ActiveAdmin(u)
    /\ q.target \in q.admins => \E u \in q.admins : u # q.target

\* The requests a step leaves as they are keep what they hold.
LEMMA OthersHold ==
  ASSUME TypeOK, [Next]_vars, NEW r \in Requests, HoldsAdmins(r), request'[r] = request[r]
  PROVE  HoldsAdmins(r)'
<1> SUFFICES ASSUME request[r].pc = "counted", NEW u \in request[r].admins
             PROVE  ActiveAdmin(u)'
  BY DEF HoldsAdmins
<1>1. request[r] \in Counting
  BY RequestKinds DEF TypeOK
<1>2. u \in Users /\ ActiveAdmin(u) /\ u \in request[r].candidates
  BY <1>1 DEF Counting, HoldsAdmins
<1>3. ASSUME NEW q \in Requests, WriteUser(q) PROVE request[q].target # u
  <2>1. q # r
    <3>1. request'[q].pc = "idle"
      BY <1>3 DEF WriteUser, Finish, TypeOK, IdleRequest
    <3>. QED  BY <3>1
  <2>. QED  BY <1>2, <1>3, <2>1 DEF WriteUser, RowLocked, Others
<1>. QED  BY <1>2, <1>3, StaysActive

LEMMA CountHolds ==
  ASSUME TypeOK, NEW r \in Requests, CountAdmins(r)
  PROVE  HoldsAdmins(r)'
<1> DEFINE admins == {u \in request[r].candidates : ActiveAdmin(u)}
<1>1. request[r] \in Counting /\ request \in [Requests -> Request] /\ user' = user
  BY RequestKinds DEF TypeOK, CountAdmins
<1>2. CASE request[r].target \in admins /\ Cardinality(admins) <= 1
  <2>1. request'[r].pc = "idle"
    BY <1>1, <1>2 DEF CountAdmins, Finish, IdleRequest
  <2>. QED  BY <2>1 DEF HoldsAdmins
<1>3. CASE ~(request[r].target \in admins /\ Cardinality(admins) <= 1)
  <2>1. request'[r] = [request[r] EXCEPT !.pc = "counted", !.admins = admins]
    BY <1>1, <1>3 DEF CountAdmins
  <2>2. /\ request'[r].admins = admins /\ request'[r].target = request[r].target
        /\ request'[r].candidates = request[r].candidates /\ admins \subseteq request[r].candidates
    BY <1>1, <2>1 DEF Counting
  <2>3. \A u \in admins : ActiveAdmin(u)'
    BY <1>1 DEF ActiveAdmin
  <2>4. ASSUME request[r].target \in admins PROVE \E u \in admins : u # request[r].target
    <3>1. SUFFICES ASSUME \A u \in admins : u = request[r].target PROVE FALSE
      OBVIOUS
    <3>2. admins = {request[r].target}
      BY <2>4, <3>1
    <3>3. Cardinality(admins) = 1
      BY <3>2, FS_Singleton
    <3>. QED  BY <1>3, <2>4, <3>3
  <2> HIDE DEF admins
  <2>. QED  BY <2>2, <2>3, <2>4 DEF HoldsAdmins
<1>. QED  BY <1>2, <1>3

LEMMA HoldNext ==
  ASSUME TypeOK, [Next]_vars, \A r \in Requests : HoldsAdmins(r), NEW r \in Requests
  PROVE  HoldsAdmins(r)'
<1>1. request \in [Requests -> Request]
  BY DEF TypeOK
<1>2. ASSUME NEW q \in Requests, CountAdmins(q) PROVE HoldsAdmins(r)'
  <2>1. r # q => request'[r] = request[r]
    BY <1>1, <1>2 DEF CountAdmins, Finish
  <2>. QED  BY <1>2, <2>1, CountHolds, OthersHold
<1>3. ASSUME NEW q \in Requests,
             \/ \E u \in Users, change \in Changes : ReadUser(q, u, change)
             \/ SelectAdmins(q) \/ WriteUser(q) \/ RequestDies(q)
      PROVE  HoldsAdmins(r)'
  <2>1. r # q => request'[r] = request[r]
    BY <1>1, <1>3 DEF ReadUser, SelectAdmins, WriteUser, RequestDies, Finish
  <2>2. request'[q].pc # "counted"
    <3>1. ASSUME NEW u \in Users, NEW change \in Changes, ReadUser(q, u, change)
          PROVE  request'[q].pc = "read"
      BY <1>1, <3>1 DEF ReadUser, IdleRequest
    <3>2. SelectAdmins(q) => request'[q].pc = "counting"
      <4>1. SUFFICES ASSUME SelectAdmins(q) PROVE request'[q].pc = "counting"
        OBVIOUS
      <4>2. request[q] \in Reading
        BY <1>1, <4>1, RequestKinds DEF SelectAdmins
      <4>. QED  BY <1>1, <4>1, <4>2 DEF SelectAdmins, Reading
    <3>3. WriteUser(q) \/ RequestDies(q) => request'[q].pc = "idle"
      BY <1>1 DEF WriteUser, RequestDies, Finish, IdleRequest
    <3>. QED  BY <1>3, <3>1, <3>2, <3>3
  <2>. QED  BY <2>1, <2>2, OthersHold DEF HoldsAdmins
<1>4. CASE UNCHANGED request
  BY <1>4, OthersHold
<1>. QED  BY <1>2, <1>3, <1>4 DEF Next, Register, CreateUser, CreateByCommand, InsertUser, Promote,
          BeginBootstrap, CountForBootstrap, InsertAdmin, CommandDies, vars

-----------------------------------------------------------------------------
(* bootstrap-admin.                                                        *)

\* The advisory lock lets one command count and insert; it has counted nobody
\* only if no administrator of an earlier one is left as it was.
BootstrapInv ==
  /\ \A j, k \in Commands : command[j] # "idle" /\ command[k] # "idle" => j = k
  /\ \A k \in Commands : command[k] = "counted" => bootstrapped = {}
  /\ \A u \in bootstrapped : ActiveAdmin(u)
  /\ \A u, v \in bootstrapped : u = v

\* Every step but InsertAdmin only takes users out of bootstrapped.
LEMMA BootstrappedShrinks ==
  ASSUME TypeOK, [Next]_vars, ~\E k \in Commands : InsertAdmin(k)
  PROVE  bootstrapped' \subseteq bootstrapped
  BY DEF Next, Register, CreateUser, CreateByCommand, InsertUser, Promote, ReadUser, SelectAdmins,
     CountAdmins, WriteUser, RequestDies, BeginBootstrap, CountForBootstrap, CommandDies, vars

LEMMA BootstrappedActive ==
  ASSUME TypeOK, [Next]_vars, NEW u \in bootstrapped \cap bootstrapped', ActiveAdmin(u)
  PROVE  ActiveAdmin(u)'
<1>1. u \in Users
  BY DEF TypeOK
<1>2. ASSUME NEW r \in Requests, WriteUser(r) PROVE request[r].target # u
  BY <1>2 DEF WriteUser
<1>. QED  BY <1>1, <1>2, StaysActive

LEMMA BootstrapNext == TypeOK /\ BootstrapInv /\ [Next]_vars => BootstrapInv'
<1> SUFFICES ASSUME TypeOK, BootstrapInv, [Next]_vars PROVE BootstrapInv'
  OBVIOUS
<1>1. command \in [Commands -> {"idle", "locked", "counted"}] /\ user \in [Users -> User]
      /\ bootstrapped \in SUBSET Users
  BY DEF TypeOK
<1>2. CASE \E k \in Commands : InsertAdmin(k)
  <2>1. PICK k \in Commands : InsertAdmin(k)
    BY <1>2
  <2>2. PICK u \in Users : /\ user' = [user EXCEPT ![u] = NewUser(TRUE)]
                           /\ bootstrapped' = bootstrapped \cup {u}
    BY <2>1 DEF InsertAdmin
  <2>3. bootstrapped' = {u}
    BY <2>1, <2>2 DEF InsertAdmin, BootstrapInv
  <2>4. ActiveAdmin(u)'
    BY <1>1, <2>2, NewIsUser DEF ActiveAdmin
  <2>5. command' = [command EXCEPT ![k] = "idle"] /\ command[k] = "counted"
    BY <2>1 DEF InsertAdmin
  <2>6. \A j \in Commands : command'[j] = "idle"
    BY <1>1, <2>5 DEF BootstrapInv
  <2>. QED  BY <2>3, <2>4, <2>6 DEF BootstrapInv
<1>3. CASE ~\E k \in Commands : InsertAdmin(k)
  <2>1. bootstrapped' \subseteq bootstrapped
    BY <1>3, BootstrappedShrinks
  <2>2. \A u \in bootstrapped' : ActiveAdmin(u)'
    BY <2>1, BootstrappedActive DEF BootstrapInv
  <2>3. /\ \A j, k \in Commands : command'[j] # "idle" /\ command'[k] # "idle" => j = k
        /\ \A k \in Commands : command'[k] = "counted" => bootstrapped = {}
    <3>1. ASSUME NEW k \in Commands, BeginBootstrap(k) PROVE <2>3!:
      BY <1>1, <3>1 DEF BeginBootstrap
    <3>2. ASSUME NEW k \in Commands, CountForBootstrap(k) PROVE <2>3!:
      <4>1. command[k] = "locked" /\ \A j \in Commands \ {k} : command[j] = "idle"
        BY <3>2 DEF CountForBootstrap, BootstrapInv
      <4>2. \A j \in Commands \ {k} : command'[j] = "idle"
        BY <1>1, <3>2, <4>1 DEF CountForBootstrap
      <4>3. command'[k] = "counted" => bootstrapped = {}
        BY <1>1, <3>2 DEF CountForBootstrap, BootstrapInv
      <4>. QED  BY <4>2, <4>3
    <3>3. ASSUME NEW k \in Commands, CommandDies(k) PROVE <2>3!:
      BY <1>1, <3>3 DEF CommandDies, BootstrapInv
    <3>4. CASE UNCHANGED command
      BY <3>4 DEF BootstrapInv
    <3>. QED  BY <1>3, <3>1, <3>2, <3>3, <3>4 DEF Next, Register, CreateUser, CreateByCommand,
              InsertUser, Promote, ReadUser, SelectAdmins, CountAdmins, WriteUser, RequestDies, vars
  <2>. QED  BY <2>1, <2>2, <2>3 DEF BootstrapInv
<1>. QED  BY <1>2, <1>3

-----------------------------------------------------------------------------
(* Theorems.                                                               *)

AdminInv == TypeOK /\ (\A r \in Requests : HoldsAdmins(r)) /\ BootstrapInv

LEMMA AdminInductive == Spec => []AdminInv
<1>1. Init => AdminInv
  BY TypeInit DEF Init, AdminInv, HoldsAdmins, IdleRequest, BootstrapInv
<1>2. AdminInv /\ [Next]_vars => AdminInv'
  BY TypeNext, HoldNext, BootstrapNext DEF AdminInv
<1>. QED  BY <1>1, <1>2, PTL DEF Spec

\* Every reachable state is well typed: only the removal of a user that was
\* read as an active administrator is ever counted (service.py:90).
THEOREM AdminTypes == Spec => []TypeOK
<1>1. AdminInv => TypeOK
  BY DEF AdminInv
<1>. QED  BY <1>1, AdminInductive, PTL

\* However many requests race, what one has counted holds until it has written
\* (repository.py:70).
THEOREM CountLasts == Spec => []CountStaysTrue
<1>1. AdminInv => CountStaysTrue
  BY DEF AdminInv, HoldsAdmins, CountStaysTrue
<1>. QED  BY <1>1, AdminInductive, PTL

\* However many bootstrap-admin commands run at once, one administrator comes of
\* them (rescue.py:132).
THEOREM OneBootstrap == Spec => []BootstrapOnce
<1>1. ASSUME AdminInv PROVE Cardinality(bootstrapped) <= 1
  <2>1. CASE bootstrapped = {}
    BY <2>1, FS_EmptySet
  <2>2. CASE bootstrapped # {}
    <3>1. PICK u : u \in bootstrapped
      BY <2>2
    <3>2. bootstrapped = {u}
      BY <1>1, <3>1 DEF AdminInv, BootstrapInv
    <3>3. Cardinality({u}) = 1
      BY FS_Singleton
    <3>. QED  BY <3>2, <3>3
  <2>. QED  BY <2>1, <2>2
<1>2. AdminInv => BootstrapOnce
  BY <1>1 DEF BootstrapOnce
<1>. QED  BY <1>2, AdminInductive, PTL

\* For any number of users and requests, the last active administrator is lost
\* only to the request that changes that user, and only if it did not see an
\* active administrator there or its count returned nobody (service.py:90, 141).
THEOREM LostMissed == Spec => LostOnlyMissed
<1> DEFINE Missed(r) == /\ request'[r] = IdleRequest
                        /\ NotSeen(request[r]) \/ NobodyCounted(request[r])
                        /\ \A u \in Users : ActiveAdmin(u) <=> u = request[r].target
<1>1. ASSUME AdminInv, [Next]_vars, SomeAdmin, ~SomeAdmin'
      PROVE  \E r \in Requests : Missed(r)
  <2>1. TypeOK /\ \A r \in Requests : HoldsAdmins(r)
    BY <1>1 DEF AdminInv
  <2>2. PICK last \in Users : ActiveAdmin(last)
    BY <1>1 DEF SomeAdmin
  <2>3. PICK r \in Requests : WriteUser(r) /\ request[r].target = last
    BY <1>1, <2>1, <2>2, StaysActive DEF SomeAdmin
  <2>4. ASSUME NEW u \in Users, ActiveAdmin(u) PROVE u = last
    <3>1. SUFFICES ASSUME u # last PROVE FALSE
      OBVIOUS
    <3>2. user'[u] = user[u]
      BY <2>1, <2>3, <3>1, WriteTypes
    <3>. QED  BY <1>1, <2>4, <3>2 DEF ActiveAdmin, SomeAdmin
  <2>5. request'[r] = IdleRequest
    BY <2>1, <2>3 DEF WriteUser, Finish, TypeOK
  <2>6. ASSUME request[r].pc = "counted" PROVE request[r].admins = {}
    <3>1. SUFFICES ASSUME NEW v \in request[r].admins PROVE FALSE
      OBVIOUS
    <3>2. request[r] \in Counting
      BY <2>1, <2>6, RequestKinds DEF TypeOK
    <3>3. request[r].admins \subseteq Users /\ \A u \in request[r].admins : ActiveAdmin(u)
      BY <2>1, <2>6, <3>2 DEF HoldsAdmins, Counting
    <3>4. last \in request[r].admins
      BY <2>4, <3>1, <3>3
    <3>5. PICK u \in request[r].admins : u # last
      BY <2>1, <2>3, <2>6, <3>4 DEF HoldsAdmins
    <3>. QED  BY <2>4, <3>3, <3>5
  <2>7. NotSeen(request[r]) \/ NobodyCounted(request[r])
    BY <2>3, <2>6 DEF WriteUser, NotSeen, NobodyCounted
  <2>. QED  BY <2>2, <2>3, <2>4, <2>5, <2>7
<1>2. AdminInv /\ [Next]_vars =>
        [SomeAdmin /\ ~SomeAdmin' =>
           \E r \in Requests :
             /\ request'[r] = IdleRequest
             /\ NotSeen(request[r]) \/ NobodyCounted(request[r])
             /\ \A u \in Users : ActiveAdmin(u) <=> u = request[r].target]_vars
  BY <1>1
<1>. QED  BY <1>2, AdminInductive, PTL DEF Spec, LostOnlyMissed
=============================================================================
