----------------------------- MODULE UserAdmin -----------------------------
(***************************************************************************)
(* Who may administer the instance: the users table as far as roles go,    *)
(* the API requests that change or delete users, and the operator commands *)
(* that create and promote administrators.                                 *)
(*                                                                         *)
(* A request reads the user it is to change without a lock, decides from   *)
(* what it read whether an administrator is lost, in that case locks every *)
(* active administrator and counts them, and only then writes.             *)
(***************************************************************************)
EXTENDS Naturals, FiniteSets

CONSTANTS
  Users,        \* user ids; bound on the users there can be
  Requests,     \* PATCH and DELETE /users/{id} at the same time
  Commands,     \* bootstrap-admin commands at the same time
  NoUser

ASSUME NoUserAssumption == NoUser \notin Users

VARIABLES
  user,         \* the users table
  request,      \* per request: where it is, and what it has read
  command,      \* per bootstrap-admin: where it is
  bootstrapped  \* users as bootstrap-admin has created them (history)

vars == <<user, request, command, bootstrapped>>

-----------------------------------------------------------------------------
NobodyYet == [present |-> FALSE, admin |-> FALSE, enabled |-> FALSE]
User == {NobodyYet} \cup [present : {TRUE}, admin : BOOLEAN, enabled : BOOLEAN]
NewUser(admin) == [present |-> TRUE, admin |-> admin, enabled |-> TRUE]

Removals == {"demote", "disable", "delete"}
Changes == Removals \cup {"promote", "enable"}

IdleRequest == [pc |-> "idle", target |-> NoUser, change |-> "enable",
                loaded |-> NobodyYet, candidates |-> {}, admins |-> {}]

\* Only the removal of an active administrator gets as far as the count.
Request ==
  {IdleRequest}
  \cup [pc : {"read"}, target : Users, change : Changes, loaded : User \ {NobodyYet},
        candidates : {{}}, admins : {{}}]
  \cup [pc : {"counting", "counted"}, target : Users, change : Removals,
        loaded : {NewUser(TRUE)}, candidates : SUBSET Users, admins : SUBSET Users]

TypeOK ==
  /\ user \in [Users -> User]
  /\ request \in [Requests -> Request]
  /\ command \in [Commands -> {"idle", "locked", "counted"}]
  /\ bootstrapped \in SUBSET Users

Init ==
  /\ user = [u \in Users |-> NobodyYet]
  /\ request = [r \in Requests |-> IdleRequest]
  /\ command = [k \in Commands |-> "idle"]
  /\ bootstrapped = {}

ActiveAdmin(u) == user[u].present /\ user[u].admin /\ user[u].enabled

\* lock_active_admin_ids holds the rows its SELECT matched until the end, those
\* included that it did not return because they had changed meanwhile.
RowLocked(u, holders) ==
  \E q \in holders : request[q].pc = "counted" /\ u \in request[q].candidates

Others(r) == Requests \ {r}

Finish(r) == request' = [request EXCEPT ![r] = IdleRequest]

-----------------------------------------------------------------------------
(* update_user and delete_user.                                            *)

\* require_role and current_active_user: somebody may send such a request.
ByAdmin == \E a \in Users : ActiveAdmin(a)

\* get_user_by_id reads the row.
ReadUser(r, u, change) ==
  /\ request[r].pc = "idle" /\ ByAdmin
  /\ user[u].present
  /\ request' = [request EXCEPT ![r] = [IdleRequest EXCEPT !.pc = "read", !.target = u,
                                          !.change = change, !.loaded = user[u]]]
  /\ UNCHANGED <<user, command, bootstrapped>>

\* Mutant: a disabled administrator counts as one.
RemovesAdminByRole(q) == q.loaded.admin /\ q.change \in Removals

\* removes_admin, or the same test of delete_user, on the row as it was read.
RemovesAdmin(q) ==
  q.loaded.admin /\ q.loaded.enabled /\ q.change \in Removals

\* The SELECT of lock_active_admin_ids begins: these rows matched.
SelectAdmins(r) ==
  /\ request[r].pc = "read" /\ RemovesAdmin(request[r])
  /\ request' = [request EXCEPT ![r].pc = "counting",
                                ![r].candidates = {u \in Users : ActiveAdmin(u)}]
  /\ UNCHANGED <<user, command, bootstrapped>>

\* Mutant: the rows are counted as they were before the wait for their locks.
CountAdminsBeforeWait(r) ==
  LET admins == request[r].candidates IN
  /\ request[r].pc = "counting"
  /\ \A u \in admins : ~RowLocked(u, Others(r))
  /\ IF request[r].target \in admins /\ Cardinality(admins) <= 1
       THEN Finish(r)
       ELSE request' = [request EXCEPT ![r].pc = "counted", ![r].admins = admins]
  /\ UNCHANGED <<user, command, bootstrapped>>

\* Each row was waited for and tested again; the last one may not go.
CountAdmins(r) ==
  LET admins == {u \in request[r].candidates : ActiveAdmin(u)} IN
  /\ request[r].pc = "counting"
  /\ \A u \in request[r].candidates : ~RowLocked(u, Others(r))
  /\ IF request[r].target \in admins /\ Cardinality(admins) <= 1
       THEN Finish(r)
       ELSE request' = [request EXCEPT ![r].pc = "counted", ![r].admins = admins]
  /\ UNCHANGED <<user, command, bootstrapped>>

\* The ORM writes the attributes that differ from those it loaded.
Changed(q, now) ==
  CASE q.change = "delete" -> NobodyYet
    [] q.change = "demote" -> [now EXCEPT !.admin = IF q.loaded.admin THEN FALSE ELSE @]
    [] q.change = "promote" -> [now EXCEPT !.admin = IF q.loaded.admin THEN @ ELSE TRUE]
    [] q.change = "disable" -> [now EXCEPT !.enabled = IF q.loaded.enabled THEN FALSE ELSE @]
    [] q.change = "enable" -> [now EXCEPT !.enabled = IF q.loaded.enabled THEN @ ELSE TRUE]

\* Mutant: rows are written without waiting for whoever has locked them.
WriteUserAtOnce(r) ==
  LET q == request[r] IN
  /\ q.pc = "counted" \/ (q.pc = "read" /\ ~RemovesAdmin(q))
  /\ user' = IF user[q.target].present
               THEN [user EXCEPT ![q.target] = Changed(q, @)] ELSE user
  /\ bootstrapped' = bootstrapped \ {q.target}
  /\ Finish(r)
  /\ UNCHANGED command

\* The UPDATE or DELETE waits for the row; a row that is gone is an error.
WriteUser(r) ==
  LET q == request[r] IN
  /\ \/ q.pc = "counted"
     \/ q.pc = "read" /\ ~RemovesAdmin(q)
  /\ ~RowLocked(q.target, Others(r))
  /\ user' = IF user[q.target].present
               THEN [user EXCEPT ![q.target] = Changed(q, @)] ELSE user
  /\ bootstrapped' = bootstrapped \ {q.target}
  /\ Finish(r)
  /\ UNCHANGED command

RequestDies(r) ==
  /\ request[r].pc # "idle"
  /\ Finish(r)
  /\ UNCHANGED <<user, command, bootstrapped>>

-----------------------------------------------------------------------------
(* Registration and the operator commands.                                 *)

\* No id is given twice; here, not while a request knows it.
Fresh(u) ==
  /\ ~user[u].present
  /\ \A r \in Requests : u # request[r].target /\ u \notin request[r].candidates

\* An INSERT.
InsertUser(u, admin) ==
  /\ Fresh(u)
  /\ user' = [user EXCEPT ![u] = NewUser(admin)]
  /\ UNCHANGED <<request, command, bootstrapped>>

\* POST /auth/register, where registration is allowed.
Register(u) == InsertUser(u, FALSE)

\* POST /users and /users/key, of either role.
CreateUser(u, admin) == ByAdmin /\ InsertUser(u, admin)

\* `users create` and `users create-key`, which need nobody's permission.
CreateByCommand(u, admin) == InsertUser(u, admin)

\* promote-user: one UPDATE of an active user, which waits for the row.
Promote(u) ==
  /\ user[u].present /\ user[u].enabled /\ ~user[u].admin
  /\ ~RowLocked(u, Requests)
  /\ user' = [user EXCEPT ![u].admin = TRUE]
  /\ UNCHANGED <<request, command, bootstrapped>>

\* Mutant: no advisory lock.
BeginBootstrapUnlocked(k) ==
  /\ command[k] = "idle"
  /\ command' = [command EXCEPT ![k] = "locked"]
  /\ UNCHANGED <<user, request, bootstrapped>>

\* bootstrap-admin: the advisory lock, ...
BeginBootstrap(k) ==
  /\ command[k] = "idle"
  /\ \A j \in Commands : command[j] = "idle"
  /\ command' = [command EXCEPT ![k] = "locked"]
  /\ UNCHANGED <<user, request, bootstrapped>>

\* ... the count, which refuses an instance that has an administrator, ...
CountForBootstrap(k) ==
  /\ command[k] = "locked"
  /\ command' = [command EXCEPT ![k] = IF \E u \in Users : ActiveAdmin(u)
                                         THEN "idle" ELSE "counted"]
  /\ UNCHANGED <<user, request, bootstrapped>>

\* ... and the INSERT.
InsertAdmin(k) ==
  /\ command[k] = "counted"
  /\ \E u \in Users :
       /\ Fresh(u)
       /\ user' = [user EXCEPT ![u] = NewUser(TRUE)]
       /\ bootstrapped' = bootstrapped \cup {u}
  /\ command' = [command EXCEPT ![k] = "idle"]
  /\ UNCHANGED request

CommandDies(k) ==
  /\ command[k] # "idle"
  /\ command' = [command EXCEPT ![k] = "idle"]
  /\ UNCHANGED <<user, request, bootstrapped>>

-----------------------------------------------------------------------------
Next ==
  \/ \E r \in Requests :
       \/ \E u \in Users, change \in Changes : ReadUser(r, u, change)
       \/ SelectAdmins(r) \/ CountAdmins(r) \/ WriteUser(r) \/ RequestDies(r)
  \/ \E u \in Users : Register(u) \/ Promote(u)
  \/ \E u \in Users, admin \in BOOLEAN : CreateUser(u, admin) \/ CreateByCommand(u, admin)
  \/ \E k \in Commands : \/ BeginBootstrap(k) \/ CountForBootstrap(k)
                         \/ InsertAdmin(k) \/ CommandDies(k)

Spec == Init /\ [][Next]_vars

-----------------------------------------------------------------------------
(* Properties.                                                             *)

SomeAdmin == \E u \in Users : ActiveAdmin(u)

\* However demotions, deactivations, deletions and promotions race, they never
\* take the last active administrator away (service.py:140).
LastAdminKept == [][SomeAdmin => SomeAdmin']_vars

\* The request did not see an active administrator in the user it was to change,
\* and so counted none.
NotSeen(q) == q.pc = "read" /\ ~RemovesAdmin(q)

\* It saw one, but the SELECT returned no administrator at all: those it had found
\* were no more when it had waited for them, and its user was one again by then.
NobodyCounted(q) == q.pc = "counted" /\ q.admins = {}

\* The last active administrator is lost, if at all, to the request that changes
\* that very user, and only to one that missed the user when it read the row or
\* all administrators when it counted: there are these two gaps and no third
\* (service.py:90, 141).
LostOnlyMissed ==
  [][SomeAdmin /\ ~SomeAdmin' =>
       \E r \in Requests :
         /\ request'[r] = IdleRequest
         /\ NotSeen(request[r]) \/ NobodyCounted(request[r])
         /\ \A u \in Users : ActiveAdmin(u) <=> u = request[r].target]_vars

\* Of two bootstrap-admin commands, the second finds the administrator the
\* first has created, as long as nobody changes it (rescue.py:132).
BootstrapOnce == Cardinality(bootstrapped) <= 1

\* What a request has counted stays true until it writes: besides the user it
\* is about to change, another active administrator remains (repository.py:70).
CountStaysTrue ==
  \A r \in Requests :
    LET q == request[r] IN
    q.pc = "counted" /\ q.target \in q.admins =>
      \E u \in q.admins \ {q.target} : ActiveAdmin(u)
=============================================================================
