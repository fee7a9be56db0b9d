------------------------------ MODULE Playlists ------------------------------
(***************************************************************************)
(* Playlists and their ordered items: the requests that create, rename,    *)
(* delete and import playlists and that add, remove and reorder items.     *)
(*                                                                         *)
(* Every request is a PostgreSQL transaction at READ COMMITTED, one action *)
(* per statement: a statement sees what is committed and what its own      *)
(* transaction has written.  SELECT ... FOR UPDATE on the playlist row     *)
(* keeps other requests that change the playlist waiting; it is not a      *)
(* variable, a transaction's place in its code says whether it holds it.   *)
(* Unique constraints are not deferrable: an UPDATE is tested row by row.  *)
(*                                                                         *)
(* Titles, artwork and timestamps are left out, and so are answers: a      *)
(* request that is refused or finds nothing ends like one that succeeds,   *)
(* and what a request reads back after its commit changes nothing.         *)
(* Ids come from sequences and are never used again; the model gives an id *)
(* again once nothing in the table or in a request refers to it.           *)
(***************************************************************************)
EXTENDS Integers, Sequences, SequencesExt, FiniteSets, FiniteSetsExt, Functions, TLC

CONSTANTS
  Users, Admins,
  Requests,        \* playlist requests at the same time
  By,              \* the user of each of them
  Asks,            \* the operations each of them may be
  Tracks,          \* the provider tracks that playlists refer to
  Files, Shelves,  \* what an import may ask for: one list, or several
  Catalogues,      \* what the tracks table may hold at the start
  MaxPlaylists,    \* bounds on the playlists and items at the same time
  MaxItems

Op == {"none", "add", "remove", "reorder", "rename", "drop", "create", "file", "shelf"}

ASSUME UsersAssumption == Admins \subseteq Users /\ By \in [Requests -> Users]
ASSUME AsksAssumption == Asks \in [Requests -> SUBSET (Op \ {"none"})]
ASSUME BoundsAssumption == MaxPlaylists \in Nat /\ MaxItems \in Nat
ASSUME SourcesAssumption ==
  /\ Catalogues \subseteq SUBSET Tracks /\ Files \subseteq Seq(Tracks)
  /\ Shelves \subseteq Seq(Seq(Tracks)) \ {<<>>}

VARIABLES
  users,    \* the users that are not deleted
  owner,    \* the playlists table: the owner of each playlist there is
  item,     \* the playlist_items table
  known,    \* the tracks table
  txn       \* per request: its transaction

vars == <<users, owner, item, known, txn>>

-----------------------------------------------------------------------------
PlaylistIds == 1..MaxPlaylists
ItemIds == 1..MaxItems

Row == [list : PlaylistIds, track : Tracks, pos : Int]

\* rows, gone, made and stored are what the transaction has written: items
\* inserted or updated, items deleted, playlists and tracks inserted.  todo has
\* the lists of tracks still to be inserted, pos the position read for the next.
IdleTxn == [op |-> "none", pc |-> "idle", list |-> 0, item |-> 0,
            order |-> <<>>, pos |-> 0, todo |-> <<>>,
            rows |-> <<>>, gone |-> {}, made |-> {}, stored |-> {}]

Place == {"idle", "start", "locked", "placed", "picked", "aside", "written",
          "fetch", "import", "conflict"}

TypeOK ==
  /\ users \subseteq Users
  /\ DOMAIN owner \subseteq PlaylistIds /\ \A p \in DOMAIN owner : owner[p] \in users
  /\ DOMAIN item \subseteq ItemIds
  /\ \A i \in DOMAIN item : item[i] \in Row /\ item[i].list \in DOMAIN owner
  /\ known \subseteq Tracks
  /\ \A r \in Requests :
       /\ txn[r].op \in Op /\ txn[r].pc \in Place
       /\ txn[r].list \in PlaylistIds \cup {0} /\ txn[r].item \in ItemIds \cup {0}
       /\ txn[r].order \in Seq(ItemIds)
       /\ txn[r].pos \in Nat /\ txn[r].todo \in Seq(Seq(Tracks))
       /\ \A i \in DOMAIN txn[r].rows : i \in ItemIds /\ txn[r].rows[i] \in Row
       /\ txn[r].gone \subseteq ItemIds /\ txn[r].made \subseteq PlaylistIds
       /\ txn[r].stored \subseteq Tracks

\* No playlists yet.
Init ==
  /\ users = Users
  /\ owner = <<>> /\ item = <<>>
  /\ known \in Catalogues
  /\ txn = [r \in Requests |-> IdleTxn]

-----------------------------------------------------------------------------
(* Transactions.                                                           *)

Holds(r, p) ==
  /\ txn[r].list = p /\ txn[r].op \notin {"create", "file", "shelf"}
  /\ txn[r].pc \in {"locked", "placed", "picked", "aside", "written", "conflict"}

Free(p) == \A q \in Requests : ~Holds(q, p)

\* The items a statement of r sees.
Seen(r) ==
  [i \in (DOMAIN item \cup DOMAIN txn[r].rows) \ txn[r].gone |->
     IF i \in DOMAIN txn[r].rows THEN txn[r].rows[i] ELSE item[i]]

SeenIn(r, p) == {i \in DOMAIN Seen(r) : Seen(r)[i].list = p}

\* ORDER BY position.
ByPosition(rows, ids) ==
  [k \in 1 .. Cardinality(ids) |->
     CHOOSE i \in ids : Cardinality({j \in ids : rows[j].pos < rows[i].pos}) = k - 1]

\* coalesce(max(position), -1) + 1.
NextPosition(r, p) == Max({Seen(r)[i].pos : i \in SeenIn(r, p)} \cup {-1}) + 1

Access(r, p) == owner[p] = By[r] \/ By[r] \in Admins

Update(r, t) == txn' = [txn EXCEPT ![r] = t]
Goto(r, pc) == txn' = [txn EXCEPT ![r].pc = pc]
End(r) == Update(r, IdleTxn)

NextTrack(r) == txn[r].todo[1][1]

FreeItems ==
  ItemIds \ (DOMAIN item \cup
             UNION {DOMAIN txn[q].rows \cup ToSet(txn[q].order) \cup {txn[q].item} : q \in Requests})

FreePlaylists ==
  PlaylistIds \ (DOMAIN owner \cup UNION {txn[q].made \cup {txn[q].list} : q \in Requests})

\* Rows that are written again replace those there were.
Over(new, old) ==
  [i \in DOMAIN new \cup DOMAIN old |-> IF i \in DOMAIN new THEN new[i] ELSE old[i]]

\* INSERT of an item, with a new id.
Inserted(r, p, t, pos) ==
  Over([i \in {Min(FreeItems)} |-> [list |-> p, track |-> t, pos |-> pos]], txn[r].rows)

Idle(r) == txn[r].pc = "idle" /\ By[r] \in users

-----------------------------------------------------------------------------
(* Requests that change one playlist.                                      *)

\* get_by_id(for_update) waits for the row and reads it again; then
\* _ensure_access.  A request for a playlist that is gone or is somebody
\* else's is refused here: 404, and nothing has changed.
Lock(r, p, t) ==
  /\ Idle(r) /\ t.op \in Asks[r]
  /\ Free(p) /\ p \in DOMAIN owner /\ Access(r, p)
  /\ Update(r, [t EXCEPT !.list = p])
  /\ UNCHANGED <<users, owner, item, known>>

ItemsOf(p) == {i \in DOMAIN item : item[i].list = p}

\* The pages the requests come from may be out of date, but an unknown track,
\* an item of another playlist, or an order that does not name exactly the items
\* there are is refused under the lock as well.
LockForAdd(r, p) ==
  \E t \in known : Lock(r, p, [IdleTxn EXCEPT !.op = "add", !.pc = "locked", !.todo = <<<<t>>>>])

LockForRemove(r, p) ==
  \E i \in ItemsOf(p) : Lock(r, p, [IdleTxn EXCEPT !.op = "remove", !.pc = "locked", !.item = i])

LockForReorder(r, p) ==
  \E ids \in SetToSeqs(ItemsOf(p)) \ {<<>>} :
    Lock(r, p, [IdleTxn EXCEPT !.op = "reorder", !.pc = "picked", !.order = ids])

\* update_playlist and delete_playlist, up to the statement that writes, which
\* only the commit makes visible.
LockForOther(r, p) ==
  \E op \in {"rename", "drop"} : Lock(r, p, [IdleTxn EXCEPT !.op = op, !.pc = "written"])

\* add_item: max(position) + 1.
ReadPosition(r) ==
  /\ txn[r].pc = "locked" /\ txn[r].op = "add"
  /\ Update(r, [txn[r] EXCEPT !.pc = "placed", !.pos = NextPosition(r, txn[r].list)])
  /\ UNCHANGED <<users, owner, item, known>>

\* The INSERT is tested against the unique constraint.
InsertItem(r) ==
  LET p == txn[r].list
      pos == txn[r].pos IN
  /\ txn[r].pc = "placed" /\ FreeItems # {}
  /\ IF \E i \in SeenIn(r, p) : Seen(r)[i].pos = pos
       THEN Goto(r, "conflict")
       ELSE Update(r, [txn[r] EXCEPT !.pc = "written", !.todo = <<>>, !.pos = 0,
                                     !.rows = Inserted(r, p, NextTrack(r), pos)])
  /\ UNCHANGED <<users, owner, item, known>>

\* Mutant: the rest is read without ORDER BY.
RestById(r) == SetToSortSeq(SeenIn(r, txn[r].list) \ {txn[r].item}, LAMBDA i, j : i > j)

\* item_ids, after the item is deleted.
Remaining(r) == ByPosition(Seen(r), SeenIn(r, txn[r].list) \ {txn[r].item})

\* Mutant: what is left is not renumbered.
DeleteItemOnly(r) ==
  /\ txn[r].pc = "locked" /\ txn[r].op = "remove"
  /\ Update(r, [txn[r] EXCEPT !.gone = {txn[r].item}, !.pc = "written"])
  /\ UNCHANGED <<users, owner, item, known>>

\* delete_item: the DELETE of the item and the order of what is left; nothing
\* to renumber if that is nothing.
DeleteItem(r) ==
  /\ txn[r].pc = "locked" /\ txn[r].op = "remove"
  /\ Update(r, [txn[r] EXCEPT !.gone = {txn[r].item}, !.order = Remaining(r),
                              !.pc = IF Remaining(r) = <<>> THEN "written" ELSE "picked"])
  /\ UNCHANGED <<users, owner, item, known>>

Ordered(r) == ToSet(txn[r].order) \cap SeenIn(r, txn[r].list)

\* An UPDATE moves items to new positions.  It fails when two would have the
\* same one, and may fail when one would pass through the position of another.
Move(r, pos, pc) ==
  LET rows == Seen(r)
      moved == DOMAIN pos
      kept == SeenIn(r, txn[r].list) \ moved
      clash == \/ \E i, j \in moved : i # j /\ pos[i] = pos[j]
               \/ \E i \in moved, j \in kept : pos[i] = rows[j].pos
      passing == \E i, j \in moved : i # j /\ pos[i] = rows[j].pos IN
  \/ /\ ~clash
     /\ Update(r, [txn[r] EXCEPT !.pc = pc,
                     !.rows = Over([i \in moved |-> [rows[i] EXCEPT !.pos = pos[i]]], @)])
  \/ /\ clash \/ passing
     /\ Goto(r, "conflict")

\* Mutant: position 0 is not moved.
AsideFromOne(pos) == - pos

Aside(pos) == - pos - 1

\* reorder: first every item to a range of its own, ...
MoveAside(r) ==
  /\ txn[r].pc = "picked"
  /\ Move(r, [i \in Ordered(r) |-> Aside(Seen(r)[i].pos)], "aside")
  /\ UNCHANGED <<users, owner, item, known>>

PlaceIn(order, i) == CHOOSE k \in DOMAIN order : order[k] = i

\* ... then to its place in the order.
MoveBack(r) ==
  /\ txn[r].pc = "aside"
  /\ Move(r, [i \in Ordered(r) |-> PlaceIn(txn[r].order, i) - 1], "written")
  /\ UNCHANGED <<users, owner, item, known>>

-----------------------------------------------------------------------------
(* Requests that make playlists.                                           *)

Begin(r, t) ==
  /\ Idle(r) /\ t.op \in Asks[r]
  /\ Update(r, t)
  /\ UNCHANGED <<users, owner, item, known>>

BeginCreate(r) == Begin(r, [IdleTxn EXCEPT !.op = "create", !.pc = "start"])

BeginFile(r, ts) == Begin(r, [IdleTxn EXCEPT !.op = "file", !.pc = "start", !.todo = <<ts>>])

BeginShelf(r, tss) == Begin(r, [IdleTxn EXCEPT !.op = "shelf", !.pc = "fetch", !.todo = tss])

\* import_yandex asks the provider for the next playlist, inside its
\* transaction; a failure is answered after a rollback.
Fetch(r) ==
  /\ txn[r].pc = "fetch"
  /\ Goto(r, "start") \/ End(r)
  /\ UNCHANGED <<users, owner, item, known>>

\* The INSERT of a playlist, which fails when its user has been deleted.
InsertPlaylist(r) ==
  LET p == Min(FreePlaylists) IN
  /\ txn[r].op \in {"create", "file", "shelf"} /\ txn[r].pc = "start"
  /\ FreePlaylists # {}
  /\ IF By[r] \notin users
       THEN Goto(r, "conflict")
       ELSE Update(r, [txn[r] EXCEPT !.pc = IF txn[r].op = "create" THEN "written" ELSE "import",
                                     !.list = p, !.made = @ \cup {p}])
  /\ UNCHANGED <<users, owner, item, known>>

\* INSERT ... ON CONFLICT DO NOTHING waits for a transaction that has inserted
\* the same track and not ended.
Pending(r, t) == t \notin known \cup txn[r].stored
                 /\ \E q \in Requests \ {r} : t \in txn[q].stored

\* Mutant: a track that is left out stays at the head of the list.
RestWithHead(r) == txn[r].todo

Rest(r) == <<Tail(txn[r].todo[1])>> \o Tail(txn[r].todo)

\* In seen, or found in the playlist by the SELECT.
AlreadyIn(r, t) == \E i \in SeenIn(r, txn[r].list) : Seen(r)[i].track = t

\* import_tracks, one turn of its loop.
ImportTrack(r) ==
  LET t == NextTrack(r)
      pos == NextPosition(r, txn[r].list) IN
  /\ txn[r].pc = "import" /\ txn[r].todo[1] # <<>>
  /\ ~Pending(r, t)
  /\ IF AlreadyIn(r, t)
       THEN Update(r, [txn[r] EXCEPT !.todo = Rest(r)])
       ELSE /\ FreeItems # {}
            /\ Update(r, [txn[r] EXCEPT !.todo = Rest(r), !.stored = @ \cup ({t} \ known),
                                        !.rows = Inserted(r, txn[r].list, t, pos)])
  /\ UNCHANGED <<users, owner, item, known>>

\* The list is done; a shelf may have another one.
ImportedList(r) ==
  /\ txn[r].pc = "import" /\ txn[r].todo[1] = <<>>
  /\ Update(r, [txn[r] EXCEPT !.todo = Tail(@),
                              !.pc = IF Len(txn[r].todo) > 1 THEN "fetch" ELSE "written"])
  /\ UNCHANGED <<users, owner, item, known>>

-----------------------------------------------------------------------------
(* The ends of a transaction.                                              *)

\* Mutant: no ON DELETE CASCADE.
WithoutCascade(rows, lists) == rows

Without(rows, lists) == Restrict(rows, {i \in DOMAIN rows : rows[i].list \notin lists})

\* COMMIT.  A deleted playlist takes its items with it (ON DELETE CASCADE).
Commit(r) ==
  LET dropped == IF txn[r].op = "drop" THEN {txn[r].list} ELSE {} IN
  /\ txn[r].pc = "written"
  /\ owner' = [p \in (DOMAIN owner \ dropped) \cup txn[r].made |->
                 IF p \in txn[r].made THEN By[r] ELSE owner[p]]
  /\ item' = Without(Seen(r), dropped)
  /\ known' = known \cup txn[r].stored
  /\ End(r)
  /\ UNCHANGED users

\* IntegrityError: rollback.
Conflict(r) ==
  /\ txn[r].pc = "conflict"
  /\ End(r)
  /\ UNCHANGED <<users, owner, item, known>>

\* A lost connection, a cancelled request, an error.
RequestDies(r) ==
  /\ txn[r].pc # "idle"
  /\ End(r)
  /\ UNCHANGED <<users, owner, item, known>>

\* The bounds: a request that would need one more id is given up.
Full(r) ==
  /\ \/ txn[r].pc = "placed" /\ FreeItems = {}
     \/ txn[r].pc = "import" /\ txn[r].todo[1] # <<>> /\ FreeItems = {}
     \/ txn[r].pc = "start" /\ txn[r].op \in {"create", "file", "shelf"} /\ FreePlaylists = {}
  /\ End(r)
  /\ UNCHANGED <<users, owner, item, known>>

WaitsFor(r, q) ==
  /\ txn[r].pc = "import" /\ txn[r].todo[1] # <<>>
  /\ NextTrack(r) \notin known \cup txn[r].stored
  /\ NextTrack(r) \in txn[q].stored

\* Two imports that insert the same tracks in different orders: PostgreSQL
\* aborts one of them.
BreakDeadlock(r, q) ==
  /\ r # q /\ WaitsFor(r, q) /\ WaitsFor(q, r)
  /\ End(r)
  /\ UNCHANGED <<users, owner, item, known>>

\* DELETE of a user waits for the locks on the user's playlists and for inserts
\* that refer to the user, and cascades.  An administrator stays: UserAdmin.
DeleteUser(u) ==
  LET lists == {p \in DOMAIN owner : owner[p] = u} IN
  /\ u \in users \ Admins
  /\ \A p \in lists : Free(p)
  /\ \A r \in Requests : By[r] = u => txn[r].made = {}
  /\ users' = users \ {u}
  /\ owner' = [p \in DOMAIN owner \ lists |-> owner[p]]
  /\ item' = Without(item, lists)
  /\ UNCHANGED <<known, txn>>

-----------------------------------------------------------------------------
RequestBegins(r) ==
  \/ \E p \in DOMAIN owner :
       LockForAdd(r, p) \/ LockForRemove(r, p) \/ LockForReorder(r, p) \/ LockForOther(r, p)
  \/ BeginCreate(r)
  \/ \E ts \in Files : BeginFile(r, ts)
  \/ \E tss \in Shelves : BeginShelf(r, tss)

RequestStep(r) ==
  \/ ReadPosition(r) \/ InsertItem(r) \/ DeleteItem(r)
  \/ MoveAside(r) \/ MoveBack(r)
  \/ Fetch(r) \/ InsertPlaylist(r) \/ ImportTrack(r) \/ ImportedList(r)
  \/ Commit(r) \/ Conflict(r) \/ Full(r)

Next ==
  \/ \E r \in Requests : RequestBegins(r) \/ RequestStep(r) \/ RequestDies(r)
  \/ \E r, q \in Requests : BreakDeadlock(r, q)
  \/ \E u \in Users : DeleteUser(u)

Spec == Init /\ [][Next]_vars

-----------------------------------------------------------------------------
(* A transaction that can go on does; locks are first in first out, hence  *)
(* strong fairness; a deadlock is broken.                                  *)
Fairness ==
  /\ \A r \in Requests : SF_vars(RequestStep(r))
  /\ WF_vars(\E r, q \in Requests : BreakDeadlock(r, q))

FairSpec == Spec /\ Fairness

-----------------------------------------------------------------------------
(* Properties.                                                             *)

\* The items of a playlist have the positions 0, 1, 2, ... without gaps
\* whenever no transaction is looking, whatever is added, removed, reordered
\* and deleted side by side (repository.py:54, 106; service.py:111).
PositionsContiguous ==
  \A p \in DOMAIN owner :
    LET mine == {i \in DOMAIN item : item[i].list = p} IN
    {item[i].pos : i \in mine} = 0 .. Cardinality(mine) - 1

\* No request on items ever meets the unique constraint on positions: it never
\* ends as a conflict (409), although rows are tested one by one while they
\* are swapped and renumbered (repository.py:117).
NoItemConflict ==
  \A r \in Requests : txn[r].pc = "conflict" => txn[r].op \in {"create", "file", "shelf"}

\* The sequence every playlist shows.
Shown ==
  [p \in DOMAIN owner |->
     LET s == ByPosition(item, {i \in DOMAIN item : item[i].list = p}) IN
     [k \in DOMAIN s |-> [id |-> s[k], track |-> item[s[k]].track]]]

Order == INSTANCE PlaylistOrder WITH lists <- Shown

\* Every request changes playlists in one step, as the abstract specification
\* says: a removal keeps the order of the rest, an import appears complete and
\* without repetitions or not at all.
ImplementsOrder == Order!Spec

\* Every request that has begun ends, also two imports that wait for each
\* other's tracks.
RequestsEnd == \A r \in Requests : txn[r].pc # "idle" ~> txn[r].pc = "idle"
=============================================================================
