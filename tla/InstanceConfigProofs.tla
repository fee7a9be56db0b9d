------------------------ MODULE InstanceConfigProofs ------------------------
(***************************************************************************)
(* How stale a snapshot can be, that a process never goes back to older    *)
(* settings, and what a save replaces, for any number of processes,        *)
(* readers, administrators, imports and commits and every time to live.    *)
(***************************************************************************)
EXTENDS InstanceConfig, TLAPS

-----------------------------------------------------------------------------
(* The inductive invariant.                                                *)

\* What was read, and how long ago the read began: it was replaced later.
SnapshotsDated ==
  /\ \A i \in Places : i >= Now => gone[i] = 0
  /\ \A r \in Readers : reader[r].pc = "row" => gone[reader[r].row] <= reader[r].age
  /\ \A p \in Processes : cache[p].row # 0 =>
       gone[cache[p].row] <= cache[p].age /\ gone[cache[p].secrets] <= cache[p].age

\* The lock of the cache.
OneReaderEach ==
  \A r, q \in Readers :
    reader[r].pc # "idle" /\ reader[q].pc # "idle" /\ Home[r] = Home[q] => r = q

\* What a process has had, what it is reading and what it keeps, in order.
RowsInOrder ==
  /\ \A p \in Processes : served[p] <= Now /\ (cache[p].row # 0 => served[p] <= cache[p].row)
  /\ \A r \in Readers : reader[r].pc = "row" =>
       served[Home[r]] <= reader[r].row /\ reader[r].row <= Now

\* No commit has a version above its place.
VersionsBounded ==
  /\ \A i \in 1..Now : history[i].version <= i
  /\ \A i \in Importers : importer[i] <= Now

\* An import after b has set the version back to that of b, or behind it.
SetBack(b) ==
  \E j \in b + 1 .. Now : history[j].by = "import" /\ history[j].version <= history[b].version

\* Without an import, the version only grows.
VersionsGrow == \A b \in 1..Now : b = Now \/ Current.version > history[b].version \/ SetBack(b)

\* While the configuration is the one a page was loaded with, the credentials
\* are the ones its save was checked against.
PagesChecked ==
  \A e \in Editors : LET q == editor[e] IN
    /\ q.base <= Now
    /\ q.pc = "valid" =>
         /\ q.on => Provided(q.change, q.existing)
         /\ q.base = Now => q.existing = secret

\* Every save has a base that was committed before it.
BasesBefore == \A i \in 1..Now : history[i].by = "update" => history[i].base \in 1..(i - 1)

ConfigInv ==
  /\ TypeOK /\ SnapshotsDated /\ OneReaderEach /\ RowsInOrder
  /\ VersionsBounded /\ VersionsGrow /\ PagesChecked /\ BasesBefore
  /\ NoLostUpdate /\ CredentialsPresent

-----------------------------------------------------------------------------
(* Types.                                                                  *)

LEMMA PlaceFacts ==
  /\ Places = Versions /\ Places \subseteq Nat /\ 0 \notin Places /\ 1 \in Places
  /\ 0..TTL \subseteq Nat /\ 0 \in 0..TTL
  BY BoundsAssumption DEF Places, Versions

LEMMA ReaderFields ==
  ASSUME NEW q \in Reader
  PROVE  /\ q.pc \in {"idle", "locked", "row"} /\ q.age \in 0..TTL
         /\ q.pc = "row" => q.row \in Places
         /\ q.pc = "locked" => q.row = 0
         /\ q.pc = "idle" => q = IdleReader
<1>1. \/ q = IdleReader \/ q \in [pc : {"locked"}, row : {0}, age : 0..TTL]
      \/ q \in [pc : {"row"}, row : Places, age : 0..TTL]
  BY DEF Reader
<1>2. CASE q = IdleReader
  BY <1>2, PlaceFacts DEF IdleReader
<1>3. CASE q \in [pc : {"locked"}, row : {0}, age : 0..TTL]
  BY <1>3
<1>4. CASE q \in [pc : {"row"}, row : Places, age : 0..TTL]
  BY <1>4
<1>. QED  BY <1>1, <1>2, <1>3, <1>4

LEMMA CacheFields ==
  ASSUME NEW x \in Snapshot \cup {NoSnapshot}
  PROVE  /\ x.age \in 0..TTL
         /\ x.row = 0 <=> x = NoSnapshot
         /\ x.row # 0 => x \in Snapshot /\ x.row \in Places /\ x.secrets \in Places
<1>1. CASE x = NoSnapshot
  BY <1>1, PlaceFacts DEF NoSnapshot
<1>2. CASE x \in Snapshot
  BY <1>2, PlaceFacts DEF Snapshot, NoSnapshot
<1>. QED  BY <1>1, <1>2

Page == [pc : {"open", "checked", "valid", "committed"}, base : Places, on : BOOLEAN,
         change : SecretChange, existing : BOOLEAN]

LEMMA EditorFields ==
  ASSUME NEW q \in Editor
  PROVE  /\ q.pc \in {"idle", "open", "checked", "valid", "committed"}
         /\ q.pc # "idle" => q \in Page
         /\ q.base \in Places \cup {0} /\ (q.pc # "idle" => q.base \in Places)
         /\ q.on \in BOOLEAN /\ q.existing \in BOOLEAN /\ q.change \in SecretChange
<1>1. q = IdleEditor \/ q \in Page
  BY DEF Editor, Page
<1>2. CASE q = IdleEditor
  BY <1>2 DEF IdleEditor, SecretChange
<1>3. CASE q \in Page
  BY <1>3 DEF Page
<1>. QED  BY <1>1, <1>2, <1>3

LEMMA HistoryFacts ==
  ASSUME TypeOK
  PROVE  /\ Now \in Places /\ Now \in Nat /\ Now >= 1
         /\ \A i \in 1..Now : /\ i \in Places /\ i \in Nat /\ history[i] \in Config
                              /\ history[i].version \in Versions /\ history[i].version \in Nat
                              /\ history[i].by \in Author
                              /\ history[i].base \in Places \cup {0}
         /\ Current = history[Now] /\ Now \in 1..Now
<1>1. Now \in Places /\ Now \in Nat /\ Now >= 1
  BY DEF TypeOK, Now, Places
<1>2. \A i \in 1..Now : history[i] \in Config
  BY DEF TypeOK, Now
<1>3. \A i \in 1..Now : i \in Places /\ i \in Nat
  BY <1>1, BoundsAssumption DEF Places
<1>4. \A x \in Config : /\ x.version \in Versions /\ x.version \in Nat /\ x.by \in Author
                        /\ x.base \in Places \cup {0}
  BY PlaceFacts DEF Config
<1>. QED  BY <1>1, <1>2, <1>3, <1>4 DEF Current

\* A commit appends to the history and changes nothing that is in it.
LEMMA Appended ==
  ASSUME TypeOK, NEW on \in BOOLEAN, NEW stored \in BOOLEAN, NEW version \in Versions,
         NEW by \in Author, NEW base \in Places \cup {0},
         Committed(on, stored, version, by, base)
  PROVE  /\ history' \in Seq(Config) /\ Now' = Now + 1 /\ Now' \in Places
         /\ \A i \in 1..Now : history'[i] = history[i]
         /\ history'[Now'].version = version /\ history'[Now'].by = by
         /\ history'[Now'].base = base /\ history'[Now'].bare = (on /\ ~stored)
         /\ secret' = stored
<1> DEFINE c == [version |-> version, bare |-> on /\ ~stored, by |-> by, base |-> base]
<1>1. /\ c \in Config /\ c.version = version /\ c.by = by /\ c.base = base
      /\ c.bare = (on /\ ~stored)
  BY DEF Config
<1>2. history' = Append(history, c) /\ Now <= MaxCommits /\ secret' = stored
  BY DEF Committed
<1> HIDE DEF c
<1>3. /\ history' \in Seq(Config) /\ Len(history') = Len(history) + 1
      /\ \A i \in 1..Len(history) : history'[i] = history[i]
      /\ history'[Len(history) + 1] = c
  BY <1>1, <1>2 DEF TypeOK
<1>4. Now + 1 \in Places
  BY <1>2, HistoryFacts, BoundsAssumption DEF Places
<1>. QED  BY <1>1, <1>2, <1>3, <1>4 DEF Now

LEMMA IdleFits ==
  /\ IdleReader \in Reader /\ IdleReader.pc = "idle"
  /\ IdleEditor \in Editor /\ IdleEditor.pc = "idle" /\ IdleEditor.base = 0
  /\ NoSnapshot \in Snapshot \cup {NoSnapshot} /\ NoSnapshot.row = 0
  BY DEF Reader, IdleReader, Editor, IdleEditor, NoSnapshot

\* One tick is added to both sides of a comparison.
LEMMA OlderMonotone ==
  ASSUME NEW a \in 0..TTL, NEW b \in 0..TTL, a <= b
  PROVE  Older(a) \in 0..TTL /\ Older(a) <= Older(b)
  BY BoundsAssumption DEF Older

-----------------------------------------------------------------------------
(* get_snapshot: the steps of a reader.                                    *)

\* What a reader's step leaves alone.
HistoryStays == UNCHANGED <<history, secret, gone, editor, importer>>

\* The part of the invariant that no step of a reader, and no tick, touches.
HistoryInv ==
  /\ VersionsBounded /\ VersionsGrow /\ PagesChecked /\ BasesBefore
  /\ NoLostUpdate /\ CredentialsPresent

ReadingInv == SnapshotsDated /\ OneReaderEach /\ RowsInOrder

LEMMA ConfigParts == ConfigInv <=> TypeOK /\ HistoryInv /\ ReadingInv
  BY DEF ConfigInv, HistoryInv, ReadingInv

LEMMA HistoryKept ==
  ASSUME HistoryInv, UNCHANGED <<history, secret, editor, importer>>
  PROVE  HistoryInv'
<1>1. VersionsBounded' /\ BasesBefore'
  BY DEF HistoryInv, VersionsBounded, BasesBefore, Now
<1>2. VersionsGrow'
  BY DEF HistoryInv, VersionsGrow, SetBack, Current, Now
<1>3. PagesChecked'
  BY DEF HistoryInv, PagesChecked, Now
<1>4. NoLostUpdate' /\ CredentialsPresent'
  BY DEF HistoryInv, NoLostUpdate, CredentialsPresent, Overtaken, Now
<1>. QED  BY <1>1, <1>2, <1>3, <1>4 DEF HistoryInv

\* One reader moves; it is not idle only if no other of its process is.
LEMMA ReaderMoves ==
  ASSUME TypeOK, HistoryInv, ReadingInv, NEW r \in Readers, NEW q \in Reader,
         reader' = [reader EXCEPT ![r] = q], UNCHANGED <<cache, served>>, HistoryStays,
         q.pc # "idle" => \A p \in Readers \ {r} : Home[p] = Home[r] => reader[p].pc = "idle",
         q.pc = "row" => gone[q.row] <= q.age /\ served[Home[r]] <= q.row /\ q.row <= Now
  PROVE  TypeOK' /\ HistoryInv' /\ ReadingInv'
<1>1. reader'[r] = q /\ \A p \in Readers \ {r} : reader'[p] = reader[p]
  BY DEF TypeOK
<1>2. TypeOK'
  BY DEF TypeOK, HistoryStays
<1>3. HistoryInv'
  BY HistoryKept DEF HistoryStays
<1>4. UNCHANGED <<Now, gone, cache, served>>
  BY DEF HistoryStays, Now
<1>5. SnapshotsDated'
  BY <1>1, <1>4 DEF ReadingInv, SnapshotsDated
<1>6. OneReaderEach'
  BY <1>1 DEF ReadingInv, OneReaderEach
<1>7. RowsInOrder'
  BY <1>1, <1>4 DEF ReadingInv, RowsInOrder
<1>. QED  BY <1>2, <1>3, <1>5, <1>6, <1>7 DEF ReadingInv

LEMMA BeginKeeps ==
  ASSUME TypeOK, HistoryInv, ReadingInv, NEW r \in Readers, Begin(r)
  PROVE  TypeOK' /\ HistoryInv' /\ ReadingInv'
<1> DEFINE q == [pc |-> "locked", row |-> 0, age |-> 0]
<1>1. q \in Reader /\ q.pc = "locked"
  BY PlaceFacts DEF Reader
<1>2. reader' = [reader EXCEPT ![r] = q] /\ HistoryStays /\ UNCHANGED <<cache, served>>
  BY DEF Begin, HistoryStays
<1> HIDE DEF q
<1>3. \A p \in Readers \ {r} : Home[p] = Home[r] => reader[p].pc = "idle"
  BY DEF Begin
<1>. QED  BY <1>1, <1>2, <1>3, ReaderMoves

LEMMA ReadRowKeeps ==
  ASSUME TypeOK, HistoryInv, ReadingInv, NEW r \in Readers, ReadRow(r)
  PROVE  TypeOK' /\ HistoryInv' /\ ReadingInv'
<1> DEFINE q == [reader[r] EXCEPT !.pc = "row", !.row = Now]
<1>1. reader[r] \in Reader /\ reader[r].pc = "locked" /\ reader[r].age \in 0..TTL
  BY ReaderFields DEF TypeOK, ReadRow
<1>2. reader[r] \in [pc : {"locked"}, row : {0}, age : 0..TTL]
  BY <1>1 DEF Reader, IdleReader
<1>3. Now \in Places
  BY HistoryFacts
<1>4. q \in Reader /\ q.pc = "row" /\ q.row = Now /\ q.age = reader[r].age
  BY <1>2, <1>3 DEF Reader
<1>5. reader' = [reader EXCEPT ![r] = q] /\ HistoryStays /\ UNCHANGED <<cache, served>>
  BY DEF ReadRow, HistoryStays, TypeOK
<1> HIDE DEF q
<1>6. \A p \in Readers \ {r} : Home[p] = Home[r] => reader[p].pc = "idle"
  BY <1>1 DEF ReadingInv, OneReaderEach
<1>7. gone[Now] <= q.age /\ served[Home[r]] <= Now /\ Now <= Now
  <2>1. gone[Now] = 0
    BY HistoryFacts DEF ReadingInv, SnapshotsDated
  <2>2. Home[r] \in Processes
    BY HomeAssumption
  <2>. QED  BY <1>1, <1>4, <2>1, <2>2, PlaceFacts, HistoryFacts DEF ReadingInv, RowsInOrder
<1>. QED  BY <1>4, <1>5, <1>6, <1>7, ReaderMoves

LEMMA ReadFailsKeeps ==
  ASSUME TypeOK, HistoryInv, ReadingInv, NEW r \in Readers, ReadFails(r)
  PROVE  TypeOK' /\ HistoryInv' /\ ReadingInv'
<1>1. /\ reader' = [reader EXCEPT ![r] = IdleReader]
      /\ HistoryStays /\ UNCHANGED <<cache, served>>
  BY DEF ReadFails, HistoryStays
<1>. QED  BY <1>1, IdleFits, ReaderMoves

LEMMA InstallKeeps ==
  ASSUME TypeOK, HistoryInv, ReadingInv, NEW r \in Readers, InstallSnapshot(r)
  PROVE  TypeOK' /\ HistoryInv' /\ ReadingInv'
<1> DEFINE p == Home[r]
           x == [row |-> reader[r].row, secrets |-> Now, age |-> reader[r].age]
<1>1. /\ p \in Processes /\ reader[r] \in Reader /\ reader[r].pc = "row"
      /\ reader[r].age \in 0..TTL /\ reader[r].row \in Places
  BY HomeAssumption, ReaderFields DEF TypeOK, InstallSnapshot
<1>2. /\ x \in Snapshot /\ x.row = reader[r].row /\ x.secrets = Now /\ x.age = reader[r].age
  BY <1>1, HistoryFacts DEF Snapshot
<1>3. /\ cache' = [cache EXCEPT ![p] = x] /\ served' = [served EXCEPT ![p] = reader[r].row]
      /\ reader' = [reader EXCEPT ![r] = IdleReader] /\ HistoryStays
  BY DEF InstallSnapshot, Installed, HistoryStays
<1> HIDE DEF x
<1>4. TypeOK'
  BY <1>1, <1>2, <1>3, IdleFits DEF TypeOK, HistoryStays
<1>5. HistoryInv'
  BY <1>3, HistoryKept DEF HistoryStays
<1>6. /\ cache'[p] = x /\ \A u \in Processes \ {p} : cache'[u] = cache[u]
      /\ served'[p] = reader[r].row /\ \A u \in Processes \ {p} : served'[u] = served[u]
      /\ reader'[r] = IdleReader /\ \A u \in Readers \ {r} : reader'[u] = reader[u]
  BY <1>1, <1>3 DEF TypeOK
<1>7. UNCHANGED <<Now, gone>>
  BY <1>3 DEF HistoryStays, Now
<1>8. gone[Now] = 0 /\ gone[reader[r].row] <= reader[r].age
  BY <1>1, HistoryFacts DEF ReadingInv, SnapshotsDated
<1>9. SnapshotsDated'
  <2>1. \A u \in Readers : reader'[u].pc = "row" => gone[reader'[u].row] <= reader'[u].age
    BY <1>6, IdleFits DEF ReadingInv, SnapshotsDated
  <2>2. \A u \in Processes : cache'[u].row # 0 =>
          gone[cache'[u].row] <= cache'[u].age /\ gone[cache'[u].secrets] <= cache'[u].age
    BY <1>1, <1>2, <1>6, <1>8, PlaceFacts DEF ReadingInv, SnapshotsDated
  <2>. QED  BY <1>7, <2>1, <2>2 DEF ReadingInv, SnapshotsDated
<1>10. \A u \in Readers \ {r} : Home[u] = p => reader[u].pc = "idle"
  BY <1>1 DEF ReadingInv, OneReaderEach
<1>11. OneReaderEach'
  BY <1>6, IdleFits DEF ReadingInv, OneReaderEach
<1>12. RowsInOrder'
  <2>1. \A u \in Processes : served'[u] <= Now /\ (cache'[u].row # 0 => served'[u] <= cache'[u].row)
    <3>1. reader[r].row <= Now /\ reader[r].row <= reader[r].row
      BY <1>1, PlaceFacts DEF ReadingInv, RowsInOrder
    <3>. QED  BY <1>2, <1>6, <3>1 DEF ReadingInv, RowsInOrder
  <2>2. \A u \in Readers : reader'[u].pc = "row" =>
          served'[Home[u]] <= reader'[u].row /\ reader'[u].row <= Now
    <3> SUFFICES ASSUME NEW u \in Readers, reader'[u].pc = "row"
                 PROVE  served'[Home[u]] <= reader'[u].row /\ reader'[u].row <= Now
      OBVIOUS
    <3>1. u # r /\ reader'[u] = reader[u]
      BY <1>6, IdleFits
    <3>2. Home[u] # p /\ Home[u] \in Processes
      BY <1>10, <3>1, HomeAssumption
    <3>. QED  BY <1>6, <3>1, <3>2 DEF ReadingInv, RowsInOrder
  <2>. QED  BY <1>7, <2>1, <2>2 DEF RowsInOrder
<1>. QED  BY <1>4, <1>5, <1>9, <1>11, <1>12 DEF ReadingInv

LEMMA TickKeeps ==
  ASSUME TypeOK, HistoryInv, ReadingInv, Tick
  PROVE  TypeOK' /\ HistoryInv' /\ ReadingInv'
<1>1. HistoryInv' /\ UNCHANGED <<history, secret, served, editor, importer, Now>>
  BY HistoryKept DEF Tick, Now
<1>2. \A i \in Places : /\ gone[i] \in 0..TTL
                        /\ gone'[i] = IF i < Now THEN Older(gone[i]) ELSE 0
  BY DEF Tick, TypeOK
<1>3. gone' \in [Places -> 0..TTL]
  BY OlderMonotone, PlaceFacts DEF Tick, TypeOK
<1>4. \A i \in Places, a \in 0..TTL : gone[i] <= a => gone'[i] <= Older(a)
  <2> SUFFICES ASSUME NEW i \in Places, NEW a \in 0..TTL, gone[i] <= a
               PROVE  gone'[i] <= Older(a)
    OBVIOUS
  <2>1. Older(gone[i]) <= Older(a) /\ Older(a) \in 0..TTL
    BY <1>2, OlderMonotone, PlaceFacts, BoundsAssumption DEF Older
  <2>. QED  BY <1>2, <2>1, BoundsAssumption
<1>5. ASSUME NEW r \in Readers
      PROVE  /\ reader'[r] \in Reader /\ reader'[r].pc = reader[r].pc
             /\ reader'[r].row = reader[r].row
             /\ reader[r].pc # "idle" => reader'[r].age = Older(reader[r].age)
  <2>1. reader[r] \in Reader /\ reader[r].age \in 0..TTL /\ Older(reader[r].age) \in 0..TTL
    BY ReaderFields, OlderMonotone, BoundsAssumption DEF TypeOK, Older
  <2> DEFINE a == Older(reader[r].age)
  <2> HIDE DEF a
  <2>2. CASE reader[r].pc = "idle"
    BY <2>1, <2>2, IdleFits, ReaderFields DEF Tick
  <2>3. CASE reader[r] \in [pc : {"locked"}, row : {0}, age : 0..TTL]
    <3>1. reader'[r] = [reader[r] EXCEPT !.age = a]
      BY <2>3 DEF Tick, a
    <3>2. a \in 0..TTL
      BY <2>1 DEF a
    <3>. QED  BY <2>3, <3>1, <3>2 DEF Reader, a
  <2>4. CASE reader[r] \in [pc : {"row"}, row : Places, age : 0..TTL]
    <3>1. reader'[r] = [reader[r] EXCEPT !.age = a]
      BY <2>4 DEF Tick, a
    <3>2. a \in 0..TTL
      BY <2>1 DEF a
    <3>. QED  BY <2>4, <3>1, <3>2 DEF Reader, a
  <2>. QED  BY <2>1, <2>2, <2>3, <2>4, IdleFits DEF Reader
<1>6. ASSUME NEW p \in Processes
      PROVE  /\ cache'[p] \in Snapshot \cup {NoSnapshot} /\ cache'[p].row = cache[p].row
             /\ cache[p].row # 0 => /\ cache'[p].secrets = cache[p].secrets
                                    /\ cache'[p].age = Older(cache[p].age)
  <2>1. /\ cache[p] \in Snapshot \cup {NoSnapshot} /\ cache[p].age \in 0..TTL
        /\ Older(cache[p].age) \in 0..TTL
    BY CacheFields, OlderMonotone, BoundsAssumption DEF TypeOK, Older
  <2> DEFINE a == Older(cache[p].age)
  <2> HIDE DEF a
  <2>2. CASE cache[p].row = 0
    BY <2>2, IdleFits DEF Tick
  <2>3. CASE cache[p].row # 0
    <3>1. cache[p] \in Snapshot
      BY <2>1, <2>3, CacheFields
    <3>2. cache'[p] = [cache[p] EXCEPT !.age = a]
      BY <2>3 DEF Tick, a
    <3>3. a \in 0..TTL
      BY <2>1 DEF a
    <3>. QED  BY <3>1, <3>2, <3>3 DEF Snapshot, a
  <2>. QED  BY <2>2, <2>3
<1>7. TypeOK'
  <2>1. reader' \in [Readers -> Reader]
    BY <1>5 DEF Tick
  <2>2. cache' \in [Processes -> Snapshot \cup {NoSnapshot}]
    BY <1>6 DEF Tick
  <2>. QED  BY <1>1, <1>3, <2>1, <2>2 DEF TypeOK
<1>8. SnapshotsDated'
  <2>1. \A i \in Places : i >= Now => gone'[i] = 0
    BY <1>2, HistoryFacts, PlaceFacts
  <2>2. \A r \in Readers : reader'[r].pc = "row" => gone'[reader'[r].row] <= reader'[r].age
    BY <1>4, <1>5, ReaderFields DEF ReadingInv, SnapshotsDated, TypeOK
  <2>3. \A p \in Processes : cache'[p].row # 0 =>
          gone'[cache'[p].row] <= cache'[p].age /\ gone'[cache'[p].secrets] <= cache'[p].age
    BY <1>4, <1>6, CacheFields DEF ReadingInv, SnapshotsDated, TypeOK
  <2>. QED  BY <1>1, <2>1, <2>2, <2>3 DEF SnapshotsDated
<1>9. OneReaderEach'
  BY <1>5 DEF ReadingInv, OneReaderEach
<1>10. RowsInOrder'
  BY <1>1, <1>5, <1>6 DEF ReadingInv, RowsInOrder
<1>. QED  BY <1>1, <1>7, <1>8, <1>9, <1>10 DEF ReadingInv

-----------------------------------------------------------------------------
(* The settings page: the steps that commit nothing.                       *)

\* One page moves; a cache may be emptied.
LEMMA PageMoves ==
  ASSUME TypeOK, HistoryInv, ReadingInv, NEW e \in Editors, NEW q \in Editor,
         editor' = [editor EXCEPT ![e] = q],
         UNCHANGED <<history, secret, gone, served, reader, importer>>,
         cache' \in [Processes -> Snapshot \cup {NoSnapshot}],
         \A p \in Processes : cache'[p] = cache[p] \/ cache'[p] = NoSnapshot,
         q.base <= Now,
         q.pc = "valid" => /\ q.on => Provided(q.change, q.existing)
                           /\ q.existing = secret
  PROVE  TypeOK' /\ HistoryInv' /\ ReadingInv'
<1>1. editor'[e] = q /\ \A d \in Editors \ {e} : editor'[d] = editor[d]
  BY DEF TypeOK
<1>2. TypeOK'
  BY DEF TypeOK
<1>3. Now' = Now /\ \A p \in Processes : cache'[p].row # 0 => cache'[p] = cache[p]
  BY IdleFits DEF Now
<1>4. PagesChecked'
  BY <1>1, <1>3 DEF HistoryInv, PagesChecked
<1>5. VersionsBounded' /\ BasesBefore'
  BY <1>3 DEF HistoryInv, VersionsBounded, BasesBefore
<1>6. VersionsGrow'
  BY <1>3 DEF HistoryInv, VersionsGrow, SetBack, Current
<1>7. NoLostUpdate' /\ CredentialsPresent'
  BY <1>3 DEF HistoryInv, NoLostUpdate, CredentialsPresent, Overtaken
<1>8. ReadingInv'
  <2>1. SnapshotsDated'
    BY <1>3 DEF ReadingInv, SnapshotsDated
  <2>2. OneReaderEach'
    BY DEF ReadingInv, OneReaderEach
  <2>3. RowsInOrder'
    BY <1>3 DEF ReadingInv, RowsInOrder
  <2>. QED  BY <2>1, <2>2, <2>3 DEF ReadingInv
<1>. QED  BY <1>2, <1>4, <1>5, <1>6, <1>7, <1>8 DEF HistoryInv

LEMMA StageFits ==
  ASSUME NEW base \in Places, NEW pc \in {"open", "checked", "committed"}
  PROVE  LET q == [IdleEditor EXCEPT !.pc = pc, !.base = base] IN
         q \in Editor /\ q.pc = pc /\ q.base = base
  BY DEF IdleEditor, Editor, SecretChange

\* Every page has been loaded with a configuration that is committed.
LEMMA BaseIs ==
  ASSUME TypeOK, HistoryInv, NEW e \in Editors, editor[e].pc # "idle"
  PROVE  editor[e].base \in Places /\ editor[e].base \in 1..Now
<1>1. editor[e].base \in Places /\ editor[e].base <= Now
  BY EditorFields DEF TypeOK, HistoryInv, PagesChecked
<1>2. editor[e].base \in Nat /\ editor[e].base # 0
  BY <1>1, PlaceFacts
<1>. QED  BY <1>1, <1>2, HistoryFacts

\* A request that goes on, or is refused, keeps the page it was loaded with.
LEMMA StageKeeps ==
  ASSUME TypeOK, HistoryInv, ReadingInv, NEW e \in Editors, editor[e].pc # "idle",
         NEW pc \in {"open", "checked", "committed"}, Stage(e, pc),
         UNCHANGED <<history, secret, gone, cache, served, reader, importer>>
  PROVE  TypeOK' /\ HistoryInv' /\ ReadingInv'
<1> DEFINE q == [IdleEditor EXCEPT !.pc = pc, !.base = editor[e].base]
<1>1. editor[e].base \in Places /\ editor[e].base <= Now
  BY BaseIs, HistoryFacts
<1>2. q \in Editor /\ q.pc = pc /\ q.base = editor[e].base
  BY <1>1 DEF IdleEditor, Editor, SecretChange
<1>3. editor' = [editor EXCEPT ![e] = q]
  BY DEF Stage
<1> HIDE DEF q
<1>4. cache' \in [Processes -> Snapshot \cup {NoSnapshot}]
  BY DEF TypeOK
<1>. QED  BY <1>1, <1>2, <1>3, <1>4, PageMoves

LEMMA LoadKeeps ==
  ASSUME TypeOK, HistoryInv, ReadingInv, NEW e \in Editors, Open(e) \/ Invalidate(e)
  PROVE  TypeOK' /\ HistoryInv' /\ ReadingInv'
<1> DEFINE q == [IdleEditor EXCEPT !.pc = "open", !.base = Now]
<1>1. q \in Editor /\ q.pc = "open" /\ q.base = Now
  BY HistoryFacts, StageFits
<1>2. editor' = [editor EXCEPT ![e] = q] /\ UNCHANGED <<history, secret, gone, served, reader, importer>>
  BY DEF Open, Invalidate
<1> HIDE DEF q
<1>3. /\ cache' \in [Processes -> Snapshot \cup {NoSnapshot}]
      /\ \A p \in Processes : cache'[p] = cache[p] \/ cache'[p] = NoSnapshot
  <2>1. CASE Open(e)
    BY <2>1 DEF Open, TypeOK
  <2>2. CASE Invalidate(e)
    BY <2>2, IdleFits DEF Invalidate, TypeOK
  <2>. QED  BY <2>1, <2>2
<1>4. q.base <= Now
  BY <1>1, HistoryFacts
<1>. QED  BY <1>1, <1>2, <1>3, <1>4, PageMoves

LEMMA EditorDiesKeeps ==
  ASSUME TypeOK, HistoryInv, ReadingInv, NEW e \in Editors, EditorDies(e)
  PROVE  TypeOK' /\ HistoryInv' /\ ReadingInv'
<1>1. /\ editor' = [editor EXCEPT ![e] = IdleEditor]
      /\ UNCHANGED <<history, secret, gone, cache, served, reader, importer>>
  BY DEF EditorDies
<1>2. cache' \in [Processes -> Snapshot \cup {NoSnapshot}]
  BY <1>1 DEF TypeOK
<1>3. IdleEditor.base <= Now
  BY IdleFits, HistoryFacts
<1>. QED  BY <1>1, <1>2, <1>3, IdleFits, PageMoves

LEMMA ValidateKeeps ==
  ASSUME TypeOK, HistoryInv, ReadingInv, NEW e \in Editors, Validate(e)
  PROVE  TypeOK' /\ HistoryInv' /\ ReadingInv'
<1>1. PICK on \in BOOLEAN, change \in SecretChange :
        IF on /\ ~Provided(change, secret)
          THEN Stage(e, "open")
          ELSE editor' = [editor EXCEPT ![e].pc = "valid", ![e].on = on, ![e].change = change,
                                        ![e].existing = secret]
  BY DEF Validate
<1>2. /\ editor[e].pc = "checked" /\ editor[e] \in Editor
      /\ UNCHANGED <<history, secret, gone, cache, served, reader, importer>>
  BY DEF Validate, TypeOK
<1>3. CASE on /\ ~Provided(change, secret)
  BY <1>1, <1>2, <1>3, StageKeeps
<1>4. CASE ~(on /\ ~Provided(change, secret))
  <2> DEFINE q == [editor[e] EXCEPT !.pc = "valid", !.on = on, !.change = change,
                                    !.existing = secret]
  <2>1. editor[e] \in Page /\ secret \in BOOLEAN
    BY <1>2, EditorFields DEF TypeOK
  <2>2. /\ q \in Page /\ q.pc = "valid" /\ q.on = on /\ q.change = change
        /\ q.existing = secret /\ q.base = editor[e].base
    BY <2>1 DEF Page
  <2>3. q \in Editor
    BY <2>2 DEF Page, Editor
  <2>4. editor' = [editor EXCEPT ![e] = q]
    BY <1>1, <1>4 DEF TypeOK
  <2> HIDE DEF q
  <2>5. q.base <= Now
    BY <1>2, <2>2 DEF HistoryInv, PagesChecked
  <2>6. cache' \in [Processes -> Snapshot \cup {NoSnapshot}]
    BY <1>2 DEF TypeOK
  <2>. QED  BY <1>2, <1>4, <2>2, <2>3, <2>4, <2>5, <2>6, PageMoves
<1>. QED  BY <1>3, <1>4

-----------------------------------------------------------------------------
(* Commits.                                                                *)

\* What a commit has to satisfy: it is an import, or a save whose page has the
\* current version and whose credentials were checked.
LEMMA CommitKeeps ==
  ASSUME TypeOK, HistoryInv, ReadingInv,
         NEW on \in BOOLEAN, NEW stored \in BOOLEAN, NEW version \in Nat,
         NEW by \in {"update", "import"}, NEW base \in Places \cup {0},
         Committed(on, stored, version, by, base),
         version >= 1, version <= Now + 1,
         by = "update" => /\ base \in 1..Now /\ version = Current.version + 1
                          /\ Current.version = history[base].version
                          /\ on /\ ~stored => base # Now,
         editor' \in [Editors -> Editor],
         \A e \in Editors : /\ editor'[e].base <= Now
                            /\ editor'[e].pc = "valid" => editor'[e] = editor[e],
         importer' \in [Importers -> Versions \cup {0}],
         \A i \in Importers : importer'[i] <= Now,
         UNCHANGED <<gone, cache, served, reader>>
  PROVE  TypeOK' /\ HistoryInv' /\ ReadingInv'
<1>1. Now \in Nat /\ Now >= 1 /\ Current = history[Now]
  BY HistoryFacts
<1>2. version \in Versions
  BY <1>1, BoundsAssumption DEF Versions, Committed
<1>3. /\ history' \in Seq(Config) /\ Now' = Now + 1 /\ Now' \in Places
      /\ \A i \in 1..Now : history'[i] = history[i]
      /\ history'[Now'].version = version /\ history'[Now'].by = by
      /\ history'[Now'].base = base /\ history'[Now'].bare = (on /\ ~stored)
      /\ secret' = stored
  BY <1>2, Appended DEF Author
<1>4. \A i \in 1..Now' : i = Now' \/ i \in 1..Now
  BY <1>1, <1>3
<1>5. TypeOK'
  BY <1>3 DEF TypeOK, Now
<1>6. VersionsBounded'
  <2>1. \A i \in 1..Now' : history'[i].version <= i
    BY <1>3, <1>4 DEF HistoryInv, VersionsBounded
  <2>2. \A i \in Importers : importer'[i] <= Now'
    <3> SUFFICES ASSUME NEW i \in Importers PROVE importer'[i] <= Now'
      OBVIOUS
    <3>1. importer'[i] \in Nat
      BY PlaceFacts
    <3>. QED  BY <1>1, <1>3, <3>1
  <2>. QED  BY <2>1, <2>2 DEF VersionsBounded
<1>7. BasesBefore'
  BY <1>1, <1>3, <1>4 DEF HistoryInv, BasesBefore
<1>8. ASSUME NEW b \in 1..Now, SetBack(b)
      PROVE  SetBack(b)'
  <2>1. PICK j \in b + 1 .. Now :
          history[j].by = "import" /\ history[j].version <= history[b].version
    BY <1>8 DEF SetBack
  <2>2. j \in 1..Now /\ j \in b + 1 .. Now'
    BY <1>1, <1>3
  <2>. QED  BY <1>3, <2>1, <2>2 DEF SetBack
<1>9. VersionsGrow'
  <2> SUFFICES ASSUME NEW b \in 1..Now', b # Now'
               PROVE  history'[Now'].version > history'[b].version \/ SetBack(b)'
    BY DEF VersionsGrow, Current
  <2>1. b \in 1..Now /\ history'[b] = history[b]
    BY <1>3, <1>4
  <2>2. history[b].version \in Nat /\ Current.version \in Nat
    BY <1>1, <2>1, HistoryFacts
  <2>3. CASE by = "import"
    <3>1. CASE version > history[b].version
      BY <1>3, <2>1, <3>1
    <3>2. CASE version <= history[b].version
      <4>1. Now' \in b + 1 .. Now'
        BY <1>1, <1>3, <2>1
      <4>. QED  BY <1>3, <2>1, <2>3, <3>2, <4>1 DEF SetBack
    <3>. QED  BY <2>2, <3>1, <3>2
  <2>4. CASE by = "update"
    <3>1. b = Now \/ Current.version > history[b].version \/ SetBack(b)
      BY <2>1 DEF HistoryInv, VersionsGrow
    <3>2. CASE SetBack(b)
      BY <1>8, <2>1, <3>2
    <3>3. CASE b = Now \/ Current.version > history[b].version
      <4>1. Current.version >= history[b].version
        BY <1>1, <2>2, <3>3
      <4>. QED  BY <1>3, <2>1, <2>2, <2>4, <4>1
    <3>. QED  BY <3>1, <3>2, <3>3
  <2>. QED  BY <2>3, <2>4
<1>10. PagesChecked'
  <2> SUFFICES ASSUME NEW e \in Editors
               PROVE  /\ editor'[e].base <= Now'
                      /\ editor'[e].pc = "valid" =>
                           /\ editor'[e].on => Provided(editor'[e].change, editor'[e].existing)
                           /\ editor'[e].base # Now'
    BY DEF PagesChecked
  <2>1. editor'[e].base \in Nat /\ editor'[e].base <= Now
    BY EditorFields, PlaceFacts
  <2>2. editor'[e].base <= Now' /\ editor'[e].base # Now'
    BY <1>1, <1>3, <2>1
  <2>. QED  BY <2>2 DEF HistoryInv, PagesChecked
\* A configuration that was overtaken when it was committed stays so.
<1>11. ASSUME NEW i \in 1..Now, Overtaken(i), history[i].base \in 1..(i - 1)
       PROVE  Overtaken(i)'
  <2>1. PICK j \in history[i].base + 1 .. i - 1 :
          history[j].by = "import" /\ history[j].version <= history[history[i].base].version
    BY <1>11 DEF Overtaken
  <2>2. j \in 1..Now /\ history[i].base \in 1..Now
    BY <1>1, <1>11
  <2>. QED  BY <1>3, <2>1, <2>2 DEF Overtaken
<1>12. by = "update" => base = Now \/ Overtaken(Now)'
  <2> SUFFICES ASSUME by = "update", base # Now
               PROVE  Overtaken(Now)'
    OBVIOUS
  <2>1. base \in 1..Now /\ SetBack(base)
    BY HistoryFacts DEF HistoryInv, VersionsGrow
  <2>2. PICK j \in base + 1 .. Now :
          history[j].by = "import" /\ history[j].version <= history[base].version
    BY <2>1 DEF SetBack
  <2>3. j \in 1..Now /\ j \in base + 1 .. Now' - 1
    BY <1>1, <1>3, <2>1
  <2>4. history'[Now'].base = base /\ history'[j] = history[j] /\ history'[base] = history[base]
    BY <1>3, <2>1, <2>3
  <2>. QED  BY <2>2, <2>3, <2>4 DEF Overtaken
<1>13. NoLostUpdate'
  <2> SUFFICES ASSUME NEW i \in 1..Now', history'[i].by = "update"
               PROVE  history'[i].base = i - 1 \/ Overtaken(i)'
    BY DEF NoLostUpdate
  <2>1. CASE i = Now'
    BY <1>1, <1>3, <1>12, <2>1
  <2>2. CASE i \in 1..Now
    BY <1>3, <1>11, <2>2 DEF HistoryInv, NoLostUpdate, BasesBefore
  <2>. QED  BY <1>4, <2>1, <2>2
<1>14. CredentialsPresent'
  <2> SUFFICES ASSUME NEW i \in 1..Now', history'[i].by = "update", history'[i].bare
               PROVE  Overtaken(i)'
    BY DEF CredentialsPresent
  <2>1. CASE i = Now'
    BY <1>3, <1>12, <2>1
  <2>2. CASE i \in 1..Now
    BY <1>3, <1>11, <2>2 DEF HistoryInv, CredentialsPresent, BasesBefore
  <2>. QED  BY <1>4, <2>1, <2>2
<1>15. ReadingInv'
  <2>1. SnapshotsDated'
    <3>1. \A i \in Places : i >= Now' => gone[i] = 0
      BY <1>1, <1>3, PlaceFacts DEF ReadingInv, SnapshotsDated
    <3>. QED  BY <3>1 DEF ReadingInv, SnapshotsDated
  <2>2. OneReaderEach'
    BY DEF ReadingInv, OneReaderEach
  <2>3. RowsInOrder'
    <3>1. \A p \in Processes : served[p] \in Nat
      BY PlaceFacts DEF TypeOK
    <3>2. \A r \in Readers : reader[r].pc = "row" => reader[r].row \in Nat
      BY ReaderFields, PlaceFacts DEF TypeOK
    <3>. QED  BY <1>1, <1>3, <3>1, <3>2 DEF ReadingInv, RowsInOrder
  <2>. QED  BY <2>1, <2>2, <2>3 DEF ReadingInv
<1>. QED  BY <1>5, <1>6, <1>7, <1>9, <1>10, <1>13, <1>14, <1>15 DEF HistoryInv

LEMMA SwapKeeps ==
  ASSUME TypeOK, HistoryInv, ReadingInv, NEW e \in Editors, CompareAndSwap(e)
  PROVE  TypeOK' /\ HistoryInv' /\ ReadingInv'
<1> DEFINE q == editor[e]
<1>1. /\ q.pc = "valid" /\ q \in Editor /\ q.on \in BOOLEAN /\ q.change \in SecretChange
      /\ q.existing \in BOOLEAN /\ secret \in BOOLEAN
      /\ UNCHANGED <<gone, cache, served, reader, importer>>
  BY EditorFields DEF CompareAndSwap, TypeOK
<1>2. q.base \in Places /\ q.base \in 1..Now
  BY <1>1, BaseIs
<1>3. CASE ~(Writable(q) /\ Current.version = history[q.base].version)
  <2>1. Stage(e, "open") /\ UNCHANGED <<history, secret>>
    BY <1>3 DEF CompareAndSwap
  <2>. QED  BY <1>1, <2>1, StageKeeps
<1>4. CASE Writable(q) /\ Current.version = history[q.base].version
  <2> DEFINE stored == SecretAfter(q)
             version == Current.version + 1
  <2>1. Committed(q.on, stored, version, "update", q.base) /\ Stage(e, "committed")
    BY <1>4 DEF CompareAndSwap
  <2>2. q.change = "set" \/ q.change = "remove" \/ q.change = "keep"
    BY <1>1 DEF SecretChange
  <2>3. /\ stored \in BOOLEAN
        /\ q.change = "set" => stored = TRUE
        /\ q.change = "keep" => stored = secret
    BY <1>1, <2>2 DEF SecretAfter
  <2>4. q.on /\ ~stored => q.base # Now
    <3> SUFFICES ASSUME q.on, q.base = Now PROVE stored
      BY <2>3
    <3>1. Provided(q.change, q.existing) /\ q.existing = secret
      BY <1>1 DEF HistoryInv, PagesChecked
    <3>. QED  BY <2>3, <3>1 DEF Provided
  <2>5. Current.version \in Nat /\ Current.version >= 1 /\ Current.version <= Now /\ Now \in Nat
    BY HistoryFacts DEF HistoryInv, VersionsBounded, Versions
  <2>6. version \in Nat /\ version >= 1 /\ version <= Now + 1
    BY <2>5
  <2> DEFINE page == [IdleEditor EXCEPT !.pc = "committed", !.base = q.base]
  <2>7. page \in Editor /\ page.pc = "committed" /\ page.base = q.base
    BY <1>2 DEF IdleEditor, Editor, SecretChange
  <2>8. editor' = [editor EXCEPT ![e] = page]
    BY <2>1 DEF Stage
  <2> HIDE DEF page, stored
  <2>9. /\ editor' \in [Editors -> Editor]
        /\ \A d \in Editors : /\ editor'[d].base <= Now
                              /\ editor'[d].pc = "valid" => editor'[d] = editor[d]
    <3>1. editor' \in [Editors -> Editor]
      BY <2>7, <2>8 DEF TypeOK
    <3>2. \A d \in Editors : editor'[d] = editor[d] \/ editor'[d] = page
      BY <2>8 DEF TypeOK
    <3>3. page.base <= Now
      BY <1>2, <2>5, <2>7
    <3>. QED  BY <2>7, <3>1, <3>2, <3>3 DEF HistoryInv, PagesChecked
  <2>10. /\ importer' \in [Importers -> Versions \cup {0}]
         /\ \A i \in Importers : importer'[i] <= Now
    BY <1>1 DEF TypeOK, HistoryInv, VersionsBounded
  <2>. QED  BY <1>1, <1>2, <1>4, <2>1, <2>3, <2>4, <2>5, <2>6, <2>9, <2>10, CommitKeeps
<1>. QED  BY <1>3, <1>4

LEMMA ImportKeeps ==
  ASSUME TypeOK, HistoryInv, ReadingInv, NEW i \in Importers, WriteImport(i)
  PROVE  TypeOK' /\ HistoryInv' /\ ReadingInv'
<1>1. PICK on \in BOOLEAN, imported \in BOOLEAN :
        Committed(on, secret \/ imported, importer[i] + 1, "import", 0)
  BY DEF WriteImport
<1>2. /\ secret \in BOOLEAN /\ importer[i] \in Nat /\ importer[i] <= Now /\ Now \in Nat
  BY PlaceFacts, HistoryFacts DEF TypeOK, HistoryInv, VersionsBounded
<1> DEFINE stored == secret \/ imported
           version == importer[i] + 1
<1>3. stored \in BOOLEAN /\ version \in Nat /\ version >= 1 /\ version <= Now + 1
  BY <1>1, <1>2
<1>4. Committed(on, stored, version, "import", 0)
  BY <1>1
<1> HIDE DEF stored, version
<1>5. /\ importer' \in [Importers -> Versions \cup {0}]
      /\ \A j \in Importers : importer'[j] <= Now
  BY <1>2 DEF WriteImport, TypeOK, HistoryInv, VersionsBounded
<1>6. /\ editor' \in [Editors -> Editor]
      /\ \A e \in Editors : /\ editor'[e].base <= Now
                            /\ editor'[e].pc = "valid" => editor'[e] = editor[e]
  BY DEF WriteImport, TypeOK, HistoryInv, PagesChecked
<1>7. UNCHANGED <<gone, cache, served, reader>>
  BY DEF WriteImport
<1>. QED  BY <1>3, <1>4, <1>5, <1>6, <1>7, CommitKeeps

LEMMA ImporterKeeps ==
  ASSUME TypeOK, HistoryInv, ReadingInv, NEW i \in Importers, ReadVersion(i) \/ ImportDies(i)
  PROVE  TypeOK' /\ HistoryInv' /\ ReadingInv'
<1>1. UNCHANGED <<history, secret, gone, cache, served, reader, editor>> /\ Now' = Now
  BY DEF ReadVersion, ImportDies, Now
<1>2. Current.version \in Versions /\ Current.version <= Now /\ 0 <= Now
  BY HistoryFacts DEF HistoryInv, VersionsBounded
<1>3. /\ importer' \in [Importers -> Versions \cup {0}]
      /\ \A j \in Importers : importer'[j] <= Now
  BY <1>2 DEF ReadVersion, ImportDies, TypeOK, HistoryInv, VersionsBounded
<1>4. TypeOK'
  BY <1>1, <1>3 DEF TypeOK
<1>5. VersionsBounded' /\ BasesBefore'
  BY <1>1, <1>3 DEF HistoryInv, VersionsBounded, BasesBefore
<1>6. VersionsGrow'
  BY <1>1 DEF HistoryInv, VersionsGrow, SetBack, Current
<1>7. PagesChecked' /\ NoLostUpdate' /\ CredentialsPresent'
  BY <1>1 DEF HistoryInv, PagesChecked, NoLostUpdate, CredentialsPresent, Overtaken
<1>8. ReadingInv'
  BY <1>1 DEF ReadingInv, SnapshotsDated, OneReaderEach, RowsInOrder
<1>. QED  BY <1>4, <1>5, <1>6, <1>7, <1>8 DEF HistoryInv

-----------------------------------------------------------------------------
(* The theorems.                                                           *)

LEMMA ConfigInit == Init => ConfigInv
<1> SUFFICES ASSUME Init PROVE ConfigInv
  OBVIOUS
<1> DEFINE c == [version |-> 1, bare |-> FALSE, by |-> "migration", base |-> 0]
<1>1. c \in Config /\ c.version = 1 /\ c.by = "migration" /\ c.bare = FALSE
  BY PlaceFacts DEF Config, Author
<1>2. history = <<c>> /\ secret = FALSE
  BY DEF Init
<1> HIDE DEF c
<1>3. history \in Seq(Config) /\ Len(history) = 1 /\ history[1] = c /\ Now = 1
  BY <1>1, <1>2 DEF Now
<1>4. TypeOK
  BY <1>3, IdleFits, PlaceFacts DEF Init, TypeOK
<1>5. SnapshotsDated /\ OneReaderEach
  BY IdleFits DEF Init, SnapshotsDated, OneReaderEach
<1>6. RowsInOrder
  BY <1>3, IdleFits DEF Init, RowsInOrder
<1>7. VersionsBounded
  BY <1>1, <1>3 DEF Init, VersionsBounded
<1>8. VersionsGrow
  BY <1>3 DEF VersionsGrow
<1>9. PagesChecked
  BY <1>3, IdleFits DEF Init, PagesChecked
<1>10. \A i \in 1..Now : history[i].by # "update"
  BY <1>1, <1>3
<1>11. BasesBefore /\ NoLostUpdate /\ CredentialsPresent
  BY <1>10 DEF BasesBefore, NoLostUpdate, CredentialsPresent
<1>. QED  BY <1>4, <1>5, <1>6, <1>7, <1>8, <1>9, <1>11 DEF ConfigInv

LEMMA ConfigNext == ConfigInv /\ [Next]_vars => ConfigInv'
<1> SUFFICES ASSUME TypeOK, HistoryInv, ReadingInv, [Next]_vars
             PROVE  TypeOK' /\ HistoryInv' /\ ReadingInv'
  BY DEF ConfigInv, HistoryInv, ReadingInv
<1>1. ASSUME NEW r \in Readers, Begin(r) \/ ReadRow(r) \/ InstallSnapshot(r) \/ ReadFails(r)
      PROVE  TypeOK' /\ HistoryInv' /\ ReadingInv'
  BY <1>1, BeginKeeps, ReadRowKeeps, InstallKeeps, ReadFailsKeeps
<1>2. ASSUME NEW e \in Editors, CheckVersion(e)
      PROVE  TypeOK' /\ HistoryInv' /\ ReadingInv'
  <2>1. /\ editor[e].pc # "idle" /\ Stage(e, "checked")
        /\ UNCHANGED <<history, secret, gone, cache, served, reader, importer>>
    BY <1>2 DEF CheckVersion
  <2>. QED  BY <2>1, StageKeeps
<1>3. ASSUME NEW e \in Editors,
             \/ Open(e) \/ CheckVersion(e) \/ Validate(e)
             \/ CompareAndSwap(e) \/ Invalidate(e) \/ EditorDies(e)
      PROVE  TypeOK' /\ HistoryInv' /\ ReadingInv'
  BY <1>2, <1>3, LoadKeeps, ValidateKeeps, SwapKeeps, EditorDiesKeeps
<1>4. ASSUME NEW i \in Importers, ReadVersion(i) \/ WriteImport(i) \/ ImportDies(i)
      PROVE  TypeOK' /\ HistoryInv' /\ ReadingInv'
  BY <1>4, ImportKeeps, ImporterKeeps
<1>5. CASE UNCHANGED vars
  <2>1. TypeOK' /\ HistoryInv'
    BY <1>5, HistoryKept DEF vars, TypeOK
  <2>2. ReadingInv'
    BY <1>5 DEF vars, ReadingInv, SnapshotsDated, OneReaderEach, RowsInOrder, Now
  <2>. QED  BY <2>1, <2>2
<1>. QED  BY <1>1, <1>3, <1>4, <1>5, TickKeeps DEF Next

LEMMA ConfigInvariant == Spec => []ConfigInv
  BY ConfigInit, ConfigNext, PTL DEF Spec

\* Every reachable state is well typed: the versions stay below the places they
\* are committed at, imports included.
THEOREM ConfigTypes == Spec => []TypeOK
  BY ConfigInvariant, PTL DEF ConfigInv

\* A process never serves from its cache what was replaced TTL ticks ago, for
\* every time to live and however long its reads take (service.py:67).
THEOREM Staleness == Spec => []StaleWithinTTL
<1>1. ConfigInv => StaleWithinTTL
  <2> SUFFICES ASSUME ConfigInv, NEW p \in Processes, Usable(p)
               PROVE  gone[cache[p].row] < TTL /\ gone[cache[p].secrets] < TTL
    BY DEF StaleWithinTTL
  <2>1. /\ cache[p].row \in Places /\ cache[p].secrets \in Places /\ cache[p].age \in 0..TTL
        /\ cache[p].age < TTL
    BY CacheFields DEF ConfigInv, TypeOK, Usable
  <2>2. gone[cache[p].row] \in 0..TTL /\ gone[cache[p].secrets] \in 0..TTL
    BY <2>1 DEF ConfigInv, TypeOK
  <2>3. gone[cache[p].row] <= cache[p].age /\ gone[cache[p].secrets] <= cache[p].age
    BY DEF ConfigInv, SnapshotsDated, Usable
  <2>. QED  BY <2>1, <2>2, <2>3, BoundsAssumption
<1>. QED  BY <1>1, ConfigInvariant, PTL

\* A page that is saved replaces exactly what it was showing, unless an import
\* came between that set the version number back (service.py:155).
THEOREM SavesReplaceWhatTheyShow == Spec => []NoLostUpdate
  BY ConfigInvariant, PTL DEF ConfigInv

\* No save leaves the provider enabled without a credential, with the same one
\* exception (service.py:143).
THEOREM SavesKeepCredentials == Spec => []CredentialsPresent
  BY ConfigInvariant, PTL DEF ConfigInv

\* The rows a process serves are never older than what it has served.
LEMMA ServedGrows ==
  ASSUME ConfigInv, [Next]_vars, NEW p \in Processes
  PROVE  served[p] <= served'[p]
<1>1. served[p] \in Nat
  BY PlaceFacts DEF ConfigInv, TypeOK
<1>2. CASE UNCHANGED served
  BY <1>1, <1>2
<1>3. ASSUME NEW r \in Readers, InstallSnapshot(r)
      PROVE  served[p] <= served'[p]
  <2>1. Home[r] = p => served[p] <= reader[r].row
    BY <1>3 DEF ConfigInv, RowsInOrder, InstallSnapshot
  <2>2. served' = [served EXCEPT ![Home[r]] = reader[r].row] /\ served \in [Processes -> Places \cup {0}]
    BY <1>3 DEF InstallSnapshot, Installed, ConfigInv, TypeOK
  <2>. QED  BY <1>1, <2>1, <2>2
<1>4. (\E r \in Readers : InstallSnapshot(r)) \/ UNCHANGED served
  BY DEF Next, vars, Begin, ReadRow, ReadFails, Open, CheckVersion, Validate, CompareAndSwap,
         Invalidate, EditorDies, ReadVersion, WriteImport, ImportDies, Tick
<1>. QED  BY <1>2, <1>3, <1>4

\* A process never goes back to settings older than those it has had, however
\* its requests interleave their reads (service.py:70).
THEOREM NewerOnly == Spec => NeverGoesBack
<1>1. ConfigInv /\ ConfigInv' /\ [Next]_vars =>
        [\A p \in Processes : cache'[p].row # 0 => cache'[p].row >= served[p]]_vars
  <2> SUFFICES ASSUME ConfigInv, ConfigInv', [Next]_vars, NEW p \in Processes, cache'[p].row # 0
               PROVE  cache'[p].row >= served[p]
    OBVIOUS
  <2>1. served[p] <= served'[p]
    BY ServedGrows
  <2>2. served'[p] <= cache'[p].row
    BY DEF ConfigInv, RowsInOrder
  <2>3. served[p] \in Nat /\ served'[p] \in Nat /\ cache'[p].row \in Nat
    <3>1. /\ cache'[p] \in Snapshot \cup {NoSnapshot}
          /\ served[p] \in Places \cup {0} /\ served'[p] \in Places \cup {0}
      BY DEF ConfigInv, TypeOK
    <3>. QED  BY <3>1, CacheFields, PlaceFacts
  <2>. QED  BY <2>1, <2>2, <2>3
<1>. QED  BY <1>1, ConfigInvariant, PTL DEF Spec, NeverGoesBack

=============================================================================
