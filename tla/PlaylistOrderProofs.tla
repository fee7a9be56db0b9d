------------------------- MODULE PlaylistOrderProofs -------------------------
(***************************************************************************)
(* The playlists implement PlaylistOrder: seen from outside, every request *)
(* changes playlists in one step.                                          *)
(***************************************************************************)
EXTENDS PlaylistsProofs

\* The entries of a playlist in order.
Entries(rows, ids) ==
  LET s == ByPosition(rows, ids) IN
  [k \in DOMAIN s |-> [id |-> s[k], track |-> rows[s[k]].track]]

EntryOf(rows, i) == [id |-> i, track |-> rows[i].track]

LEMMA ShownIs == Shown = [p \in DOMAIN owner |-> Entries(item, ItemsOf(p))]
  BY DEF Shown, Entries, ItemsOf

LEMMA ShownNext == Shown' = [p \in DOMAIN owner' |-> Entries(item', ItemsOf(p)')]
  BY DEF Shown, Entries, ItemsOf

-----------------------------------------------------------------------------
(* Sequences of entries.                                                   *)

LEMMA EntryAt ==
  ASSUME NEW rows, NEW ids, NEW n \in Nat, Numbered(rows, ids, n)
  PROVE  /\ DOMAIN Entries(rows, ids) = 1 .. n
         /\ Entries(rows, ids) = [k \in 1 .. n |-> Entries(rows, ids)[k]]
         /\ \A i \in ids : /\ rows[i].pos + 1 \in 1 .. n
                           /\ Entries(rows, ids)[rows[i].pos + 1] = EntryOf(rows, i)
         /\ \A k \in 1 .. n : \E i \in ids : rows[i].pos = k - 1 /\ Entries(rows, ids)[k] = EntryOf(rows, i)
<1> DEFINE s == ByPosition(rows, ids)
           e == Entries(rows, ids)
<1>1. s \in [1 .. n -> ids] /\ \A k \in 1 .. n : rows[s[k]].pos = k - 1
  BY ByPositionWhole
<1> HIDE DEF s
<1>2. e = [k \in 1 .. n |-> EntryOf(rows, s[k])]
  BY <1>1 DEF Entries, EntryOf, s
<1> HIDE DEF e
<1>3. ASSUME NEW k \in 1 .. n PROVE \E i \in ids : rows[i].pos = k - 1 /\ e[k] = EntryOf(rows, i)
  BY <1>1, <1>2
<1>4. ASSUME NEW i \in ids PROVE rows[i].pos + 1 \in 1 .. n /\ e[rows[i].pos + 1] = EntryOf(rows, i)
  <2> DEFINE k == rows[i].pos + 1
  <2>1. k \in 1 .. n /\ rows[i].pos = k - 1
    BY DEF Numbered
  <2> HIDE DEF k
  <2>2. s[k] = i
    BY <1>1, <2>1 DEF Numbered
  <2>3. e[k] = EntryOf(rows, i)
    BY <1>2, <2>1, <2>2
  <2>. QED  BY <2>1, <2>3 DEF k
<1>. QED  BY <1>2, <1>3, <1>4 DEF e

LEMMA EntriesSeq ==
  ASSUME NEW rows, NEW ids, NEW n \in Nat, Numbered(rows, ids, n),
         NEW S, \A i \in ids : EntryOf(rows, i) \in S
  PROVE  /\ Entries(rows, ids) \in Seq(S) /\ Len(Entries(rows, ids)) = n
         /\ DOMAIN Entries(rows, ids) = 1 .. n
<1> DEFINE e == Entries(rows, ids)
<1>1. e = [k \in 1 .. n |-> e[k]] /\ DOMAIN e = 1 .. n
  BY EntryAt
<1>2. ASSUME NEW k \in 1 .. n PROVE e[k] \in S
  <2>1. PICK i \in ids : e[k] = EntryOf(rows, i)
    BY EntryAt
  <2>. QED  BY <2>1
<1> HIDE DEF e
<1>3. e \in [1 .. n -> S]
  BY <1>1, <1>2
<1>4. e \in Seq(S)
  BY <1>3, IsASeq
<1>5. Len(e) = n
  BY <1>1, <1>4
<1>. QED  BY <1>1, <1>4, <1>5 DEF e

\* Nothing else matters than positions and tracks.
LEMMA SameEntries ==
  ASSUME NEW f, NEW g, NEW ids, NEW n \in Nat, Numbered(f, ids, n),
         \A i \in ids : g[i].pos = f[i].pos /\ g[i].track = f[i].track
  PROVE  Entries(g, ids) = Entries(f, ids)
<1>1. Numbered(g, ids, n)
  BY SameNumbers
<1> DEFINE d == Entries(f, ids)
           e == Entries(g, ids)
           S == {EntryOf(f, i) : i \in ids} \cup {EntryOf(g, i) : i \in ids}
<1>2. /\ \A i \in ids : EntryOf(f, i) \in S
      /\ \A i \in ids : EntryOf(g, i) \in S
  OBVIOUS
<1> HIDE DEF S
<1>a. d \in Seq(S) /\ Len(d) = n
  BY <1>2, EntriesSeq
<1>b. e \in Seq(S) /\ Len(e) = n
  BY <1>1, <1>2, EntriesSeq
<1>3. ASSUME NEW k \in 1 .. n PROVE d[k] = e[k]
  <2>1. PICK i \in ids : f[i].pos = k - 1 /\ d[k] = EntryOf(f, i)
    BY EntryAt
  <2>2. g[i].pos + 1 = k /\ EntryOf(g, i) = EntryOf(f, i)
    BY <2>1 DEF EntryOf
  <2>3. e[g[i].pos + 1] = EntryOf(g, i)
    BY <1>1, EntryAt
  <2>. QED  BY <2>1, <2>2, <2>3
<1> HIDE DEF d, e
<1>4. d = e
  BY <1>a, <1>b, <1>3, SeqEqual
<1>. QED  BY <1>4 DEF d, e

\* One more at the end.
LEMMA EntryAdded ==
  ASSUME NEW f, NEW g, NEW ids, NEW n \in Nat, Numbered(f, ids, n), NEW i, i \notin ids,
         \A j \in ids : g[j].pos = f[j].pos /\ g[j].track = f[j].track, g[i].pos = n
  PROVE  Entries(g, ids \cup {i}) = Append(Entries(f, ids), EntryOf(g, i))
<1> DEFINE d == Entries(f, ids)
           all == ids \cup {i}
           e == Entries(g, all)
           new == EntryOf(g, i)
           n2 == n + 1
           S == {EntryOf(f, j) : j \in ids} \cup {new}
<1>0. \A j \in ids : EntryOf(f, j) \in S
  OBVIOUS
<1>b. new \in S
  OBVIOUS
<1> HIDE DEF S
<1>1. Numbered(g, all, n2) /\ n2 \in Nat
  BY OneMore
<1>2. \A j \in all : EntryOf(g, j) \in S
  <2>1. \A j \in ids : EntryOf(g, j) = EntryOf(f, j)
    BY DEF EntryOf
  <2>. QED  BY <1>0, <1>b, <2>1
<1>3. i \in all /\ \A j \in ids : j \in all
  OBVIOUS
<1> HIDE DEF all, n2
<1>4. d \in Seq(S) /\ Len(d) = n
  BY <1>0, EntriesSeq
<1>5. e \in Seq(S) /\ Len(e) = n2
  BY <1>1, <1>2, EntriesSeq
<1>6. ASSUME NEW k \in 1 .. n PROVE d[k] = e[k]
  <2>1. PICK j \in ids : f[j].pos = k - 1 /\ d[k] = EntryOf(f, j)
    BY EntryAt
  <2>2. g[j].pos + 1 = k /\ EntryOf(g, j) = EntryOf(f, j)
    BY <2>1 DEF EntryOf
  <2>3. e[g[j].pos + 1] = EntryOf(g, j)
    BY <1>1, <1>3, EntryAt
  <2>. QED  BY <2>1, <2>2, <2>3
<1>7. e[n2] = new
  <2>1. e[g[i].pos + 1] = new
    BY <1>1, <1>3, EntryAt
  <2>. QED  BY <2>1 DEF n2
<1> HIDE DEF d, e, new
<1> DEFINE x == Append(d, new)
<1>8. x \in Seq(S) /\ Len(x) = n + 1 /\ x[n + 1] = new /\ \A k \in 1 .. n : x[k] = d[k]
  BY <1>b, <1>4, AppendProperties
<1> HIDE DEF x
<1>9. ASSUME NEW k \in 1 .. Len(e) PROVE e[k] = x[k]
  BY <1>5, <1>6, <1>7, <1>8 DEF n2
<1>10. e = x
  BY <1>5, <1>8, <1>9, SeqEqual DEF n2
<1>. QED  BY <1>10 DEF d, e, new, x, all

\* One is taken out.
LEMMA EntryTaken ==
  ASSUME NEW f, NEW g, NEW ids, NEW n \in Nat, Numbered(f, ids, n), NEW d \in ids,
         NEW m \in Nat, Numbered(g, ids \ {d}, m),
         \A i \in ids \ {d} : g[i].track = f[i].track /\ f[i].pos = Before(g[i].pos, f[d].pos)
  PROVE  /\ f[d].pos + 1 \in DOMAIN Entries(f, ids)
         /\ Entries(g, ids \ {d}) = RemoveAt(Entries(f, ids), f[d].pos + 1)
<1> DEFINE a == Entries(f, ids)
           rest == ids \ {d}
           b == Entries(g, rest)
           c == f[d].pos
           S == {EntryOf(f, i) : i \in ids}
<1>0. \A i \in ids : EntryOf(f, i) \in S
  OBVIOUS
<1> HIDE DEF S
<1>1. m = n - 1
  BY NumberedCardinality, FS_RemoveElement
<1>2. c \in 0 .. n - 1
  BY DEF Numbered
<1>3. \A i \in rest : i \in ids /\ g[i].track = f[i].track /\ f[i].pos = Before(g[i].pos, c)
  OBVIOUS
<1>4. Numbered(g, rest, m)
  OBVIOUS
<1> HIDE DEF rest, c
<1>5. \A i \in rest : EntryOf(g, i) \in S
  BY <1>0, <1>3 DEF EntryOf
<1>6. a \in Seq(S) /\ Len(a) = n /\ DOMAIN a = 1 .. n
  BY <1>0, EntriesSeq
<1>7. b \in Seq(S) /\ Len(b) = m
  BY <1>4, <1>5, EntriesSeq
<1>8. ASSUME NEW k \in 1 .. m PROVE b[k] = a[Before(k - 1, c) + 1]
  <2>1. PICK i \in rest : g[i].pos = k - 1 /\ b[k] = EntryOf(g, i)
    BY <1>4, EntryAt
  <2>2. f[i].pos = Before(k - 1, c) /\ EntryOf(g, i) = EntryOf(f, i)
    BY <1>3, <2>1 DEF EntryOf
  <2>3. a[f[i].pos + 1] = EntryOf(f, i)
    BY <1>3, EntryAt
  <2>. QED  BY <2>1, <2>2, <2>3
<1> HIDE DEF a, b
<1> DEFINE x == SubSeq(a, 1, (c + 1) - 1)
           y == SubSeq(a, (c + 1) + 1, Len(a))
           z == x \o y
<1>9. x \in Seq(S) /\ Len(x) = c /\ \A k \in 1 .. c : x[k] = a[k]
  BY <1>2, <1>6
<1>10. y \in Seq(S) /\ Len(y) = m - c /\ \A k \in 1 .. m - c : y[k] = a[k + c + 1]
  BY <1>1, <1>2, <1>6
<1> HIDE DEF x, y
<1>11. /\ z \in Seq(S) /\ Len(z) = m
       /\ \A k \in 1 .. m : z[k] = IF k <= c THEN x[k] ELSE y[k - c]
  <2>0. x \in Seq(S) /\ y \in Seq(S)
    BY <1>9, <1>10
  <2>1. /\ z \in Seq(S) /\ Len(z) = Len(x) + Len(y)
        /\ \A k \in 1 .. Len(x) + Len(y) : z[k] = IF k <= Len(x) THEN x[k] ELSE y[k - Len(x)]
    BY <2>0, ConcatProperties, Zenon
  <2>2. c + (m - c) = m
    BY <1>1, <1>2
  <2> HIDE DEF z
  <2>. QED  BY <1>9, <1>10, <2>1, <2>2
<1>b. \A k \in 1 .. m : k > c => k - c \in 1 .. m - c /\ (k - c) + c + 1 = k + 1
  BY <1>1, <1>2
<1> HIDE DEF z
<1>12. ASSUME NEW k \in 1 .. Len(b) PROVE b[k] = z[k]
  <2>1. CASE k <= c
    <3>1. k \in 1 .. m /\ k \in 1 .. c /\ Before(k - 1, c) + 1 = k
      BY <1>1, <1>2, <1>7, <2>1 DEF Before
    <3>2. b[k] = a[k]
      BY <1>8, <3>1
    <3>3. z[k] = x[k] /\ x[k] = a[k]
      BY <1>9, <1>11, <2>1, <3>1
    <3>. QED  BY <3>2, <3>3
  <2>2. CASE ~(k <= c)
    <3>1. b[k] = a[k + 1]
      BY <1>1, <1>2, <1>7, <1>8, <2>2 DEF Before
    <3>2. y[k - c] = a[k + 1]
      BY <1>1, <1>2, <1>7, <1>10, <1>b, <2>2
    <3>. QED  BY <1>7, <1>11, <2>2, <3>1, <3>2
  <2>. QED  BY <2>1, <2>2
<1>13. b = z
  BY <1>7, <1>11, <1>12, SeqEqual
<1>14. RemoveAt(a, c + 1) = z
  BY DEF RemoveAt, x, y, z
<1>15. c + 1 \in DOMAIN a
  BY <1>2, <1>6
<1>. QED  BY <1>13, <1>14, <1>15 DEF a, b, c, rest

\* Another order of the same.
LEMMA EntriesMoved ==
  ASSUME NEW f, NEW g, NEW ids, NEW n \in Nat, Numbered(f, ids, n), NEW m \in Nat, Numbered(g, ids, m),
         \A i \in ids : g[i].track = f[i].track
  PROVE  /\ Len(Entries(g, ids)) = Len(Entries(f, ids))
         /\ ToSet(Entries(g, ids)) = ToSet(Entries(f, ids))
<1> DEFINE a == Entries(f, ids)
           b == Entries(g, ids)
<1>1. m = n
  BY NumberedCardinality
<1>2. \A i \in ids : EntryOf(g, i) = EntryOf(f, i)
  BY DEF EntryOf
<1>3. /\ DOMAIN a = 1 .. n
      /\ \A i \in ids : \E k \in 1 .. n : a[k] = EntryOf(f, i)
      /\ \A k \in 1 .. n : \E i \in ids : a[k] = EntryOf(f, i)
  BY EntryAt
<1>4. /\ DOMAIN b = 1 .. n
      /\ \A i \in ids : \E k \in 1 .. n : b[k] = EntryOf(g, i)
      /\ \A k \in 1 .. n : \E i \in ids : b[k] = EntryOf(g, i)
  BY <1>1, EntryAt
<1> DEFINE S == {EntryOf(f, i) : i \in ids}
<1>5. \A i \in ids : EntryOf(f, i) \in S /\ EntryOf(g, i) \in S
  BY <1>2
<1> HIDE DEF S
<1>6. Len(a) = n
  BY <1>5, EntriesSeq
<1>7. Len(b) = n
  BY <1>1, <1>5, EntriesSeq
<1> HIDE DEF a, b
<1>8. ToSet(b) = ToSet(a)
  <2>1. ASSUME NEW e PROVE e \in ToSet(a) <=> \E i \in ids : e = EntryOf(f, i)
    BY <1>3 DEF ToSet
  <2>2. ASSUME NEW e PROVE e \in ToSet(b) <=> \E i \in ids : e = EntryOf(g, i)
    BY <1>4 DEF ToSet
  <2>3. ASSUME NEW e PROVE e \in ToSet(b) <=> e \in ToSet(a)
    BY <1>2, <2>1, <2>2
  <2>. QED  BY <2>3
<1>. QED  BY <1>6, <1>7, <1>8 DEF a, b

-----------------------------------------------------------------------------
(* Steps.                                                                  *)

\* The playlists p shows the same after a step that leaves its rows alone.
LEMMA ShowsTheSame ==
  ASSUME PlaylistInv, NEW p \in DOMAIN owner, ItemsOf(p)' = ItemsOf(p),
         \A i \in ItemsOf(p) : item'[i] = item[i]
  PROVE  Entries(item', ItemsOf(p)') = Entries(item, ItemsOf(p))
<1>1. PICK n \in Nat : Numbered(item, ItemsOf(p), n)
  BY DEF PlaylistInv, Tables, Packed
<1> DEFINE ids == ItemsOf(p)
<1> HIDE DEF ids
<1>2. Entries(item', ids) = Entries(item, ids)
  BY <1>1, SameEntries DEF ids
<1>. QED  BY <1>2 DEF ids

LEMMA NothingShown ==
  ASSUME UNCHANGED <<owner, item>>
  PROVE  UNCHANGED Shown
  BY DEF Shown

\* Playlists that are gone leave the others as they are.
LEMMA DropShown ==
  ASSUME PlaylistInv, NEW gone \in SUBSET DOMAIN owner, DOMAIN owner' = DOMAIN owner \ gone,
         \A p \in DOMAIN owner' : /\ ItemsOf(p)' = ItemsOf(p)
                                  /\ \A i \in ItemsOf(p) : item'[i] = item[i]
  PROVE  Order!Drop(gone)
<1>1. \A p \in DOMAIN owner \ gone : Entries(item', ItemsOf(p)') = Entries(item, ItemsOf(p))
  BY ShowsTheSame
<1>2. DOMAIN Shown = DOMAIN owner /\ \A p \in DOMAIN owner : Shown[p] = Entries(item, ItemsOf(p))
  BY ShownIs
<1>3. Shown' = [p \in DOMAIN owner \ gone |-> Shown[p]]
  BY <1>1, <1>2, ShownNext
<1>. QED  BY <1>2, <1>3 DEF Order!Drop

\* What the sequences show are items of the table.
LEMMA EntriesOfItems ==
  ASSUME PlaylistInv
  PROVE  /\ \A i \in DOMAIN item : EntryOf(item, i) \in Order!Entry
         /\ \A e : Order!Listed(e) => e.id \in DOMAIN item
<1>1. ASSUME NEW i \in DOMAIN item PROVE EntryOf(item, i) \in Order!Entry
  <2>1. i \in ItemIds /\ item[i] \in Row
    BY DEF PlaylistInv, Tables, RowsOf
  <2>. QED  BY <2>1 DEF EntryOf, Order!Entry, Row
<1>2. ASSUME NEW e, Order!Listed(e) PROVE e.id \in DOMAIN item
  <2>1. PICK p \in DOMAIN Shown : e.id \in {f.id : f \in ToSet(Shown[p])}
    BY <1>2 DEF Order!Listed, Order!ToSet, ToSet
  <2>2. p \in DOMAIN owner /\ Shown[p] = Entries(item, ItemsOf(p))
    BY <2>1, ShownIs
  <2>3. PICK n \in Nat : Numbered(item, ItemsOf(p), n)
    BY <2>2 DEF PlaylistInv, Tables, Packed
  <2>4. PICK k \in DOMAIN Shown[p] : e.id = Shown[p][k].id
    BY <2>1 DEF ToSet
  <2>5. PICK i \in ItemsOf(p) : Shown[p][k] = EntryOf(item, i)
    BY <2>2, <2>3, <2>4, EntryAt
  <2>. QED  BY <2>4, <2>5 DEF EntryOf, ItemsOf
<1>. QED  BY <1>1, <1>2

\* A commit of a request on one playlist changes what that one shows.
LEMMA CommitOne ==
  ASSUME PlaylistInv, NEW r \in Requests, Commit(r), txn[r].op \in LockOps \ {"drop"},
         NEW p, p = txn[r].list
  PROVE  /\ p \in DOMAIN owner /\ DOMAIN Shown = DOMAIN owner
         /\ \A i \in Own(txn[r]) : item'[i] = OwnRow(txn[r])[i]
         /\ Shown[p] = Entries(item, ItemsOf(p))
         /\ Shown' = [Shown EXCEPT ![p] = Entries(item', Own(txn[r]))]
<1>1. p \in DOMAIN owner /\ txn[r].made = {}
  BY Current DEF Places
<1>2. DOMAIN owner' = DOMAIN owner
  BY <1>1 DEF Commit
<1>3. ItemsOf(p)' = Own(txn[r]) /\ \A i \in Own(txn[r]) : item'[i] = OwnRow(txn[r])[i]
  BY CommitRows
<1>4. ASSUME NEW q \in DOMAIN owner \ {p}
      PROVE  Entries(item', ItemsOf(q)') = Entries(item, ItemsOf(q))
  <2>1. ItemsOf(q)' = ItemsOf(q) /\ \A i \in ItemsOf(q) : item'[i] = item[i]
    BY CommitRows
  <2>. QED  BY <2>1, ShowsTheSame
<1>5. DOMAIN Shown = DOMAIN owner /\ \A q \in DOMAIN owner : Shown[q] = Entries(item, ItemsOf(q))
  BY ShownIs
<1>6. Shown' = [q \in DOMAIN owner |-> IF q = p THEN Entries(item', Own(txn[r])) ELSE Shown[q]]
  BY <1>1, <1>2, <1>3, <1>4, <1>5, ShownNext
<1>7. Shown = [q \in DOMAIN owner |-> Shown[q]]
  BY <1>5, ShownIs
<1>8. Shown' = [Shown EXCEPT ![p] = Entries(item', Own(txn[r]))]
  BY <1>5, <1>6, <1>7
<1>. QED  BY <1>1, <1>3, <1>5, <1>8

LEMMA AddShown ==
  ASSUME PlaylistInv, NEW r \in Requests, Commit(r), txn[r].op = "add"
  PROVE  Order!Next
<1> DEFINE t == txn[r]
           rows == t.rows
<1>1. /\ t \in TxnRecord /\ Rows(t) /\ Plan(t) /\ t.pc = "written"
  BY Current DEF Commit
<1>2. PICK p : p = t.list
  OBVIOUS
<1> DEFINE ids == ItemsOf(p)
<1>3. /\ p \in DOMAIN Shown
      /\ \A i \in Own(t) : item'[i] = OwnRow(t)[i]
      /\ Shown[p] = Entries(item, ids)
      /\ Shown' = [Shown EXCEPT ![p] = Entries(item', Own(t))]
  BY <1>2, CommitOne DEF LockOps
<1>4. PICK i : DOMAIN rows = {i} /\ Numbered(item, ids, rows[i].pos)
  BY <1>1, <1>2 DEF Plan, AddPlan
<1>5. i \notin DOMAIN item /\ t.gone = {}
  BY <1>1, <1>4 DEF Rows
<1>6. Own(t) = ids \cup {i} /\ i \notin ids
  BY <1>2, <1>4, <1>5 DEF Own, ItemsOf
<1>7. item'[i] = rows[i] /\ OwnRow(t)[i] = rows[i]
  BY <1>3, <1>4, <1>6 DEF OwnRow
<1>8. \A j \in ids : item'[j] = item[j]
  BY <1>3, <1>4, <1>5, <1>6 DEF OwnRow, ItemsOf
<1>9. PICK m \in Nat : Numbered(OwnRow(t), Own(t), m)
  BY <1>1 DEF Plan, Packed, LockOps
<1>10. rows[i].pos \in Nat
  BY <1>6, <1>7, <1>9 DEF Numbered
<1>11. PICK e : e = EntryOf(item', i)
  OBVIOUS
<1>12. e \in Order!Entry /\ e.id = i
  <2>1. rows \in RowsOf
    BY <1>1 DEF TxnRecord
  <2>2. i \in ItemIds /\ rows[i] \in Row
    BY <1>4, <2>1 DEF RowsOf
  <2>. QED  BY <1>7, <1>11, <2>2 DEF EntryOf, Order!Entry, Row
<1>14. Entries(item', Own(t)) = Append(Entries(item, ids), e)
  <2> DEFINE n == rows[i].pos
  <2>1. n \in Nat /\ Numbered(item, ids, n) /\ item'[i].pos = n
    BY <1>4, <1>7, <1>10
  <2> HIDE DEF n, ids
  <2>0. PICK f, g : f = item /\ g = item'
    OBVIOUS
  <2>2. \A j \in ids : g[j].pos = f[j].pos /\ g[j].track = f[j].track
    BY <1>8, <2>0
  <2>4. n \in Nat /\ Numbered(f, ids, n) /\ g[i].pos = n
    BY <2>0, <2>1
  <2>5. Entries(g, ids \cup {i}) = Append(Entries(f, ids), EntryOf(g, i))
    BY <1>6, <2>2, <2>4, EntryAdded
  <2>. QED  BY <1>6, <1>11, <2>0, <2>5
<1> HIDE DEF ids
<1>15. ~Order!Listed(e)
  BY <1>5, <1>12, EntriesOfItems
<1>16. Shown' = [Shown EXCEPT ![p] = Append(Shown[p], e)]
  BY <1>3, <1>14
<1>17. Order!Add(p, e)
  BY <1>15, <1>16 DEF Order!Add
<1>. QED  BY <1>3, <1>12, <1>17 DEF Order!Next

LEMMA TakeShown ==
  ASSUME PlaylistInv, NEW r \in Requests, Commit(r), txn[r].op = "remove"
  PROVE  Order!Next
<1> DEFINE t == txn[r]
           d == t.item
<1>1. t \in TxnRecord /\ Rows(t) /\ Plan(t) /\ Tables /\ t.pc = "written"
  BY Current DEF Commit
<1>2. PICK p : p = t.list
  OBVIOUS
<1> DEFINE ids == ItemsOf(p)
<1>3. /\ p \in DOMAIN Shown /\ p \in DOMAIN owner
      /\ \A i \in Own(t) : item'[i] = OwnRow(t)[i]
      /\ Shown[p] = Entries(item, ids)
      /\ Shown' = [Shown EXCEPT ![p] = Entries(item', Own(t))]
  BY <1>2, CommitOne DEF LockOps
<1>4. /\ d \in ids /\ t.gone = {d}
      /\ \A i \in Own(t) : item[i].pos = Before(OwnRow(t)[i].pos, item[d].pos)
  BY <1>1, <1>2 DEF Plan, RemovePlan
<1>5. Own(t) = ids \ {d}
  BY <1>1, <1>2, <1>4 DEF Own, Rows
<1>6. \A i \in Own(t) : OwnRow(t)[i].track = item[i].track
  BY <1>1 DEF OwnRow, Rows
<1>7. PICK m \in Nat : Numbered(OwnRow(t), Own(t), m)
  BY <1>1 DEF Plan, Packed, LockOps
<1>8. Numbered(item', Own(t), m)
  BY <1>3, <1>7, SameNumbers
<1>9. PICK n \in Nat : Numbered(item, ids, n)
  BY <1>1, <1>3 DEF Tables, Packed
<1>11. PICK k : k = item[d].pos + 1
  OBVIOUS
<1> HIDE DEF ids, d
<1>12. /\ k \in DOMAIN Entries(item, ids)
       /\ Entries(item', ids \ {d}) = RemoveAt(Entries(item, ids), k)
  <2>0. PICK f, g : f = item /\ g = item'
    OBVIOUS
  <2>1. \A i \in ids \ {d} : g[i].track = f[i].track /\ f[i].pos = Before(g[i].pos, f[d].pos)
    BY <1>3, <1>4, <1>5, <1>6, <2>0
  <2>2. Numbered(g, ids \ {d}, m) /\ Numbered(f, ids, n) /\ d \in ids
    BY <1>4, <1>5, <1>8, <1>9, <2>0
  <2>4. /\ f[d].pos + 1 \in DOMAIN Entries(f, ids)
        /\ Entries(g, ids \ {d}) = RemoveAt(Entries(f, ids), f[d].pos + 1)
    BY <2>1, <2>2, EntryTaken
  <2>. QED  BY <1>11, <2>0, <2>4
<1>13. Shown' = [Shown EXCEPT ![p] = RemoveAt(Shown[p], k)]
  BY <1>3, <1>5, <1>12
<1>14. Order!Take(p, k)
  BY <1>13 DEF Order!Take, Order!RemoveAt, RemoveAt
<1>15. k \in DOMAIN Shown[p]
  BY <1>3, <1>12
<1>. QED  BY <1>3, <1>14, <1>15 DEF Order!Next

LEMMA PermuteShown ==
  ASSUME PlaylistInv, NEW r \in Requests, Commit(r), txn[r].op \in {"reorder", "rename"}
  PROVE  Order!Next
<1> DEFINE t == txn[r]
<1>1. t \in TxnRecord /\ Rows(t) /\ Plan(t) /\ Tables /\ t.pc = "written"
  BY Current DEF Commit
<1>2. PICK p : p = t.list
  OBVIOUS
<1> DEFINE ids == ItemsOf(p)
<1>3. /\ p \in DOMAIN Shown /\ p \in DOMAIN owner
      /\ \A i \in Own(t) : item'[i] = OwnRow(t)[i]
      /\ Shown[p] = Entries(item, ids)
      /\ Shown' = [Shown EXCEPT ![p] = Entries(item', Own(t))]
  BY <1>2, CommitOne DEF LockOps
<1>4. Own(t) = ids
  BY <1>1, <1>2 DEF Own, Rows
<1>5. \A i \in Own(t) : OwnRow(t)[i].track = item[i].track
  BY <1>1 DEF OwnRow, Rows
<1>6. PICK m \in Nat : Numbered(OwnRow(t), Own(t), m)
  BY <1>1 DEF Plan, Packed, LockOps
<1>7. Numbered(item', ids, m)
  BY <1>3, <1>4, <1>6, SameNumbers
<1>8. PICK n \in Nat : Numbered(item, ids, n)
  BY <1>1, <1>3 DEF Tables, Packed
<1> HIDE DEF ids
<1>9. \A i \in ids : item'[i].track = item[i].track
  BY <1>3, <1>4, <1>5
<1>10. /\ Len(Entries(item', ids)) = Len(Entries(item, ids))
       /\ ToSet(Entries(item', ids)) = ToSet(Entries(item, ids))
  BY <1>7, <1>8, <1>9, EntriesMoved
<1>11. /\ DOMAIN Shown' = DOMAIN Shown /\ Shown'[p] = Entries(item', ids)
       /\ \A q \in DOMAIN Shown \ {p} : Shown'[q] = Shown[q]
  BY <1>3, <1>4
<1>12. Order!Permute(p)
  <2>1. \A s : Order!ToSet(s) = ToSet(s)
    BY DEF Order!ToSet, ToSet
  <2>. QED  BY <1>3, <1>10, <1>11, <2>1 DEF Order!Permute
<1>. QED  BY <1>3, <1>12 DEF Order!Next

\* New playlists appear complete, and show no track twice.
LEMMA AppearShown ==
  ASSUME PlaylistInv, NEW r \in Requests, Commit(r), txn[r].op \in MakeOps
  PROVE  Order!Next
<1> DEFINE t == txn[r]
           rows == t.rows
<1>1. t \in TxnRecord /\ Rows(t) /\ MakePlan(t) /\ Places(r, t)
  BY Current DEF Plan
<1>2. PICK made : made = t.made
  OBVIOUS
<1>3. DOMAIN owner' = DOMAIN owner \cup made
  BY <1>2 DEF Commit, MakeOps
<1>4. made \cap DOMAIN owner = {} /\ made \subseteq PlaylistIds
  BY <1>1, <1>2 DEF Places, TxnRecord
<1>5. DOMAIN Shown = DOMAIN owner /\ \A p \in DOMAIN owner : Shown[p] = Entries(item, ItemsOf(p))
  BY ShownIs
<1>6. /\ DOMAIN Shown' = DOMAIN owner'
      /\ \A p \in DOMAIN owner' : Shown'[p] = Entries(item', ItemsOf(p)')
  BY ShownNext
<1>7. DOMAIN Shown' \ DOMAIN Shown = made /\ DOMAIN Shown \subseteq DOMAIN Shown'
  BY <1>3, <1>4, <1>5, <1>6
<1>8. ASSUME NEW p \in DOMAIN Shown PROVE Shown'[p] = Shown[p]
  <2>1. ItemsOf(p)' = ItemsOf(p) /\ \A i \in ItemsOf(p) : item'[i] = item[i]
    BY <1>5, CommitRows DEF MakeOps, LockOps
  <2>2. Entries(item', ItemsOf(p)') = Entries(item, ItemsOf(p))
    BY <1>5, <2>1, ShowsTheSame
  <2>. QED  BY <1>3, <1>5, <1>6, <2>2
<1>9. ASSUME NEW p \in made
      PROVE  /\ \A k, l \in DOMAIN Shown'[p] : Shown'[p][k].track = Shown'[p][l].track => k = l
             /\ \A k \in DOMAIN Shown'[p] : /\ Shown'[p][k] \in Order!Entry
                                           /\ ~Order!Listed(Shown'[p][k])
  <2> DEFINE mine == RowsIn(t, p)
             e == Entries(rows, mine)
  <2>1. ItemsOf(p)' = mine /\ \A i \in mine : item'[i] = rows[i]
    BY <1>2, CommitRows
  <2>2. PICK n \in Nat : Numbered(rows, mine, n)
    BY <1>1, <1>2 DEF MakePlan, Packed
  <2>3. \A i, j \in mine : rows[i].track = rows[j].track => i = j
    BY <1>1, <1>2 DEF MakePlan
  <2>4. \A i \in mine : i \in ItemIds /\ rows[i] \in Row /\ i \notin DOMAIN item
    <3>1. rows \in RowsOf
      BY <1>1 DEF TxnRecord
    <3>2. \A i \in DOMAIN rows : i \in ItemIds /\ rows[i] \in Row
      BY <3>1 DEF RowsOf
    <3>. QED  BY <1>1, <3>2 DEF RowsIn, Rows
  <2> HIDE DEF mine, rows
  <2>5. Entries(item', mine) = e
    BY <2>1, <2>2, SameEntries
  <2>6. Shown'[p] = e
    BY <1>3, <1>6, <2>1, <2>5
  <2>7. \A k \in DOMAIN e : k \in 1 .. n /\ \E i \in mine : rows[i].pos = k - 1 /\ e[k] = EntryOf(rows, i)
    BY <2>2, EntryAt
  <2> HIDE DEF e
  <2>8. ASSUME NEW k \in DOMAIN e, NEW l \in DOMAIN e, e[k].track = e[l].track PROVE k = l
    <3>1. PICK i \in mine : rows[i].pos = k - 1 /\ e[k] = EntryOf(rows, i)
      BY <2>7
    <3>2. PICK j \in mine : rows[j].pos = l - 1 /\ e[l] = EntryOf(rows, j)
      BY <2>7
    <3>3. i = j
      BY <2>3, <2>8, <3>1, <3>2 DEF EntryOf
    <3>4. k \in Int /\ l \in Int
      BY <2>7
    <3>. QED  BY <3>1, <3>2, <3>3, <3>4
  <2>9. ASSUME NEW k \in DOMAIN e PROVE e[k] \in Order!Entry /\ ~Order!Listed(e[k])
    <3>1. PICK i \in mine : e[k] = EntryOf(rows, i)
      BY <2>7
    <3>2. EntryOf(rows, i) \in Order!Entry /\ EntryOf(rows, i).id \notin DOMAIN item
      BY <2>4 DEF EntryOf, Order!Entry, Row
    <3>. QED  BY <3>1, <3>2, EntriesOfItems
  <2>. QED  BY <2>6, <2>8, <2>9
<1>10. Order!Appear
  <2>1. ASSUME NEW p \in made
        PROVE  /\ Order!IsInjective([k \in DOMAIN Shown'[p] |-> Shown'[p][k].track])
               /\ \A e \in Order!ToSet(Shown'[p]) : e \in Order!Entry /\ ~Order!Listed(e)
    BY <1>9 DEF Order!IsInjective, Order!ToSet
  <2>. QED  BY <1>4, <1>7, <1>8, <2>1 DEF Order!Appear
<1>. QED  BY <1>10 DEF Order!Next

LEMMA CommitShown ==
  ASSUME PlaylistInv, NEW r \in Requests, Commit(r)
  PROVE  Order!Next
<1>1. txn[r] \in TxnRecord /\ Kinds(txn[r]) /\ Places(r, txn[r]) /\ txn[r].pc = "written"
  BY Current DEF Commit
<1>2. CASE txn[r].op = "drop"
  <2>1. PICK p : p = txn[r].list
    OBVIOUS
  <2>2. p \in DOMAIN owner /\ DOMAIN owner' = DOMAIN owner \ {p}
    BY <1>1, <1>2, <2>1 DEF Commit, Places, LockOps
  <2>3. \A q \in DOMAIN owner' : ItemsOf(q)' = ItemsOf(q) /\ \A i \in ItemsOf(q) : item'[i] = item[i]
    BY <2>1, <2>2, CommitRows
  <2>4. DOMAIN Shown = DOMAIN owner
    BY ShownIs
  <2>5. {p} \in SUBSET DOMAIN owner
    BY <2>2
  <2>6. Order!Drop({p})
    BY <2>2, <2>3, <2>5, DropShown
  <2>. QED  BY <2>4, <2>5, <2>6 DEF Order!Next
<1>3. CASE txn[r].op \in MakeOps
  BY <1>3, AppearShown
<1>. QED  BY <1>1, <1>2, <1>3, AddShown, TakeShown, PermuteShown DEF Kinds, TxnRecord, Op, MakeOps

LEMMA DeleteUserShown ==
  ASSUME PlaylistInv, NEW u, DeleteUser(u)
  PROVE  Order!Next
<1>1. PICK gone : gone = {p \in DOMAIN owner : owner[p] = u}
  OBVIOUS
<1>2. DOMAIN owner' = DOMAIN owner \ gone /\ item' = Without(item, gone)
  BY <1>1 DEF DeleteUser
<1>3. /\ DOMAIN item' = {i \in DOMAIN item : item[i].list \notin gone}
      /\ \A i \in DOMAIN item' : item'[i] = item[i]
  BY <1>2 DEF Without, Restrict
<1>4. ASSUME NEW p \in DOMAIN owner'
      PROVE  ItemsOf(p)' = ItemsOf(p) /\ \A i \in ItemsOf(p) : item'[i] = item[i]
  <2>1. ASSUME NEW i PROVE i \in ItemsOf(p)' <=> i \in ItemsOf(p)
    BY <1>2, <1>3 DEF ItemsOf
  <2>2. ItemsOf(p)' = ItemsOf(p)
    BY <2>1
  <2>. QED  BY <1>3, <2>2 DEF ItemsOf
<1>5. gone \in SUBSET DOMAIN owner
  BY <1>1
<1>6. Order!Drop(gone)
  BY <1>2, <1>4, <1>5, DropShown
<1>7. DOMAIN Shown = DOMAIN owner
  BY ShownIs
<1>. QED  BY <1>5, <1>6, <1>7 DEF Order!Next

LEMMA StepShown ==
  ASSUME PlaylistInv, [Next]_vars
  PROVE  [Order!Next]_Shown
<1>1. ASSUME NEW r \in Requests, Commit(r) PROVE Order!Next
  BY <1>1, CommitShown
<1>2. ASSUME NEW u \in Users, DeleteUser(u) PROVE Order!Next
  BY <1>2, DeleteUserShown
<1>3. ASSUME NEW r \in Requests, RequestBegins(r) PROVE UNCHANGED <<owner, item>>
  BY <1>3 DEF RequestBegins, LockForAdd, LockForRemove, LockForReorder, LockForOther, Lock,
              BeginCreate, BeginFile, BeginShelf, Begin
<1>4. ASSUME NEW r \in Requests, RequestStep(r), ~Commit(r) PROVE UNCHANGED <<owner, item>>
  BY <1>4 DEF RequestStep, ReadPosition, InsertItem, DeleteItem, MoveAside, MoveBack, Fetch,
              InsertPlaylist, ImportTrack, ImportedList, Conflict, Full
<1>5. ASSUME NEW r \in Requests, RequestDies(r) PROVE UNCHANGED <<owner, item>>
  BY <1>5 DEF RequestDies
<1>6. ASSUME NEW r \in Requests, NEW q \in Requests, BreakDeadlock(r, q) PROVE UNCHANGED <<owner, item>>
  BY <1>6 DEF BreakDeadlock
<1>7. CASE UNCHANGED vars
  BY <1>7, NothingShown DEF vars
<1>8. CASE UNCHANGED <<owner, item>>
  BY <1>8, NothingShown
<1>. QED  BY <1>1, <1>2, <1>3, <1>4, <1>5, <1>6, <1>7, <1>8 DEF Next

LEMMA NoneShown == Init => Order!Init
<1> SUFFICES ASSUME Init PROVE Order!Init
  OBVIOUS
<1>1. DOMAIN owner = {}
  BY DEF Init
<1>2. Shown = [p \in {} |-> Entries(item, ItemsOf(p))]
  BY <1>1, ShownIs
<1>. QED  BY <1>2 DEF Order!Init

\* Whatever requests run side by side, are refused, die or are rolled back, every
\* change of the playlists is one step of PlaylistOrder: an item is appended, one
\* is taken out and the rest keeps its order, the same items get another order,
\* playlists go, or new ones appear complete and without a repetition.
THEOREM OrderImplemented == Spec => ImplementsOrder
<1>1. Spec => Order!Init
  BY NoneShown DEF Spec
<1>2. Spec => [][Order!Next]_Shown
  BY Inductive, StepShown, PTL DEF Spec
<1>. QED  BY <1>1, <1>2 DEF ImplementsOrder, Order!Spec

=============================================================================
