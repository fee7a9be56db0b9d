--------------------------- MODULE PlaylistsProofs ---------------------------
(***************************************************************************)
(* The order of the items of a playlist, for any number of users,          *)
(* requests, playlists and items.                                          *)
(***************************************************************************)
EXTENDS Playlists, FiniteSetTheorems, FunctionTheorems, SequenceTheorems,
        WellFoundedInduction, TLAPS

LockOps == {"add", "remove", "reorder", "rename", "drop"}
MakeOps == {"create", "file", "shelf"}

RowsOf == UNION {[S -> Row] : S \in SUBSET ItemIds}

TxnRecord ==
  [op : Op, pc : Place, list : PlaylistIds \cup {0}, item : ItemIds \cup {0},
   order : Seq(ItemIds), pos : Nat, todo : Seq(Seq(Tracks)),
   rows : RowsOf, gone : SUBSET ItemIds, made : SUBSET PlaylistIds, stored : SUBSET Tracks]

-----------------------------------------------------------------------------
(* The invariant.                                                          *)

\* The rows of ids have the positions 0 .. n - 1, each once.
Numbered(rows, ids, n) ==
  /\ \A i \in ids : rows[i].pos \in 0 .. n - 1
  /\ \A k \in 0 .. n - 1 : \E i \in ids : rows[i].pos = k
  /\ \A i, j \in ids : rows[i].pos = rows[j].pos => i = j

Packed(rows, ids) == \E n \in Nat : Numbered(rows, ids, n)

\* Every one of ids once, and nothing else.
Lists(order, ids) ==
  /\ \A k \in DOMAIN order : order[k] \in ids
  /\ \A i \in ids : \E k \in DOMAIN order : order[k] = i
  /\ \A k, l \in DOMAIN order : order[k] = order[l] => k = l

\* The position an item had before the one at d was taken out.
Before(k, d) == IF k < d THEN k ELSE k + 1

\* The items a transaction sees in its playlist.
Own(t) == (ItemsOf(t.list) \cup DOMAIN t.rows) \ t.gone

OwnRow(t) == [i \in Own(t) |-> IF i \in DOMAIN t.rows THEN t.rows[i] ELSE item[i]]

Kinds(t) ==
  /\ t.pc = "idle" => t = IdleTxn
  /\ t.op = "none" => t.pc = "idle"
  /\ t.op = "add" => t.pc \in {"locked", "placed", "written"}
  /\ t.op = "remove" => t.pc \in {"locked", "picked", "aside", "written"}
  /\ t.op = "reorder" => t.pc \in {"picked", "aside", "written"}
  /\ t.op \in {"rename", "drop"} => t.pc = "written"
  /\ t.op = "create" => t.pc \in {"start", "written", "conflict"}
  /\ t.op \in {"file", "shelf"} => t.pc \in {"start", "fetch", "import", "written", "conflict"}
  /\ t.op = "add" /\ t.pc # "written" => t.todo # <<>> /\ t.todo[1] # <<>>
  /\ t.op \in {"file", "shelf"} /\ t.pc \in {"start", "fetch", "import"} => t.todo # <<>>

\* The playlists it has locked, or made.
Places(r, t) ==
  /\ t.op \in LockOps => t.list \in DOMAIN owner /\ t.made = {}
  /\ t.op \in MakeOps => t.list \in t.made \cup {0}
  /\ t.pc = "import" => t.list \in t.made
  /\ t.made \cap DOMAIN owner = {}
  /\ t.made # {} => By[r] \in users

\* The rows it has written: new ones, or those of its playlist.
Rows(t) ==
  /\ t.op \in {"add"} \cup MakeOps => DOMAIN t.rows \cap DOMAIN item = {}
  /\ t.op \in {"remove", "reorder"} => DOMAIN t.rows \subseteq ItemsOf(t.list) \ t.gone
  /\ t.op \in {"remove", "reorder"} => \A i \in DOMAIN t.rows : t.rows[i].track = item[i].track
  /\ t.op \in {"none", "rename", "drop"} => DOMAIN t.rows = {}
  /\ t.op \in LockOps => \A i \in DOMAIN t.rows : t.rows[i].list = t.list
  /\ t.op \in MakeOps => \A i \in DOMAIN t.rows : t.rows[i].list \in t.made
  /\ t.op # "remove" => t.gone = {}

AddPlan(t) ==
  /\ t.pc # "written" => DOMAIN t.rows = {}
  /\ t.pc = "placed" => Numbered(item, ItemsOf(t.list), t.pos)
  /\ t.pc = "written" =>
       \E i \in DOMAIN t.rows : DOMAIN t.rows = {i} /\ Numbered(item, ItemsOf(t.list), t.rows[i].pos)

RemovePlan(t) ==
  /\ t.item \in ItemsOf(t.list)
  /\ t.pc = "locked" => DOMAIN t.rows = {} /\ t.gone = {}
  /\ t.pc # "locked" => t.gone = {t.item}
  /\ t.pc \in {"picked", "aside"} =>
       \A k \in DOMAIN t.order : item[t.order[k]].pos = Before(k - 1, item[t.item].pos)
  /\ t.pc = "written" =>
       \A i \in Own(t) : item[i].pos = Before(OwnRow(t)[i].pos, item[t.item].pos)

MovePlan(t) ==
  /\ t.pc \in {"picked", "aside"} => Lists(t.order, Own(t))
  /\ t.pc = "picked" => DOMAIN t.rows = {}
  /\ t.pc = "aside" => DOMAIN t.rows = Own(t) /\ \A i \in Own(t) : t.rows[i].pos < 0

RowsIn(t, p) == {i \in DOMAIN t.rows : t.rows[i].list = p}

MakePlan(t) ==
  \A p \in t.made :
    /\ Packed(t.rows, RowsIn(t, p))
    /\ \A i, j \in RowsIn(t, p) : t.rows[i].track = t.rows[j].track => i = j

Plan(t) ==
  /\ t.op = "add" => AddPlan(t)
  /\ t.op = "remove" => RemovePlan(t)
  /\ t.op \in {"remove", "reorder"} => MovePlan(t)
  /\ t.op \in LockOps /\ t.pc = "written" => Packed(OwnRow(t), Own(t))
  /\ t.op \in MakeOps => MakePlan(t)

Good(r, t) == t \in TxnRecord /\ Kinds(t) /\ Places(r, t) /\ Rows(t) /\ Plan(t)

\* What two transactions have written has nothing in common.
Apart(t, u) ==
  /\ t.op \in LockOps /\ u.op \in LockOps => t.list # u.list
  /\ t.made \cap u.made = {}
  /\ DOMAIN t.rows \cap DOMAIN u.rows = {}

Tables ==
  /\ users \subseteq Users /\ known \subseteq Tracks
  /\ owner \in [DOMAIN owner -> users] /\ DOMAIN owner \subseteq PlaylistIds
  /\ item \in RowsOf
  /\ \A i \in DOMAIN item : item[i].list \in DOMAIN owner
  /\ \A p \in DOMAIN owner : Packed(item, ItemsOf(p))

PlaylistInv ==
  /\ Tables
  /\ txn \in [Requests -> TxnRecord]
  /\ \A r \in Requests : Good(r, txn[r])
  /\ \A r, q \in Requests : r # q => Apart(txn[r], txn[q])

-----------------------------------------------------------------------------
(* Positions.                                                              *)

LEMMA NumberedCardinality ==
  ASSUME NEW rows, NEW ids, NEW n \in Nat, Numbered(rows, ids, n)
  PROVE  IsFiniteSet(ids) /\ Cardinality(ids) = n
<1> DEFINE f == [i \in ids |-> rows[i].pos]
<1>1. f \in Injection(ids, 0 .. n - 1) /\ f \in Surjection(ids, 0 .. n - 1)
  BY DEF Numbered, Injection, Surjection, IsInjective
<1>2. ExistsBijection(ids, 0 .. n - 1)
  BY <1>1 DEF Bijection, ExistsBijection
<1>3. IsFiniteSet(0 .. n - 1) /\ Cardinality(0 .. n - 1) = n
  BY FS_Interval
<1>4. ExistsBijection(0 .. n - 1, ids)
  BY <1>2, Fun_ExistsBijSymmetric
<1>. QED  BY <1>3, <1>4, FS_Bijection

\* As many items are before position k as the number says.
LEMMA RankOf ==
  ASSUME NEW rows, NEW ids, NEW n \in Nat, Numbered(rows, ids, n), NEW k \in 0 .. n
  PROVE  /\ IsFiniteSet({j \in ids : rows[j].pos < k})
         /\ Cardinality({j \in ids : rows[j].pos < k}) = k
<1> DEFINE below == {j \in ids : rows[j].pos < k}
<1>1. Numbered(rows, below, k)
  BY DEF Numbered
<1>. QED  BY <1>1, NumberedCardinality

LEMMA RankWithout ==
  ASSUME NEW rows, NEW ids, NEW n \in Nat, Numbered(rows, ids, n), NEW d \in ids, NEW k \in 0 .. n - 2
  PROVE  Cardinality({j \in ids \ {d} : rows[j].pos < Before(k, rows[d].pos)}) = k
<1>1. rows[d].pos \in 0 .. n - 1
  BY DEF Numbered
<1>2. CASE k < rows[d].pos
  <2>1. {j \in ids \ {d} : rows[j].pos < Before(k, rows[d].pos)} = {j \in ids : rows[j].pos < k}
    BY <1>1, <1>2 DEF Before
  <2>. QED  BY <2>1, RankOf
<1>3. CASE ~(k < rows[d].pos)
  <2> DEFINE below == {j \in ids : rows[j].pos < k + 1}
  <2>1. {j \in ids \ {d} : rows[j].pos < Before(k, rows[d].pos)} = below \ {d}
    BY <1>3 DEF Before
  <2>2. IsFiniteSet(below) /\ Cardinality(below) = k + 1
    BY RankOf
  <2>3. d \in below
    BY <1>1, <1>3
  <2> HIDE DEF below
  <2>4. Cardinality(below \ {d}) = Cardinality(below) - 1
    BY <2>2, <2>3, FS_RemoveElement
  <2>5. Cardinality(below \ {d}) = k
    BY <2>2, <2>4
  <2>. QED  BY <2>1, <2>5
<1>. QED  BY <1>2, <1>3

\* ORDER BY position gives every item its place, ...
LEMMA ByPositionWhole ==
  ASSUME NEW rows, NEW ids, NEW n \in Nat, Numbered(rows, ids, n)
  PROVE  /\ ByPosition(rows, ids) \in [1 .. n -> ids]
         /\ \A k \in 1 .. n : rows[ByPosition(rows, ids)[k]].pos = k - 1
<1>1. Cardinality(ids) = n
  BY NumberedCardinality
<1>2. ASSUME NEW k \in 1 .. n
      PROVE  /\ ByPosition(rows, ids)[k] \in ids
             /\ rows[ByPosition(rows, ids)[k]].pos = k - 1
  <2> DEFINE Rank(i) == Cardinality({j \in ids : rows[j].pos < rows[i].pos})
  <2>1. ASSUME NEW i \in ids PROVE Rank(i) = rows[i].pos
    <3> DEFINE m == rows[i].pos
    <3>1. m \in 0 .. n
      BY DEF Numbered
    <3> HIDE DEF m
    <3>2. Cardinality({j \in ids : rows[j].pos < m}) = m
      BY <3>1, RankOf
    <3>. QED  BY <3>2 DEF m
  <2>2. PICK i \in ids : rows[i].pos = k - 1
    BY DEF Numbered
  <2>3. ByPosition(rows, ids)[k] = CHOOSE i2 \in ids : Rank(i2) = k - 1
    BY <1>1 DEF ByPosition
  <2> HIDE DEF Rank
  <2>. QED  BY <2>1, <2>2, <2>3
<1>3. ByPosition(rows, ids) \in [1 .. n -> ids]
  BY <1>1, <1>2 DEF ByPosition
<1>. QED  BY <1>2, <1>3

\* ... and of the items without one of them, each the place after its neighbour.
LEMMA ByPositionWithout ==
  ASSUME NEW rows, NEW ids, NEW n \in Nat, Numbered(rows, ids, n), NEW d \in ids
  PROVE  /\ ByPosition(rows, ids \ {d}) \in [1 .. n - 1 -> ids \ {d}]
         /\ \A k \in 1 .. n - 1 :
              rows[ByPosition(rows, ids \ {d})[k]].pos = Before(k - 1, rows[d].pos)
<1>1. Cardinality(ids \ {d}) = n - 1
  BY NumberedCardinality, FS_RemoveElement
<1>0. rows[d].pos \in 0 .. n - 1
  BY DEF Numbered
<1>2. ASSUME NEW k \in 1 .. n - 1
      PROVE  /\ ByPosition(rows, ids \ {d})[k] \in ids \ {d}
             /\ rows[ByPosition(rows, ids \ {d})[k]].pos = Before(k - 1, rows[d].pos)
  <2> DEFINE Rank(i) == Cardinality({j \in ids \ {d} : rows[j].pos < rows[i].pos})
  <2>1. ASSUME NEW i \in ids \ {d}
        PROVE  Rank(i) = (IF rows[i].pos < rows[d].pos THEN rows[i].pos ELSE rows[i].pos - 1)
               /\ rows[i].pos # rows[d].pos /\ rows[i].pos \in 0 .. n - 1
    <3>1. rows[i].pos \in 0 .. n - 1 /\ rows[i].pos # rows[d].pos
      BY DEF Numbered
    <3>2. CASE rows[i].pos < rows[d].pos
      <4>1. Before(rows[i].pos, rows[d].pos) = rows[i].pos /\ rows[i].pos \in 0 .. n - 2
        BY <1>0, <3>1, <3>2 DEF Before
      <4>. QED  BY <3>1, <3>2, <4>1, RankWithout
    <3>3. CASE ~(rows[i].pos < rows[d].pos)
      <4> DEFINE m == rows[i].pos - 1
      <4>1. Before(m, rows[d].pos) = rows[i].pos /\ m \in 0 .. n - 2
        BY <1>0, <3>1, <3>3 DEF Before
      <4>2. Cardinality({j \in ids \ {d} : rows[j].pos < Before(m, rows[d].pos)}) = m
        BY <4>1, RankWithout
      <4>. QED  BY <3>1, <3>3, <4>1, <4>2
    <3>. QED  BY <3>2, <3>3
  <2>2. PICK i \in ids : rows[i].pos = Before(k - 1, rows[d].pos)
    <3>1. Before(k - 1, rows[d].pos) \in 0 .. n - 1
      BY <1>0 DEF Before
    <3>. QED  BY <3>1 DEF Numbered
  <2>3. i # d /\ (rows[i].pos < rows[d].pos => rows[i].pos = k - 1)
        /\ (~(rows[i].pos < rows[d].pos) => rows[i].pos - 1 = k - 1)
    BY <1>0, <2>2 DEF Before
  <2>4. ByPosition(rows, ids \ {d})[k] = CHOOSE i2 \in ids \ {d} : Rank(i2) = k - 1
    BY <1>1 DEF ByPosition
  <2> HIDE DEF Rank
  <2>5. Rank(i) = k - 1
    BY <2>1, <2>3
  <2> DEFINE c == ByPosition(rows, ids \ {d})[k]
  <2>6. c \in ids \ {d} /\ Rank(c) = k - 1
    BY <2>3, <2>4, <2>5
  <2> HIDE DEF c
  <2>7. rows[c].pos = Before(k - 1, rows[d].pos)
    BY <1>0, <2>1, <2>6 DEF Before
  <2>. QED  BY <2>6, <2>7 DEF c
<1>3. ByPosition(rows, ids \ {d}) \in [1 .. n - 1 -> ids \ {d}]
  BY <1>1, <1>2 DEF ByPosition
<1>. QED  BY <1>2, <1>3

\* max(position) + 1 is the number of items there are.
LEMMA NextIsLast ==
  ASSUME NEW rows, NEW ids, NEW n \in Nat, Numbered(rows, ids, n)
  PROVE  Max({rows[i].pos : i \in ids} \cup {-1}) + 1 = n
<1> DEFINE S == {rows[i].pos : i \in ids} \cup {-1}
<1>1. n - 1 \in S /\ \A y \in S : n - 1 >= y /\ y \in Int
  BY DEF Numbered
<1> HIDE DEF S
<1>2. Max(S) \in S /\ \A y \in S : Max(S) >= y
  <2> DEFINE P(x) == \A y \in S : x >= y
  <2>1. \E x \in S : P(x)
    BY <1>1
  <2>2. Max(S) = CHOOSE x \in S : P(x)
    BY DEF Max
  <2>. QED  BY <2>1, <2>2
<1>3. Max(S) = n - 1
  BY <1>1, <1>2
<1>. QED  BY <1>3 DEF S

-----------------------------------------------------------------------------
(* One transaction moves, and the tables stay as they are.                 *)

LEMMA SameTables ==
  ASSUME NEW q \in Requests, NEW t, Good(q, t), UNCHANGED <<users, owner, item>>
  PROVE  Good(q, t)'
  BY DEF Good, Places, Rows, Plan, AddPlan, RemovePlan, MovePlan, Own, OwnRow, ItemsOf

LEMMA Apart2 == ASSUME NEW t, NEW u, Apart(t, u) PROVE Apart(u, t)
  BY DEF Apart

LEMMA Moves ==
  ASSUME PlaylistInv, NEW r \in Requests, NEW t, Good(r, t),
         \A q \in Requests \ {r} : Apart(t, txn[q]),
         Update(r, t), UNCHANGED <<users, owner, item, known>>
  PROVE  PlaylistInv'
<1>1. txn' = [txn EXCEPT ![r] = t] /\ t \in TxnRecord
  BY DEF Update, Good
<1>2. txn' \in [Requests -> TxnRecord] /\ txn'[r] = t /\ \A q \in Requests \ {r} : txn'[q] = txn[q]
  BY <1>1 DEF PlaylistInv
<1>3. ASSUME NEW q \in Requests PROVE Good(q, txn[q])'
  <2>1. PICK u : u = txn'[q]
    OBVIOUS
  <2>2. Good(q, u)
    BY <1>2, <2>1 DEF PlaylistInv
  <2>3. Good(q, u)'
    BY <2>2, SameTables
  <2>. QED  BY <2>1, <2>3
<1>4. ASSUME NEW p \in Requests, NEW q \in Requests, p # q PROVE Apart(txn'[p], txn'[q])
  BY <1>2, <1>4, Apart2 DEF PlaylistInv
<1>5. Tables'
  BY DEF PlaylistInv, Tables, ItemsOf
<1>6. TxnRecord' = TxnRecord
  BY DEF TxnRecord, RowsOf, PlaylistIds, ItemIds, Op, Place, Row
<1>. QED  BY <1>2, <1>3, <1>4, <1>5, <1>6 DEF PlaylistInv

-----------------------------------------------------------------------------
(* The ends that change nothing.                                           *)

LEMMA IdleRecord ==
  /\ IdleTxn \in TxnRecord /\ IdleTxn.op = "none" /\ IdleTxn.pc = "idle"
  /\ IdleTxn.list = 0 /\ IdleTxn.made = {} /\ IdleTxn.gone = {} /\ IdleTxn.stored = {}
  /\ DOMAIN IdleTxn.rows = {} /\ IdleTxn.todo = <<>> /\ IdleTxn.order = <<>>
<1>1. <<>> \in RowsOf
  BY DEF RowsOf
<1>2. <<>> \in Seq(ItemIds) /\ <<>> \in Seq(Seq(Tracks))
  OBVIOUS
<1>3. IdleTxn \in TxnRecord
  BY <1>1, <1>2 DEF IdleTxn, TxnRecord, Op, Place
<1>4. /\ IdleTxn.op = "none" /\ IdleTxn.pc = "idle"
      /\ IdleTxn.list = 0 /\ IdleTxn.made = {} /\ IdleTxn.gone = {} /\ IdleTxn.stored = {}
      /\ DOMAIN IdleTxn.rows = {} /\ IdleTxn.todo = <<>> /\ IdleTxn.order = <<>>
  BY DEF IdleTxn
<1>. QED  BY <1>3, <1>4

LEMMA IdleIsGood ==
  ASSUME NEW r \in Requests
  PROVE  Good(r, IdleTxn) /\ \A q \in Requests : Apart(IdleTxn, txn[q])
<1>1. Good(r, IdleTxn)
  BY IdleRecord DEF Good, Kinds, Places, Rows, Plan, LockOps, MakeOps
<1>2. \A q \in Requests : Apart(IdleTxn, txn[q])
  BY IdleRecord DEF Apart, LockOps
<1>. QED  BY <1>1, <1>2

LEMMA EndKeeps ==
  ASSUME PlaylistInv, NEW r \in Requests, End(r), UNCHANGED <<users, owner, item, known>>
  PROVE  PlaylistInv'
  BY IdleIsGood, Moves DEF End

LEMMA PlaylistsInit == Init => PlaylistInv
<1> SUFFICES ASSUME Init PROVE PlaylistInv
  OBVIOUS
<1>1. Tables
  <2>1. /\ DOMAIN owner = {} /\ DOMAIN item = {} /\ item = <<>> /\ owner = <<>>
        /\ users \subseteq Users /\ known \subseteq Tracks
    BY SourcesAssumption DEF Init
  <2>2. <<>> \in RowsOf /\ <<>> \in [{} -> users]
    BY DEF RowsOf
  <2>. QED  BY <2>1, <2>2 DEF Tables
<1>2. \A r \in Requests : txn[r] = IdleTxn
  BY DEF Init
<1>3. txn \in [Requests -> TxnRecord]
  BY IdleRecord DEF Init
<1>4. ASSUME NEW r \in Requests PROVE Good(r, txn[r]) /\ \A q \in Requests : Apart(txn[r], txn[q])
  BY <1>2, IdleIsGood
<1>. QED  BY <1>1, <1>3, <1>4 DEF PlaylistInv

-----------------------------------------------------------------------------
(* What a statement sees.                                                  *)

LEMMA SeenRows ==
  ASSUME NEW r \in Requests
  PROVE  /\ DOMAIN Seen(r) = (DOMAIN item \cup DOMAIN txn[r].rows) \ txn[r].gone
         /\ \A i \in DOMAIN Seen(r) :
              Seen(r)[i] = IF i \in DOMAIN txn[r].rows THEN txn[r].rows[i] ELSE item[i]
  BY DEF Seen

\* In the playlist that is locked: the items of the table and of the
\* transaction.
LEMMA SeenHere ==
  ASSUME PlaylistInv, NEW r \in Requests, txn[r].op \in LockOps
  PROVE  /\ SeenIn(r, txn[r].list) = Own(txn[r])
         /\ \A i \in Own(txn[r]) : Seen(r)[i] = OwnRow(txn[r])[i]
<1>1. Rows(txn[r])
  BY DEF PlaylistInv, Good
<1>2. \A i \in DOMAIN txn[r].rows : txn[r].rows[i].list = txn[r].list
  BY <1>1 DEF Rows
<1>3. ASSUME NEW i
      PROVE  i \in SeenIn(r, txn[r].list) <=> i \in Own(txn[r])
  <2>1. CASE i \in DOMAIN txn[r].rows
    BY <1>2, <2>1, SeenRows DEF SeenIn, Own
  <2>2. CASE i \notin DOMAIN txn[r].rows
    BY <2>2, SeenRows DEF SeenIn, Own, ItemsOf
  <2>. QED  BY <2>1, <2>2
<1>4. SeenIn(r, txn[r].list) = Own(txn[r])
  BY <1>3
<1>5. \A i \in Own(txn[r]) : i \in DOMAIN Seen(r)
  BY <1>4 DEF SeenIn
<1>. QED  BY <1>4, <1>5, SeenRows DEF OwnRow

\* Before the transaction has written anything: the table.
LEMMA OwnUntouched ==
  ASSUME NEW t, DOMAIN t.rows = {}
  PROVE  /\ Own(t) = ItemsOf(t.list) \ t.gone
         /\ \A i \in Own(t) : OwnRow(t)[i] = item[i]
  BY DEF Own, OwnRow

LEMMA SeenUntouched ==
  ASSUME PlaylistInv, NEW r \in Requests, txn[r].op \in LockOps, DOMAIN txn[r].rows = {},
         txn[r].gone = {}
  PROVE  /\ SeenIn(r, txn[r].list) = ItemsOf(txn[r].list)
         /\ \A i \in ItemsOf(txn[r].list) : Seen(r)[i] = item[i]
<1>1. Own(txn[r]) = ItemsOf(txn[r].list)
  BY OwnUntouched
<1>2. \A i \in Own(txn[r]) : OwnRow(txn[r])[i] = item[i]
  BY OwnUntouched
<1>. QED  BY <1>1, <1>2, SeenHere

LEMMA SeenMade ==
  ASSUME PlaylistInv, NEW r \in Requests, txn[r].op \in MakeOps, NEW p \in txn[r].made
  PROVE  /\ SeenIn(r, p) = RowsIn(txn[r], p)
         /\ \A i \in RowsIn(txn[r], p) : Seen(r)[i] = txn[r].rows[i]
<1>1. Rows(txn[r]) /\ Places(r, txn[r]) /\ Tables
  BY DEF PlaylistInv, Good
<1>2. txn[r].gone = {} /\ p \notin DOMAIN owner /\ \A i \in DOMAIN item : item[i].list \in DOMAIN owner
  BY <1>1 DEF Rows, Places, Tables, MakeOps
<1>3. ASSUME NEW i
      PROVE  i \in SeenIn(r, p) <=> i \in RowsIn(txn[r], p)
  <2>1. CASE i \in DOMAIN txn[r].rows
    BY <1>2, <2>1, SeenRows DEF SeenIn, RowsIn
  <2>2. CASE i \notin DOMAIN txn[r].rows
    <3>1. i \in DOMAIN Seen(r) => i \in DOMAIN item /\ Seen(r)[i] = item[i]
      BY <2>2, SeenRows
    <3>. QED  BY <1>2, <2>2, <3>1 DEF SeenIn, RowsIn
  <2>. QED  BY <2>1, <2>2
<1>4. SeenIn(r, p) = RowsIn(txn[r], p)
  BY <1>3
<1>5. \A i \in RowsIn(txn[r], p) : i \in DOMAIN Seen(r) /\ i \in DOMAIN txn[r].rows
  BY <1>4 DEF SeenIn, RowsIn
<1>. QED  BY <1>4, <1>5, SeenRows

\* Numbers depend on nothing but the positions of the rows there are.
LEMMA SameNumbers ==
  ASSUME NEW f, NEW g, NEW ids, NEW n, Numbered(f, ids, n), \A i \in ids : g[i].pos = f[i].pos
  PROVE  Numbered(g, ids, n)
  BY DEF Numbered

-----------------------------------------------------------------------------
(* New ids.                                                                *)

LEMMA SmallestId ==
  ASSUME NEW S \in SUBSET Nat, S # {}
  PROVE  Min(S) \in S
<1> DEFINE Less == {ss \in Nat \X Nat : ss[1] < ss[2]}
<1>1. IsWellFoundedOn(Less, Nat)
  BY NatLessThanWellFounded DEF OpToRel
<1> HIDE DEF Less
<1>2. PICK x \in S : \A y \in S : <<y, x>> \notin Less
  BY <1>1, WFMin
<1>3. ASSUME NEW y \in S PROVE x =< y
  <2>1. x \in Nat /\ y \in Nat
    OBVIOUS
  <2>2. ~(y < x)
    BY <1>2, <2>1 DEF Less
  <2>. QED  BY <2>1, <2>2
<1>. QED  BY <1>3 DEF Min

LEMMA NewItem ==
  ASSUME FreeItems # {}
  PROVE  /\ Min(FreeItems) \in ItemIds /\ Min(FreeItems) \notin DOMAIN item
         /\ \A q \in Requests : Min(FreeItems) \notin DOMAIN txn[q].rows
<1>1. FreeItems \in SUBSET Nat
  BY BoundsAssumption DEF FreeItems, ItemIds
<1>2. Min(FreeItems) \in FreeItems
  BY <1>1, SmallestId
<1>3. ASSUME NEW q \in Requests PROVE Min(FreeItems) \notin DOMAIN txn[q].rows
  <2> DEFINE Has(q2) == DOMAIN txn[q2].rows \cup ToSet(txn[q2].order) \cup {txn[q2].item}
  <2>1. Min(FreeItems) \notin UNION {Has(q2) : q2 \in Requests}
    BY <1>2 DEF FreeItems
  <2>2. Has(q) \in {Has(q2) : q2 \in Requests}
    OBVIOUS
  <2>3. Min(FreeItems) \notin Has(q)
    BY <2>1, <2>2
  <2>. QED  BY <2>3
<1>. QED  BY <1>2, <1>3 DEF FreeItems

LEMMA NewPlaylist ==
  ASSUME FreePlaylists # {}
  PROVE  /\ Min(FreePlaylists) \in PlaylistIds /\ Min(FreePlaylists) \notin DOMAIN owner
         /\ \A q \in Requests : Min(FreePlaylists) \notin txn[q].made
<1>1. FreePlaylists \in SUBSET Nat
  BY BoundsAssumption DEF FreePlaylists, PlaylistIds
<1>2. Min(FreePlaylists) \in FreePlaylists
  BY <1>1, SmallestId
<1>3. ASSUME NEW q \in Requests PROVE Min(FreePlaylists) \notin txn[q].made
  <2> DEFINE Has(q2) == txn[q2].made \cup {txn[q2].list}
  <2>1. Min(FreePlaylists) \notin UNION {Has(q2) : q2 \in Requests}
    BY <1>2 DEF FreePlaylists
  <2>2. Has(q) \in {Has(q2) : q2 \in Requests}
    OBVIOUS
  <2>3. Min(FreePlaylists) \notin Has(q)
    BY <2>1, <2>2
  <2>. QED  BY <2>3
<1>. QED  BY <1>2, <1>3 DEF FreePlaylists

-----------------------------------------------------------------------------
(* Requests begin.                                                         *)

LEMMA HeldOnce ==
  ASSUME PlaylistInv, NEW p, Free(p), NEW q \in Requests, txn[q].op \in LockOps
  PROVE  txn[q].list # p
<1>1. Kinds(txn[q])
  BY DEF PlaylistInv, Good
<1>2. txn[q].pc \in {"locked", "placed", "picked", "aside", "written"}
  BY <1>1 DEF Kinds, LockOps
<1>. QED  BY <1>2 DEF Free, Holds, LockOps

LEMMA LockStep ==
  ASSUME PlaylistInv, NEW r \in Requests, NEW p, Free(p), NEW x, Good(r, x),
         x.list = p, DOMAIN x.rows = {}, x.made = {},
         Update(r, x), UNCHANGED <<users, owner, item, known>>
  PROVE  PlaylistInv'
<1>1. ASSUME NEW q \in Requests \ {r} PROVE Apart(x, txn[q])
  BY HeldOnce DEF Apart
<1>. QED  BY <1>1, Moves

LEMMA LockForAddKeeps ==
  ASSUME PlaylistInv, NEW r \in Requests, NEW p, LockForAdd(r, p)
  PROVE  PlaylistInv'
<1>1. PICK t \in known : Lock(r, p, [IdleTxn EXCEPT !.op = "add", !.pc = "locked", !.todo = <<<<t>>>>])
  BY DEF LockForAdd
<1> DEFINE todo == <<<<t>>>>
           y == [IdleTxn EXCEPT !.op = "add", !.pc = "locked", !.todo = todo]
           x == [y EXCEPT !.list = p]
<1>2. todo \in Seq(Seq(Tracks)) /\ todo # <<>> /\ todo[1] # <<>>
  BY DEF PlaylistInv, Tables
<1>3. /\ Free(p) /\ p \in DOMAIN owner /\ Update(r, x) /\ p \in PlaylistIds
      /\ UNCHANGED <<users, owner, item, known>>
  BY <1>1 DEF Lock, PlaylistInv, Tables
<1> HIDE DEF todo
<1>4. /\ x \in TxnRecord /\ x.op = "add" /\ x.pc = "locked" /\ x.list = p /\ x.todo = todo
      /\ DOMAIN x.rows = {} /\ x.made = {} /\ x.gone = {}
  BY <1>2, <1>3, IdleRecord DEF TxnRecord, Op, Place
<1> HIDE DEF x
<1>5. Good(r, x)
  BY <1>2, <1>3, <1>4 DEF Good, Kinds, Places, Rows, Plan, AddPlan, LockOps, MakeOps
<1>. QED  BY <1>3, <1>4, <1>5, LockStep

LEMMA LockForRemoveKeeps ==
  ASSUME PlaylistInv, NEW r \in Requests, NEW p, LockForRemove(r, p)
  PROVE  PlaylistInv'
<1>1. PICK i \in ItemsOf(p) : Lock(r, p, [IdleTxn EXCEPT !.op = "remove", !.pc = "locked", !.item = i])
  BY DEF LockForRemove
<1> DEFINE y == [IdleTxn EXCEPT !.op = "remove", !.pc = "locked", !.item = i]
           x == [y EXCEPT !.list = p]
<1>3. /\ Free(p) /\ p \in DOMAIN owner /\ Update(r, x) /\ p \in PlaylistIds
      /\ UNCHANGED <<users, owner, item, known>>
  BY <1>1 DEF Lock, PlaylistInv, Tables
<1>2. i \in ItemIds
  BY DEF PlaylistInv, Tables, RowsOf, ItemsOf
<1>4. /\ x \in TxnRecord /\ x.op = "remove" /\ x.pc = "locked" /\ x.list = p /\ x.item = i
      /\ DOMAIN x.rows = {} /\ x.made = {} /\ x.gone = {}
  BY <1>2, <1>3, IdleRecord DEF TxnRecord, Op, Place
<1> HIDE DEF x
<1>5. Good(r, x)
  BY <1>3, <1>4 DEF Good, Kinds, Places, Rows, Plan, RemovePlan, MovePlan, LockOps, MakeOps
<1>. QED  BY <1>3, <1>4, <1>5, LockStep

\* An order that names every item once.
LEMMA WholeOrder ==
  ASSUME NEW S, IsFiniteSet(S), NEW ids \in SetToSeqs(S)
  PROVE  Lists(ids, S)
<1>1. /\ ids \in [1 .. Cardinality(S) -> S]
      /\ \A k, l \in 1 .. Cardinality(S) : k # l => ids[k] # ids[l]
  BY DEF SetToSeqs
<1>2. Cardinality(S) \in Nat
  BY FS_CardinalityType
<1>3. IsFiniteSet(1 .. Cardinality(S)) /\ Cardinality(1 .. Cardinality(S)) = Cardinality(S)
  BY <1>2, FS_Interval
<1>4. ids \in Injection(1 .. Cardinality(S), S)
  BY <1>1 DEF Injection, IsInjective
<1>5. ids \in Surjection(1 .. Cardinality(S), S)
  BY <1>3, <1>4, FS_Injection
<1>. QED  BY <1>1, <1>5 DEF Lists, Surjection

LEMMA LockForReorderKeeps ==
  ASSUME PlaylistInv, NEW r \in Requests, NEW p, p \in DOMAIN owner, LockForReorder(r, p)
  PROVE  PlaylistInv'
<1>1. PICK ids \in SetToSeqs(ItemsOf(p)) :
        Lock(r, p, [IdleTxn EXCEPT !.op = "reorder", !.pc = "picked", !.order = ids])
  BY DEF LockForReorder
<1> DEFINE y == [IdleTxn EXCEPT !.op = "reorder", !.pc = "picked", !.order = ids]
           x == [y EXCEPT !.list = p]
<1>2. PICK n \in Nat : Numbered(item, ItemsOf(p), n)
  BY DEF PlaylistInv, Tables, Packed
<1>3. IsFiniteSet(ItemsOf(p)) /\ Cardinality(ItemsOf(p)) = n
  BY <1>2, NumberedCardinality
<1>4. Lists(ids, ItemsOf(p))
  BY <1>3, WholeOrder
<1>5. ids \in Seq(ItemIds)
  <2>1. ItemsOf(p) \subseteq ItemIds
    BY DEF PlaylistInv, Tables, RowsOf, ItemsOf
  <2>2. ids \in [1 .. n -> ItemIds]
    BY <1>3, <2>1 DEF SetToSeqs
  <2>. QED  BY <2>2
<1>6. /\ Free(p) /\ Update(r, x) /\ p \in PlaylistIds
      /\ UNCHANGED <<users, owner, item, known>>
  BY <1>1 DEF Lock, PlaylistInv, Tables
<1>7. /\ x \in TxnRecord /\ x.op = "reorder" /\ x.pc = "picked" /\ x.list = p /\ x.order = ids
      /\ DOMAIN x.rows = {} /\ x.made = {} /\ x.gone = {}
  BY <1>5, <1>6, IdleRecord DEF TxnRecord, Op, Place
<1> HIDE DEF x
<1>8. Own(x) = ItemsOf(p)
  BY <1>7, OwnUntouched
<1>9. Good(r, x)
  BY <1>4, <1>6, <1>7, <1>8 DEF Good, Kinds, Places, Rows, Plan, MovePlan, LockOps, MakeOps
<1>. QED  BY <1>6, <1>7, <1>9, LockStep

LEMMA LockForOtherKeeps ==
  ASSUME PlaylistInv, NEW r \in Requests, NEW p, p \in DOMAIN owner, LockForOther(r, p)
  PROVE  PlaylistInv'
<1>1. PICK op \in {"rename", "drop"} : Lock(r, p, [IdleTxn EXCEPT !.op = op, !.pc = "written"])
  BY DEF LockForOther
<1> DEFINE y == [IdleTxn EXCEPT !.op = op, !.pc = "written"]
           x == [y EXCEPT !.list = p]
<1>2. PICK n \in Nat : Numbered(item, ItemsOf(p), n)
  BY DEF PlaylistInv, Tables, Packed
<1>3. /\ Free(p) /\ Update(r, x) /\ p \in PlaylistIds
      /\ UNCHANGED <<users, owner, item, known>>
  BY <1>1 DEF Lock, PlaylistInv, Tables
<1>4. /\ x \in TxnRecord /\ x.op = op /\ x.pc = "written" /\ x.list = p
      /\ DOMAIN x.rows = {} /\ x.made = {} /\ x.gone = {}
  BY <1>3, IdleRecord DEF TxnRecord, Op, Place
<1> HIDE DEF x
<1>5. Own(x) = ItemsOf(p) /\ \A i \in Own(x) : OwnRow(x)[i] = item[i]
  BY <1>4, OwnUntouched
<1>6. Packed(OwnRow(x), Own(x))
  BY <1>2, <1>5, SameNumbers DEF Packed
<1>7. Good(r, x)
  BY <1>3, <1>4, <1>6 DEF Good, Kinds, Places, Rows, Plan, LockOps, MakeOps
<1>. QED  BY <1>3, <1>4, <1>7, LockStep

\* A request that makes playlists has nothing yet.
LEMMA BeginStep ==
  ASSUME PlaylistInv, NEW r \in Requests, NEW x \in TxnRecord, Begin(r, x),
         x.op \in MakeOps, x.pc \in {"start", "fetch"}, x.list = 0,
         DOMAIN x.rows = {}, x.made = {}, x.gone = {},
         x.op = "create" => x.pc = "start", x.op # "create" => x.todo # <<>>
  PROVE  PlaylistInv'
<1>1. Good(r, x)
  BY DEF Good, Kinds, Places, Rows, Plan, MakePlan, LockOps, MakeOps
<1>2. \A q \in Requests \ {r} : Apart(x, txn[q])
  BY DEF Apart, LockOps, MakeOps
<1>. QED  BY <1>1, <1>2, Moves DEF Begin

LEMMA BeginKeeps ==
  ASSUME PlaylistInv, NEW r \in Requests,
         \/ BeginCreate(r)
         \/ \E ts \in Files : BeginFile(r, ts)
         \/ \E tss \in Shelves : BeginShelf(r, tss)
  PROVE  PlaylistInv'
<1>1. CASE BeginCreate(r)
  <2> DEFINE x == [IdleTxn EXCEPT !.op = "create", !.pc = "start"]
  <2>1. /\ x \in TxnRecord /\ x.op = "create" /\ x.pc = "start" /\ x.list = 0
        /\ DOMAIN x.rows = {} /\ x.made = {} /\ x.gone = {}
    BY IdleRecord DEF TxnRecord, Op, Place
  <2>2. Begin(r, x)
    BY <1>1 DEF BeginCreate
  <2> HIDE DEF x
  <2>. QED  BY <2>1, <2>2, BeginStep DEF MakeOps
<1>2. ASSUME NEW op \in {"file", "shelf"}, NEW pc \in {"start", "fetch"},
             NEW todo \in Seq(Seq(Tracks)), todo # <<>>,
             Begin(r, [IdleTxn EXCEPT !.op = op, !.pc = pc, !.todo = todo])
      PROVE  PlaylistInv'
  <2> DEFINE x == [IdleTxn EXCEPT !.op = op, !.pc = pc, !.todo = todo]
  <2>1. /\ x \in TxnRecord /\ x.op = op /\ x.pc = pc /\ x.list = 0 /\ x.todo = todo
        /\ DOMAIN x.rows = {} /\ x.made = {} /\ x.gone = {}
    BY IdleRecord DEF TxnRecord, Op, Place
  <2>2. Begin(r, x)
    BY <1>2
  <2> HIDE DEF x
  <2>. QED  BY <1>2, <2>1, <2>2, BeginStep DEF MakeOps
<1>3. ASSUME NEW ts \in Files, BeginFile(r, ts) PROVE PlaylistInv'
  <2> DEFINE todo == <<ts>>
  <2>1. todo \in Seq(Seq(Tracks)) /\ todo # <<>>
    BY SourcesAssumption
  <2>2. Begin(r, [IdleTxn EXCEPT !.op = "file", !.pc = "start", !.todo = todo])
    BY <1>3 DEF BeginFile
  <2> HIDE DEF todo
  <2>. QED  BY <1>2, <2>1, <2>2
<1>4. ASSUME NEW tss \in Shelves, BeginShelf(r, tss) PROVE PlaylistInv'
  <2>1. tss \in Seq(Seq(Tracks)) /\ tss # <<>>
    BY SourcesAssumption
  <2>. QED  BY <1>2, <1>4, <2>1 DEF BeginShelf
<1>. QED  BY <1>1, <1>3, <1>4

LEMMA RequestBeginsKeeps ==
  ASSUME PlaylistInv, NEW r \in Requests, RequestBegins(r)
  PROVE  PlaylistInv'
  BY LockForAddKeeps, LockForRemoveKeeps, LockForReorderKeeps, LockForOtherKeeps, BeginKeeps
     DEF RequestBegins

-----------------------------------------------------------------------------
(* Items are added, removed and reordered.                                 *)

LEMMA Current ==
  ASSUME PlaylistInv, NEW r \in Requests
  PROVE  /\ txn[r] \in TxnRecord /\ Kinds(txn[r]) /\ Places(r, txn[r]) /\ Rows(txn[r]) /\ Plan(txn[r])
         /\ Tables
         /\ \A q \in Requests \ {r} : Apart(txn[r], txn[q])
  BY DEF PlaylistInv, Good

\* A step that writes no rows keeps the transaction apart from the others.
LEMMA SameApart ==
  ASSUME NEW t, NEW u, Apart(t, u), NEW x, x.op = t.op, x.list = t.list, x.made = t.made,
         DOMAIN x.rows \subseteq DOMAIN t.rows
  PROVE  Apart(x, u)
  BY DEF Apart

LEMMA ReadPositionKeeps ==
  ASSUME PlaylistInv, NEW r \in Requests, ReadPosition(r)
  PROVE  PlaylistInv'
<1> DEFINE t == txn[r]
           pos == NextPosition(r, t.list)
           x == [t EXCEPT !.pc = "placed", !.pos = pos]
<1>1. /\ t.op = "add" /\ t.pc = "locked" /\ Update(r, x)
      /\ UNCHANGED <<users, owner, item, known>>
  BY DEF ReadPosition
<1>2. t \in TxnRecord /\ Kinds(t) /\ Places(r, t) /\ Rows(t) /\ Plan(t) /\ Tables
  BY Current
<1>3. DOMAIN t.rows = {} /\ t.gone = {} /\ t.list \in DOMAIN owner
  BY <1>1, <1>2 DEF Plan, AddPlan, Rows, Places, LockOps
<1>4. PICK n \in Nat : Numbered(item, ItemsOf(t.list), n)
  BY <1>2, <1>3 DEF Tables, Packed
<1>5. pos = n
  <2>1. /\ SeenIn(r, t.list) = ItemsOf(t.list)
        /\ \A i \in ItemsOf(t.list) : Seen(r)[i] = item[i]
    BY <1>1, <1>3, SeenUntouched DEF LockOps
  <2>2. Numbered(Seen(r), SeenIn(r, t.list), n)
    BY <1>4, <2>1, SameNumbers
  <2>. QED  BY <2>2, NextIsLast DEF NextPosition
<1> HIDE DEF pos
<1>6. /\ x \in TxnRecord /\ x.op = t.op /\ x.pc = "placed" /\ x.pos = n /\ x.list = t.list
      /\ x.rows = t.rows /\ x.gone = t.gone /\ x.made = t.made /\ x.todo = t.todo
  BY <1>2, <1>5 DEF TxnRecord, Place
<1> HIDE DEF x
<1>7. Good(r, x)
  BY <1>1, <1>2, <1>3, <1>4, <1>6 DEF Good, Kinds, Places, Rows, Plan, AddPlan, LockOps, MakeOps
<1>8. \A q \in Requests \ {r} : Apart(x, txn[q])
  BY <1>6, Current, SameApart
<1>. QED  BY <1>1, <1>7, <1>8, Moves

\* One more row, at the end.
LEMMA OneMore ==
  ASSUME NEW f, NEW g, NEW ids, NEW n \in Nat, Numbered(f, ids, n), NEW i, i \notin ids,
         \A j \in ids : g[j].pos = f[j].pos, g[i].pos = n
  PROVE  Numbered(g, ids \cup {i}, n + 1)
<1>1. ASSUME NEW k \in 0 .. n PROVE \E j \in ids \cup {i} : g[j].pos = k
  <2>1. CASE k = n
    BY <2>1
  <2>2. CASE k # n
    BY <2>2 DEF Numbered
  <2>. QED  BY <2>1, <2>2
<1>2. \A j \in ids \cup {i} : g[j].pos \in 0 .. n
  BY DEF Numbered
<1>3. \A j, k \in ids \cup {i} : g[j].pos = g[k].pos => j = k
  BY DEF Numbered
<1>4. (n + 1) - 1 = n
  OBVIOUS
<1>. QED  BY <1>1, <1>2, <1>3, <1>4 DEF Numbered

\* The rows of a transaction with one that is new.
LEMMA InsertedRows ==
  ASSUME PlaylistInv, NEW r \in Requests, FreeItems # {}, NEW p \in PlaylistIds,
         NEW t \in Tracks, NEW pos \in Nat
  PROVE  /\ Inserted(r, p, t, pos) \in RowsOf
         /\ DOMAIN Inserted(r, p, t, pos) = DOMAIN txn[r].rows \cup {Min(FreeItems)}
         /\ \A i \in DOMAIN txn[r].rows : Inserted(r, p, t, pos)[i] = txn[r].rows[i]
         /\ Inserted(r, p, t, pos)[Min(FreeItems)] = [list |-> p, track |-> t, pos |-> pos]
<1> DEFINE new == Min(FreeItems)
           old == txn[r].rows
           row == [list |-> p, track |-> t, pos |-> pos]
           all == Inserted(r, p, t, pos)
<1>1. new \in ItemIds /\ new \notin DOMAIN old
  BY NewItem
<1>2. old \in RowsOf
  BY Current DEF TxnRecord
<1>3. row \in Row
  BY DEF Row
<1>4. all = [i \in {new} \cup DOMAIN old |-> IF i \in {new} THEN row ELSE old[i]]
  BY DEF Inserted, Over
<1> HIDE DEF new, old, row, all
<1>5. all \in [DOMAIN old \cup {new} -> Row] /\ DOMAIN old \cup {new} \in SUBSET ItemIds
  BY <1>1, <1>2, <1>3, <1>4 DEF RowsOf
<1>6. all \in RowsOf
  BY <1>5 DEF RowsOf
<1>7. \A i \in DOMAIN old : all[i] = old[i]
  BY <1>1, <1>4
<1>8. all[new] = row
  BY <1>4
<1>. QED  BY <1>5, <1>6, <1>7, <1>8 DEF new, old, row, all

LEMMA InsertItemKeeps ==
  ASSUME PlaylistInv, NEW r \in Requests, InsertItem(r)
  PROVE  PlaylistInv'
<1> DEFINE t == txn[r]
           p == t.list
           new == Min(FreeItems)
           rows == Inserted(r, p, NextTrack(r), t.pos)
           x == [t EXCEPT !.pc = "written", !.todo = <<>>, !.pos = 0, !.rows = rows]
<1>1. t.pc = "placed" /\ FreeItems # {} /\ UNCHANGED <<users, owner, item, known>>
  BY DEF InsertItem
<1>2. t \in TxnRecord /\ Kinds(t) /\ Places(r, t) /\ Rows(t) /\ Plan(t) /\ Tables
  BY Current
<1>3. t.op = "add" /\ t.todo # <<>> /\ t.todo[1] # <<>>
  BY <1>1, <1>2 DEF Kinds, TxnRecord, Op
<1>4. DOMAIN t.rows = {} /\ t.gone = {} /\ p \in PlaylistIds /\ t.pos \in Nat /\ p \in DOMAIN owner
  BY <1>1, <1>2, <1>3 DEF Plan, AddPlan, Rows, Places, TxnRecord, LockOps, Tables
<1>5. Numbered(item, ItemsOf(p), t.pos)
  BY <1>1, <1>2, <1>3 DEF Plan, AddPlan
<1>6. /\ SeenIn(r, p) = ItemsOf(p)
      /\ \A i \in ItemsOf(p) : Seen(r)[i] = item[i]
  BY <1>3, <1>4, SeenUntouched DEF LockOps
<1>7. ~\E i \in SeenIn(r, p) : Seen(r)[i].pos = t.pos
  BY <1>4, <1>5, <1>6 DEF Numbered
<1>8. Update(r, x)
  BY <1>7 DEF InsertItem
<1>9. NextTrack(r) \in Tracks
  <2>1. t.todo \in Seq(Seq(Tracks))
    BY <1>2 DEF TxnRecord
  <2>2. t.todo[1] \in Seq(Tracks)
    BY <1>3, <2>1
  <2>. QED  BY <1>3, <2>2 DEF NextTrack
<1>10. /\ rows \in RowsOf /\ DOMAIN rows = {new}
       /\ rows[new] = [list |-> p, track |-> NextTrack(r), pos |-> t.pos]
  BY <1>1, <1>4, <1>9, InsertedRows
<1>11. new \notin DOMAIN item /\ \A q \in Requests : new \notin DOMAIN txn[q].rows
  BY <1>1, NewItem
<1> HIDE DEF rows, new
<1>a. <<>> \in Seq(Seq(Tracks)) /\ 0 \in Nat
  OBVIOUS
<1>12. /\ x \in TxnRecord /\ x.op = "add" /\ x.pc = "written" /\ x.list = p
       /\ x.rows = rows /\ x.gone = {} /\ x.made = t.made
  BY <1>2, <1>3, <1>4, <1>10, <1>a DEF TxnRecord, Place
<1> HIDE DEF x
<1>13. rows[new].list = p /\ rows[new].pos = t.pos
  BY <1>10
<1>14. Packed(OwnRow(x), Own(x))
  <2>1. Own(x) = ItemsOf(p) \cup {new} /\ new \notin ItemsOf(p)
    BY <1>10, <1>11, <1>12 DEF Own, ItemsOf
  <2>2. OwnRow(x)[new].pos = t.pos /\ \A i \in ItemsOf(p) : OwnRow(x)[i].pos = item[i].pos
    BY <1>10, <1>12, <1>13, <2>1 DEF OwnRow
  <2>3. Numbered(OwnRow(x), Own(x), t.pos + 1)
    BY <1>4, <1>5, <2>1, <2>2, OneMore
  <2>. QED  BY <1>4, <2>3 DEF Packed
<1>15. Good(r, x)
  BY <1>2, <1>3, <1>4, <1>5, <1>10, <1>11, <1>12, <1>13, <1>14
     DEF Good, Kinds, Places, Rows, Plan, AddPlan, LockOps, MakeOps
<1>16. ASSUME NEW q \in Requests \ {r} PROVE Apart(x, txn[q])
  <2>1. Apart(t, txn[q])
    BY Current
  <2>. QED  BY <1>3, <1>10, <1>11, <1>12, <2>1 DEF Apart
<1>. QED  BY <1>1, <1>8, <1>15, <1>16, Moves

\* The rest in order of position names each item once.
LEMMA RestIsListed ==
  ASSUME NEW rows, NEW ids, NEW n \in Nat, Numbered(rows, ids, n), NEW d \in ids,
         NEW o \in [1 .. n - 1 -> ids \ {d}],
         \A k \in 1 .. n - 1 : rows[o[k]].pos = Before(k - 1, rows[d].pos)
  PROVE  Lists(o, ids \ {d})
<1>0. rows[d].pos \in 0 .. n - 1 /\ DOMAIN o = 1 .. n - 1
  BY DEF Numbered
<1>1. ASSUME NEW k \in 1 .. n - 1, NEW l \in 1 .. n - 1, o[k] = o[l] PROVE k = l
  BY <1>0, <1>1 DEF Before
<1>2. ASSUME NEW i \in ids \ {d} PROVE \E k \in 1 .. n - 1 : o[k] = i
  <2> DEFINE m == rows[i].pos
             k == IF m < rows[d].pos THEN m + 1 ELSE m
  <2>1. m \in 0 .. n - 1 /\ m # rows[d].pos
    BY DEF Numbered
  <2>2. k \in 1 .. n - 1 /\ Before(k - 1, rows[d].pos) = m
    BY <1>0, <2>1 DEF Before
  <2> HIDE DEF k
  <2>3. rows[o[k]].pos = rows[i].pos /\ o[k] \in ids
    BY <2>2
  <2>4. o[k] = i
    BY <2>3 DEF Numbered
  <2>. QED  BY <2>2, <2>4
<1>. QED  BY <1>0, <1>1, <1>2 DEF Lists

LEMMA DeleteItemKeeps ==
  ASSUME PlaylistInv, NEW r \in Requests, DeleteItem(r)
  PROVE  PlaylistInv'
<1> DEFINE t == txn[r]
           ids == ItemsOf(t.list)
           d == t.item
           o == Remaining(r)
           x == [t EXCEPT !.gone = {d}, !.order = o, !.pc = IF o = <<>> THEN "written" ELSE "picked"]
<1>1. t.op = "remove" /\ t.pc = "locked" /\ Update(r, x) /\ UNCHANGED <<users, owner, item, known>>
  BY DEF DeleteItem
<1>2. t \in TxnRecord /\ Kinds(t) /\ Places(r, t) /\ Rows(t) /\ Plan(t) /\ Tables
  BY Current
<1>3. DOMAIN t.rows = {} /\ t.gone = {} /\ d \in ids /\ t.list \in DOMAIN owner /\ t.made = {}
  BY <1>1, <1>2 DEF Plan, RemovePlan, Places, LockOps
<1>4. PICK n \in Nat : Numbered(item, ids, n)
  BY <1>2, <1>3 DEF Tables, Packed
<1>5. SeenIn(r, t.list) = ids /\ \A i \in ids : Seen(r)[i] = item[i]
  BY <1>1, <1>3, SeenUntouched DEF LockOps
<1>6. ids \subseteq ItemIds
  BY <1>2 DEF Tables, RowsOf, ItemsOf
<1> HIDE DEF ids
<1>7. Numbered(Seen(r), ids, n)
  BY <1>4, <1>5, SameNumbers
<1>8. o = ByPosition(Seen(r), ids \ {d})
  BY <1>5 DEF Remaining
<1>9. /\ o \in [1 .. n - 1 -> ids \ {d}]
      /\ \A k \in 1 .. n - 1 : Seen(r)[o[k]].pos = Before(k - 1, Seen(r)[d].pos)
  BY <1>3, <1>7, <1>8, ByPositionWithout
<1> HIDE DEF o
<1>10. \A k \in 1 .. n - 1 : item[o[k]].pos = Before(k - 1, item[d].pos)
  BY <1>3, <1>5, <1>9
<1>11. Lists(o, ids \ {d})
  BY <1>3, <1>4, <1>9, <1>10, RestIsListed
<1>12. o \in Seq(ItemIds)
  <2>1. o \in [1 .. n - 1 -> ItemIds] /\ n >= 1
    <3>1. item[d].pos \in 0 .. n - 1
      BY <1>3, <1>4 DEF Numbered
    <3>. QED  BY <1>6, <1>9, <3>1
  <2>. QED  BY <2>1
<1>13. d \in ItemIds
  BY <1>3, <1>6
<1>14. /\ x \in TxnRecord /\ x.op = "remove" /\ x.pc = (IF o = <<>> THEN "written" ELSE "picked")
       /\ x.list = t.list /\ x.item = d /\ x.order = o /\ x.rows = t.rows /\ x.gone = {d}
       /\ x.made = {}
  BY <1>1, <1>2, <1>3, <1>12, <1>13 DEF TxnRecord, Place
<1> HIDE DEF x
<1>15. Own(x) = ids \ {d}
  BY <1>3, <1>14 DEF Own, ids
<1>16. o = <<>> => Own(x) = {}
  BY <1>11, <1>15 DEF Lists
<1>17. o = <<>> => Packed(OwnRow(x), Own(x))
  <2>1. Numbered(OwnRow(x), {}, 0)
    BY DEF Numbered
  <2>. QED  BY <1>16, <2>1 DEF Packed
<1>18. MovePlan(x)
  BY <1>3, <1>11, <1>14, <1>15 DEF MovePlan
<1>19. RemovePlan(x)
  BY <1>3, <1>9, <1>10, <1>14, <1>16 DEF RemovePlan, ids
<1>20. Good(r, x)
  BY <1>2, <1>3, <1>14, <1>17, <1>18, <1>19 DEF Good, Kinds, Places, Rows, Plan, LockOps, MakeOps
<1>21. \A q \in Requests \ {r} : Apart(x, txn[q])
  BY <1>1, <1>3, <1>14, Current, SameApart
<1>. QED  BY <1>1, <1>20, <1>21, Moves

\* The rows of one playlist are nobody else's.
LEMMA RowsOfOthers ==
  ASSUME PlaylistInv, NEW r \in Requests, txn[r].op \in LockOps, NEW q \in Requests \ {r}
  PROVE  DOMAIN txn[q].rows \cap ItemsOf(txn[r].list) = {}
<1>1. Rows(txn[q]) /\ txn[q].op \in Op /\ Apart(txn[r], txn[q])
  BY Current DEF TxnRecord
<1>2. CASE txn[q].op \in {"remove", "reorder"}
  BY <1>1, <1>2 DEF Rows, Apart, LockOps, ItemsOf
<1>3. CASE txn[q].op \in {"add"} \cup MakeOps
  BY <1>1, <1>3 DEF Rows, ItemsOf
<1>4. CASE txn[q].op \in {"none", "rename", "drop"}
  BY <1>1, <1>4 DEF Rows
<1>. QED  BY <1>1, <1>2, <1>3, <1>4 DEF Op, MakeOps

\* The rows of a transaction after an UPDATE of positions.
MovedRows(r, pos) ==
  Over([i \in DOMAIN pos |-> [Seen(r)[i] EXCEPT !.pos = pos[i]]], txn[r].rows)

Moved(r, pos, pc) == [txn[r] EXCEPT !.pc = pc, !.rows = MovedRows(r, pos)]

\* An UPDATE of all items of the playlist, to positions that neither coincide nor
\* pass through one another.
LEMMA MoveAll ==
  ASSUME PlaylistInv, NEW r \in Requests, txn[r].op \in {"remove", "reorder"},
         NEW pc, NEW pos \in [Own(txn[r]) -> Int],
         \A i, j \in Own(txn[r]) : pos[i] = pos[j] => i = j,
         \A i, j \in Own(txn[r]) : i # j => pos[i] # Seen(r)[j].pos,
         Move(r, pos, pc)
  PROVE  /\ Update(r, Moved(r, pos, pc))
         /\ MovedRows(r, pos) \in RowsOf
         /\ DOMAIN MovedRows(r, pos) = Own(txn[r])
         /\ \A i \in Own(txn[r]) :
              /\ MovedRows(r, pos)[i].list = txn[r].list
              /\ MovedRows(r, pos)[i].track = item[i].track
              /\ MovedRows(r, pos)[i].pos = pos[i]
<1> DEFINE t == txn[r]
           ids == Own(t)
           moved == [i \in ids |-> [Seen(r)[i] EXCEPT !.pos = pos[i]]]
           rows == MovedRows(r, pos)
<1>1. t \in TxnRecord /\ Rows(t) /\ Tables
  BY Current
<1>2. SeenIn(r, t.list) = ids /\ \A i \in ids : Seen(r)[i] = OwnRow(t)[i]
  BY SeenHere DEF LockOps
<1>3. DOMAIN t.rows \subseteq ids /\ ids \subseteq ItemsOf(t.list)
  BY <1>1 DEF Rows, Own
<1>4. ids \subseteq ItemIds
  BY <1>1, <1>3 DEF Tables, RowsOf, ItemsOf
<1>5. \A i \in ids : Seen(r)[i] \in Row /\ Seen(r)[i].list = t.list /\ Seen(r)[i].track = item[i].track
  <2> SUFFICES ASSUME NEW i \in ids
               PROVE  OwnRow(t)[i] \in Row /\ OwnRow(t)[i].list = t.list
                      /\ OwnRow(t)[i].track = item[i].track
    BY <1>2
  <2>1. CASE i \in DOMAIN t.rows
    <3>1. t.rows[i] \in Row
      BY <1>1, <2>1 DEF TxnRecord, RowsOf
    <3>. QED  BY <1>1, <2>1, <3>1 DEF OwnRow, Rows, LockOps
  <2>2. CASE i \notin DOMAIN t.rows
    <3>1. item[i] \in Row /\ item[i].list = t.list
      BY <1>1, <1>3 DEF Tables, RowsOf, ItemsOf
    <3>. QED  BY <2>2, <3>1 DEF OwnRow
  <2>. QED  BY <2>1, <2>2
<1>6. DOMAIN pos = ids
  OBVIOUS
<1>7. Update(r, Moved(r, pos, pc))
  <2>1. SeenIn(r, t.list) \ DOMAIN pos = {}
    BY <1>2, <1>6
  <2>. QED  BY <1>6, <2>1 DEF Move, Moved, MovedRows
<1>8. rows = moved
  BY <1>3, <1>6 DEF Over, MovedRows
<1>9. ASSUME NEW i \in ids
      PROVE  /\ moved[i] \in Row /\ moved[i].list = t.list /\ moved[i].track = item[i].track
             /\ moved[i].pos = pos[i]
  BY <1>5 DEF Row
<1>10. moved \in RowsOf
  <2>1. moved \in [ids -> Row] /\ ids \in SUBSET ItemIds
    BY <1>4, <1>9
  <2>. QED  BY <2>1 DEF RowsOf
<1>11. DOMAIN moved = ids
  OBVIOUS
<1>12. /\ rows \in RowsOf /\ DOMAIN rows = ids
       /\ \A i \in ids : rows[i].list = t.list /\ rows[i].track = item[i].track /\ rows[i].pos = pos[i]
  BY <1>8, <1>9, <1>10, <1>11
<1>. QED  BY <1>7, <1>12

LEMMA OrderedAll ==
  ASSUME PlaylistInv, NEW r \in Requests, txn[r].op \in LockOps, Lists(txn[r].order, Own(txn[r]))
  PROVE  Ordered(r) = Own(txn[r])
<1>1. ToSet(txn[r].order) = Own(txn[r])
  BY DEF Lists, ToSet
<1>2. SeenIn(r, txn[r].list) = Own(txn[r])
  BY SeenHere
<1>. QED  BY <1>1, <1>2 DEF Ordered

LEMMA MoveAsideKeeps ==
  ASSUME PlaylistInv, NEW r \in Requests, MoveAside(r)
  PROVE  PlaylistInv'
<1> DEFINE t == txn[r]
           ids == Own(t)
           pos == [i \in Ordered(r) |-> Aside(Seen(r)[i].pos)]
<1>1. t.pc = "picked" /\ Move(r, pos, "aside") /\ UNCHANGED <<users, owner, item, known>>
  BY DEF MoveAside
<1>2. t \in TxnRecord /\ Kinds(t) /\ Places(r, t) /\ Rows(t) /\ Plan(t) /\ Tables
  BY Current
<1>3. t.op \in {"remove", "reorder"}
  BY <1>1, <1>2 DEF Kinds, TxnRecord, Op
<1>4. DOMAIN t.rows = {} /\ Lists(t.order, ids) /\ t.list \in DOMAIN owner /\ t.made = {}
  BY <1>1, <1>2, <1>3 DEF Plan, MovePlan, Places, LockOps
<1>5. Ordered(r) = ids /\ ids \subseteq ItemsOf(t.list)
  BY <1>3, <1>4, OrderedAll DEF LockOps, Own
<1>6. PICK n \in Nat : Numbered(item, ItemsOf(t.list), n)
  BY <1>2, <1>4 DEF Tables, Packed
<1>7. \A i \in ids : Seen(r)[i] = item[i] /\ item[i].pos \in 0 .. n - 1
  <2>1. \A i \in ids : Seen(r)[i] = OwnRow(t)[i] /\ OwnRow(t)[i] = item[i]
    BY <1>3, <1>4, SeenHere, OwnUntouched DEF LockOps
  <2>. QED  BY <1>5, <1>6, <2>1 DEF Numbered
<1>8. /\ pos \in [ids -> Int]
      /\ \A i \in ids : pos[i] < 0 /\ pos[i] = - item[i].pos - 1
  BY <1>5, <1>7 DEF Aside
<1> HIDE DEF pos
<1>9. \A i, j \in ids : pos[i] = pos[j] => i = j
  BY <1>5, <1>6, <1>7, <1>8 DEF Numbered
<1>10. \A i, j \in ids : i # j => pos[i] # Seen(r)[j].pos
  BY <1>7, <1>8
<1> DEFINE rows == MovedRows(r, pos)
<1>11. /\ Update(r, Moved(r, pos, "aside"))
       /\ rows \in RowsOf /\ DOMAIN rows = ids
       /\ \A i \in ids : rows[i].list = t.list /\ rows[i].track = item[i].track /\ rows[i].pos = pos[i]
  BY <1>1, <1>3, <1>8, <1>9, <1>10, MoveAll
<1> HIDE DEF rows
<1> DEFINE x == [t EXCEPT !.pc = "aside", !.rows = rows]
<1>12. /\ x \in TxnRecord /\ x.op = t.op /\ x.pc = "aside" /\ x.list = t.list /\ x.item = t.item
       /\ x.order = t.order /\ x.rows = rows /\ x.gone = t.gone /\ x.made = {}
  BY <1>2, <1>4, <1>11 DEF TxnRecord, Place
<1>13. Update(r, x)
  BY <1>11 DEF Moved, rows
<1> HIDE DEF x
<1>14. Own(x) = ids
  BY <1>4, <1>11, <1>12 DEF Own
<1>15. MovePlan(x)
  BY <1>4, <1>8, <1>11, <1>12, <1>14 DEF MovePlan
<1>16. t.op = "remove" => RemovePlan(x)
  BY <1>1, <1>2, <1>12 DEF Plan, RemovePlan
<1>17. Rows(x)
  <2>1. ids \subseteq ItemsOf(t.list) \ t.gone
    BY <1>4 DEF Own
  <2>. QED  BY <1>2, <1>3, <1>11, <1>12, <2>1 DEF Rows, LockOps, MakeOps
<1>18. Good(r, x)
  BY <1>2, <1>3, <1>4, <1>12, <1>15, <1>16, <1>17 DEF Good, Kinds, Places, Plan, LockOps, MakeOps
<1>19. ASSUME NEW q \in Requests \ {r} PROVE Apart(x, txn[q])
  <2>1. Apart(t, txn[q]) /\ DOMAIN txn[q].rows \cap ItemsOf(t.list) = {}
    BY <1>3, Current, RowsOfOthers DEF LockOps
  <2>. QED  BY <1>4, <1>5, <1>11, <1>12, <2>1 DEF Apart
<1>. QED  BY <1>1, <1>13, <1>18, <1>19, Moves

LEMMA MoveBackKeeps ==
  ASSUME PlaylistInv, NEW r \in Requests, MoveBack(r)
  PROVE  PlaylistInv'
<1> DEFINE t == txn[r]
           ids == Own(t)
           pos == [i \in Ordered(r) |-> PlaceIn(t.order, i) - 1]
           n == Len(t.order)
<1>1. t.pc = "aside" /\ Move(r, pos, "written") /\ UNCHANGED <<users, owner, item, known>>
  BY DEF MoveBack
<1>2. t \in TxnRecord /\ Kinds(t) /\ Places(r, t) /\ Rows(t) /\ Plan(t) /\ Tables
  BY Current
<1>3. t.op \in {"remove", "reorder"}
  BY <1>1, <1>2 DEF Kinds, TxnRecord, Op
<1>4. /\ DOMAIN t.rows = ids /\ Lists(t.order, ids) /\ t.list \in DOMAIN owner /\ t.made = {}
      /\ \A i \in ids : t.rows[i].pos < 0
  BY <1>1, <1>2, <1>3 DEF Plan, MovePlan, Places, LockOps
<1>5. Ordered(r) = ids
  BY <1>3, <1>4, OrderedAll DEF LockOps
<1>6. ids \subseteq ItemsOf(t.list) \ t.gone
  BY <1>2, <1>3, <1>4 DEF Rows
<1>7. n \in Nat /\ DOMAIN t.order = 1 .. n
  BY <1>2 DEF TxnRecord
<1>8. ASSUME NEW i \in ids PROVE PlaceIn(t.order, i) \in 1 .. n /\ t.order[PlaceIn(t.order, i)] = i
  BY <1>4, <1>7 DEF Lists, PlaceIn
<1>9. /\ pos \in [ids -> Int]
      /\ \A i \in ids : pos[i] \in 0 .. n - 1 /\ t.order[pos[i] + 1] = i
  <2>1. ASSUME NEW i \in ids PROVE pos[i] \in 0 .. n - 1 /\ t.order[pos[i] + 1] = i /\ pos[i] \in Int
    <3> DEFINE k == PlaceIn(t.order, i)
    <3>1. k \in 1 .. n /\ t.order[k] = i
      BY <1>8
    <3>2. pos[i] = k - 1
      BY <1>5
    <3> HIDE DEF k, pos
    <3>3. pos[i] + 1 = k
      BY <3>1, <3>2
    <3>. QED  BY <1>7, <3>1, <3>2, <3>3
  <2>. QED  BY <1>5, <2>1
<1> HIDE DEF pos
<1>10. \A i, j \in ids : pos[i] = pos[j] => i = j
  BY <1>9
<1>11. \A i, j \in ids : i # j => pos[i] # Seen(r)[j].pos
  <2>1. \A j \in ids : Seen(r)[j] = t.rows[j]
    BY <1>3, <1>4, SeenHere DEF LockOps, OwnRow
  <2>2. \A j \in ids : t.rows[j].pos < 0 /\ t.rows[j].pos \in Int
    BY <1>2, <1>4 DEF TxnRecord, RowsOf, Row
  <2>. QED  BY <1>7, <1>9, <2>1, <2>2
<1> DEFINE rows == MovedRows(r, pos)
<1>12. /\ Update(r, Moved(r, pos, "written"))
       /\ rows \in RowsOf /\ DOMAIN rows = ids
       /\ \A i \in ids : rows[i].list = t.list /\ rows[i].track = item[i].track /\ rows[i].pos = pos[i]
  BY <1>1, <1>3, <1>9, <1>10, <1>11, MoveAll
<1> HIDE DEF rows
<1> DEFINE x == [t EXCEPT !.pc = "written", !.rows = rows]
<1>13. /\ x \in TxnRecord /\ x.op = t.op /\ x.pc = "written" /\ x.list = t.list /\ x.item = t.item
       /\ x.rows = rows /\ x.gone = t.gone /\ x.made = {}
  BY <1>2, <1>4, <1>12 DEF TxnRecord, Place
<1>14. Update(r, x)
  BY <1>12 DEF Moved, rows
<1> HIDE DEF x
<1>15. Own(x) = ids /\ \A i \in ids : OwnRow(x)[i] = rows[i]
  BY <1>4, <1>12, <1>13 DEF Own, OwnRow
<1>16. Packed(OwnRow(x), Own(x))
  <2>1. ASSUME NEW k \in 0 .. n - 1 PROVE \E i \in ids : pos[i] = k
    <3> DEFINE i == t.order[k + 1]
               l == pos[i] + 1
    <3>1. k + 1 \in 1 .. n /\ i \in ids
      BY <1>4, <1>7 DEF Lists
    <3>2. pos[i] \in 0 .. n - 1 /\ t.order[pos[i] + 1] = i
      BY <1>9, <3>1
    <3>3. l \in DOMAIN t.order /\ t.order[l] = t.order[k + 1] /\ k + 1 \in DOMAIN t.order
      BY <1>7, <3>1, <3>2
    <3>4. l = k + 1
      <4> HIDE DEF l
      <4>. QED  BY <1>4, <3>3 DEF Lists
    <3> HIDE DEF i
    <3>5. pos[i] = k
      BY <1>7, <3>2, <3>4
    <3>. QED  BY <3>1, <3>5
  <2>2. \A i \in ids : OwnRow(x)[i].pos = pos[i]
    BY <1>12, <1>15
  <2> HIDE DEF ids, n
  <2>3. Numbered(OwnRow(x), ids, n)
    BY <1>9, <1>10, <2>1, <2>2 DEF Numbered
  <2>. QED  BY <1>7, <1>15, <2>3 DEF Packed
<1>17. t.op = "remove" => RemovePlan(x)
  <2> SUFFICES ASSUME t.op = "remove" PROVE RemovePlan(x)
    OBVIOUS
  <2>1. /\ t.item \in ItemsOf(t.list) /\ t.gone = {t.item}
        /\ \A k \in DOMAIN t.order : item[t.order[k]].pos = Before(k - 1, item[t.item].pos)
    BY <1>1, <1>2 DEF Plan, RemovePlan
  <2>2. ASSUME NEW i \in ids PROVE item[i].pos = Before(pos[i], item[t.item].pos)
    <3>1. pos[i] + 1 \in 1 .. n /\ t.order[pos[i] + 1] = i /\ (pos[i] + 1) - 1 = pos[i]
      BY <1>7, <1>9
    <3>. QED  BY <1>7, <2>1, <3>1
  <2>. QED  BY <1>12, <1>13, <1>15, <2>1, <2>2 DEF RemovePlan
<1>18. Rows(x)
  BY <1>2, <1>3, <1>6, <1>12, <1>13 DEF Rows, LockOps, MakeOps
<1>19. Good(r, x)
  BY <1>2, <1>3, <1>4, <1>13, <1>16, <1>17, <1>18
     DEF Good, Kinds, Places, Plan, MovePlan, LockOps, MakeOps
<1>20. \A q \in Requests \ {r} : Apart(x, txn[q])
  BY <1>4, <1>12, <1>13, Current, SameApart
<1>. QED  BY <1>1, <1>14, <1>19, <1>20, Moves

-----------------------------------------------------------------------------
(* Playlists are made.                                                     *)

\* A transaction only moves on.
LEMMA GotoKeeps ==
  ASSUME PlaylistInv, NEW r \in Requests, NEW pc \in Place, txn[r].op \in MakeOps,
         Goto(r, pc), pc \in {"start", "conflict"},
         pc = "start" => txn[r].todo # <<>>,
         UNCHANGED <<users, owner, item, known>>
  PROVE  PlaylistInv'
<1> DEFINE t == txn[r]
           x == [t EXCEPT !.pc = pc]
<1>1. t \in TxnRecord /\ Kinds(t) /\ Places(r, t) /\ Rows(t) /\ Plan(t) /\ Tables
  BY Current
<1>2. /\ x \in TxnRecord /\ x.op = t.op /\ x.pc = pc /\ x.list = t.list /\ x.rows = t.rows
      /\ x.gone = t.gone /\ x.made = t.made /\ x.todo = t.todo
  BY <1>1 DEF TxnRecord
<1>3. Update(r, x)
  BY DEF Goto, Update, PlaylistInv
<1> HIDE DEF x
<1>4. MakePlan(x)
  BY <1>1, <1>2 DEF Plan, MakePlan, RowsIn
<1>5. Good(r, x)
  BY <1>1, <1>2, <1>4 DEF Good, Kinds, Places, Rows, Plan, LockOps, MakeOps
<1>6. \A q \in Requests \ {r} : Apart(x, txn[q])
  BY <1>2, Current, SameApart
<1>. QED  BY <1>3, <1>5, <1>6, Moves

LEMMA FetchKeeps ==
  ASSUME PlaylistInv, NEW r \in Requests, Fetch(r)
  PROVE  PlaylistInv'
<1>1. txn[r].pc = "fetch" /\ txn[r] \in TxnRecord /\ Kinds(txn[r])
  BY Current DEF Fetch
<1>2. txn[r].op \in MakeOps /\ txn[r].todo # <<>>
  BY <1>1 DEF Kinds, TxnRecord, Op, MakeOps
<1>. QED  BY <1>2, GotoKeeps, EndKeeps DEF Fetch, Place

\* A playlist that has no items yet.
LEMMA InsertPlaylistKeeps ==
  ASSUME PlaylistInv, NEW r \in Requests, InsertPlaylist(r)
  PROVE  PlaylistInv'
<1> DEFINE t == txn[r]
           p == Min(FreePlaylists)
           made == t.made \cup {p}
           pc == IF t.op = "create" THEN "written" ELSE "import"
           x == [t EXCEPT !.pc = pc, !.list = p, !.made = made]
<1>1. /\ t.op \in MakeOps /\ t.pc = "start" /\ FreePlaylists # {}
      /\ UNCHANGED <<users, owner, item, known>>
  BY DEF InsertPlaylist, MakeOps
<1>2. CASE By[r] \notin users
  BY <1>1, <1>2, GotoKeeps DEF InsertPlaylist, Place
<1>3. CASE By[r] \in users
  <2>1. t \in TxnRecord /\ Kinds(t) /\ Places(r, t) /\ Rows(t) /\ Plan(t) /\ Tables
    BY Current
  <2>2. /\ p \in PlaylistIds /\ p \notin DOMAIN owner
        /\ \A q \in Requests : p \notin txn[q].made
    BY <1>1, NewPlaylist
  <2>3. Update(r, x)
    BY <1>1, <1>3 DEF InsertPlaylist
  <2> HIDE DEF p
  <2>4. made \in SUBSET PlaylistIds /\ p \in made
    BY <2>1, <2>2 DEF TxnRecord
  <2>5. pc \in Place /\ pc \in {"written", "import"} /\ (t.op = "create" => pc = "written")
    BY DEF Place
  <2> HIDE DEF made, pc
  <2>6. /\ x \in TxnRecord /\ x.op = t.op /\ x.pc = pc /\ x.list = p /\ x.rows = t.rows
        /\ x.gone = t.gone /\ x.made = made /\ x.todo = t.todo
    BY <2>1, <2>2, <2>4, <2>5 DEF TxnRecord
  <2> HIDE DEF x
  <2>7. RowsIn(x, p) = {}
    BY <1>1, <2>1, <2>2, <2>6 DEF Rows, RowsIn
  <2>8. MakePlan(x)
    <3> SUFFICES ASSUME NEW l \in made
                 PROVE  /\ Packed(x.rows, RowsIn(x, l))
                        /\ \A i, j \in RowsIn(x, l) : x.rows[i].track = x.rows[j].track => i = j
      BY <2>6 DEF MakePlan
    <3>1. CASE l = p
      <4>1. Numbered(x.rows, {}, 0)
        BY DEF Numbered
      <4>. QED  BY <2>7, <3>1, <4>1 DEF Packed
    <3>2. CASE l \in t.made
      BY <1>1, <2>1, <2>6, <3>2 DEF Plan, MakePlan, RowsIn
    <3>. QED  BY <3>1, <3>2 DEF made
  <2>9. Good(r, x)
    <3>1. Kinds(x)
      BY <1>1, <2>1, <2>5, <2>6 DEF Kinds, MakeOps
    <3>2. Places(r, x)
      BY <1>1, <1>3, <2>1, <2>2, <2>4, <2>6 DEF Places, LockOps, MakeOps, made
    <3>3. Rows(x)
      BY <1>1, <2>1, <2>6 DEF Rows, LockOps, MakeOps, made
    <3>4. Plan(x)
      BY <1>1, <2>6, <2>8 DEF Plan, LockOps, MakeOps
    <3>. QED  BY <2>6, <3>1, <3>2, <3>3, <3>4 DEF Good
  <2>10. ASSUME NEW q \in Requests \ {r} PROVE Apart(x, txn[q])
    <3>1. Apart(t, txn[q])
      BY Current
    <3>. QED  BY <1>1, <2>2, <2>6, <3>1 DEF Apart, LockOps, MakeOps, made
  <2>. QED  BY <1>1, <2>3, <2>9, <2>10, Moves
<1>. QED  BY <1>2, <1>3

\* The tracks that are left.
LEMMA RestToDo ==
  ASSUME PlaylistInv, NEW r \in Requests, txn[r].todo # <<>>, txn[r].todo[1] # <<>>
  PROVE  NextTrack(r) \in Tracks /\ Rest(r) \in Seq(Seq(Tracks)) /\ Rest(r) # <<>>
<1> DEFINE todo == txn[r].todo
           head == todo[1]
           tail == Tail(head)
<1>1. todo \in Seq(Seq(Tracks))
  BY Current DEF TxnRecord
<1>2. head \in Seq(Tracks) /\ head # <<>> /\ Tail(todo) \in Seq(Seq(Tracks))
  BY <1>1
<1> HIDE DEF head
<1>3. head[1] \in Tracks /\ tail \in Seq(Tracks)
  BY <1>2
<1>4. Rest(r) = <<tail>> \o Tail(todo)
  BY DEF Rest, head
<1> HIDE DEF tail, todo
<1>5. <<tail>> \in Seq(Seq(Tracks)) /\ Len(<<tail>>) = 1
  BY <1>3
<1>6. <<tail>> \o Tail(todo) \in Seq(Seq(Tracks)) /\ Len(<<tail>> \o Tail(todo)) >= 1
  BY <1>2, <1>5
<1>. QED  BY <1>3, <1>4, <1>6 DEF NextTrack, head, todo

\* A track that is new in the playlist.
LEMMA TrackJoins ==
  ASSUME PlaylistInv, NEW r \in Requests, txn[r].op \in MakeOps, FreeItems # {},
         NEW p \in txn[r].made, NEW t \in Tracks, ~\E i \in SeenIn(r, p) : Seen(r)[i].track = t,
         NEW rows, rows = Inserted(r, p, t, NextPosition(r, p)),
         NEW x, x.rows = rows, x.made = txn[r].made
  PROVE  /\ rows \in RowsOf /\ DOMAIN rows = DOMAIN txn[r].rows \cup {Min(FreeItems)}
         /\ \A i \in DOMAIN rows : rows[i].list \in txn[r].made
         /\ MakePlan(x)
<1> DEFINE old == txn[r].rows
           mine == RowsIn(txn[r], p)
           new == Min(FreeItems)
           pos == NextPosition(r, p)
<1>1. txn[r] \in TxnRecord /\ Rows(txn[r]) /\ MakePlan(txn[r])
  BY Current DEF Plan
<1>2. p \in PlaylistIds /\ old \in RowsOf
  BY <1>1 DEF TxnRecord
<1>3. SeenIn(r, p) = mine /\ \A i \in mine : Seen(r)[i] = old[i]
  BY SeenMade
<1>4. PICK n \in Nat : Numbered(old, mine, n)
  BY <1>1 DEF MakePlan, Packed
<1>5. pos = n
  <2>1. Numbered(Seen(r), SeenIn(r, p), n)
    BY <1>3, <1>4, SameNumbers
  <2>. QED  BY <2>1, NextIsLast DEF NextPosition
<1>6. new \notin DOMAIN old
  BY NewItem
<1> HIDE DEF pos, new
<1>7. /\ rows \in RowsOf /\ DOMAIN rows = DOMAIN old \cup {new}
      /\ \A i \in DOMAIN old : rows[i] = old[i]
      /\ rows[new] = [list |-> p, track |-> t, pos |-> pos]
  BY <1>2, <1>5, InsertedRows DEF pos, new
<1>8. rows[new].list = p /\ rows[new].track = t /\ rows[new].pos = n
  BY <1>5, <1>7
<1>9. \A i \in DOMAIN rows : rows[i].list \in txn[r].made
  BY <1>1, <1>7, <1>8 DEF Rows
<1>10. ASSUME NEW l \in txn[r].made
       PROVE  /\ Packed(rows, RowsIn(x, l))
              /\ \A i, j \in RowsIn(x, l) : rows[i].track = rows[j].track => i = j
  <2>1. CASE l = p
    <3>1. RowsIn(x, l) = mine \cup {new} /\ new \notin mine
      <4>1. ASSUME NEW i PROVE i \in RowsIn(x, l) <=> i \in mine \cup {new}
        BY <1>6, <1>7, <1>8, <2>1 DEF RowsIn
      <4>. QED  BY <1>6, <4>1 DEF RowsIn
    <3>2. \A i \in mine : rows[i] = old[i]
      BY <1>7 DEF RowsIn
    <3>3. Numbered(rows, mine \cup {new}, n + 1)
      BY <1>4, <1>8, <3>1, <3>2, OneMore
    <3>4. \A i \in mine : rows[i].track # t
      BY <1>3, <3>2
    <3>5. \A i, j \in mine : rows[i].track = rows[j].track => i = j
      BY <1>1, <3>2 DEF MakePlan
    <3>6. \A i, j \in mine \cup {new} : rows[i].track = rows[j].track => i = j
      BY <1>8, <3>4, <3>5
    <3>7. n + 1 \in Nat
      BY <1>4
    <3>. QED  BY <3>1, <3>3, <3>6, <3>7 DEF Packed
  <2>2. CASE l # p
    <3>1. RowsIn(x, l) = RowsIn(txn[r], l)
      <4>1. ASSUME NEW i PROVE i \in RowsIn(x, l) <=> i \in RowsIn(txn[r], l)
        BY <1>7, <1>8, <2>2 DEF RowsIn
      <4>. QED  BY <4>1
    <3>2. \A i \in RowsIn(txn[r], l) : rows[i] = old[i]
      BY <1>7 DEF RowsIn
    <3>3. PICK m \in Nat : Numbered(old, RowsIn(txn[r], l), m)
      BY <1>1 DEF MakePlan, Packed
    <3>4. Numbered(rows, RowsIn(txn[r], l), m)
      BY <3>2, <3>3, SameNumbers
    <3>5. \A i, j \in RowsIn(txn[r], l) : rows[i].track = rows[j].track => i = j
      BY <1>1, <3>2 DEF MakePlan
    <3>. QED  BY <3>1, <3>4, <3>5 DEF Packed
  <2>. QED  BY <2>1, <2>2
<1>11. MakePlan(x)
  BY <1>10 DEF MakePlan
<1>. QED  BY <1>7, <1>9, <1>11 DEF new

LEMMA ImportTrackKeeps ==
  ASSUME PlaylistInv, NEW r \in Requests, ImportTrack(r)
  PROVE  PlaylistInv'
<1> DEFINE t == txn[r]
           p == t.list
           track == NextTrack(r)
           rest == Rest(r)
<1>1. t.pc = "import" /\ t.todo[1] # <<>> /\ UNCHANGED <<users, owner, item, known>>
  BY DEF ImportTrack
<1>2. t \in TxnRecord /\ Kinds(t) /\ Places(r, t) /\ Rows(t) /\ Plan(t) /\ Tables
  BY Current
<1>3. t.op \in {"file", "shelf"} /\ t.op \in MakeOps /\ t.todo # <<>> /\ p \in t.made
  BY <1>1, <1>2 DEF Kinds, TxnRecord, Op, MakeOps, Places
<1>4. track \in Tracks /\ rest \in Seq(Seq(Tracks)) /\ rest # <<>>
  BY <1>1, <1>3, RestToDo
<1>5. CASE AlreadyIn(r, track)
  <2> DEFINE x == [t EXCEPT !.todo = rest]
  <2>1. Update(r, x)
    BY <1>5 DEF ImportTrack
  <2> HIDE DEF rest
  <2>2. /\ x \in TxnRecord /\ x.op = t.op /\ x.pc = t.pc /\ x.list = p /\ x.rows = t.rows
        /\ x.gone = t.gone /\ x.made = t.made /\ x.todo = rest
    BY <1>2, <1>4 DEF TxnRecord
  <2> HIDE DEF x
  <2>3. MakePlan(x)
    BY <1>2, <1>3, <2>2 DEF Plan, MakePlan, RowsIn
  <2>4. Good(r, x)
    BY <1>1, <1>2, <1>3, <1>4, <2>2, <2>3 DEF Good, Kinds, Places, Rows, Plan, LockOps, MakeOps
  <2>5. \A q \in Requests \ {r} : Apart(x, txn[q])
    BY <2>2, Current, SameApart
  <2>. QED  BY <1>1, <2>1, <2>4, <2>5, Moves
<1>6. CASE ~AlreadyIn(r, track)
  <2> DEFINE stored == t.stored \cup ({track} \ known)
             rows == Inserted(r, p, track, NextPosition(r, p))
             new == Min(FreeItems)
             x == [t EXCEPT !.todo = rest, !.stored = stored, !.rows = rows]
  <2>1. Update(r, x) /\ FreeItems # {}
    BY <1>6 DEF ImportTrack
  <2>2. stored \in SUBSET Tracks
    BY <1>2, <1>4 DEF TxnRecord
  <2>3. ~\E i \in SeenIn(r, p) : Seen(r)[i].track = track
    BY <1>6 DEF AlreadyIn
  <2>4. new \notin DOMAIN item /\ \A q \in Requests : new \notin DOMAIN txn[q].rows
    BY <2>1, NewItem
  <2>5. /\ rows \in RowsOf /\ DOMAIN rows = DOMAIN t.rows \cup {new}
        /\ \A i \in DOMAIN rows : rows[i].list \in t.made
    <3> DEFINE y == [rows |-> rows, made |-> t.made]
    <3>1. y.rows = rows /\ y.made = t.made
      OBVIOUS
    <3> HIDE DEF y
    <3>. QED  BY <1>3, <1>4, <2>1, <2>3, <3>1, TrackJoins
  <2> HIDE DEF rest, stored, track, new
  <2>a. rows = Inserted(r, p, track, NextPosition(r, p))
    OBVIOUS
  <2> HIDE DEF rows
  <2>6. /\ x \in TxnRecord /\ x.op = t.op /\ x.pc = t.pc /\ x.list = p /\ x.rows = rows
        /\ x.gone = t.gone /\ x.made = t.made /\ x.todo = rest
    BY <1>2, <1>4, <2>2, <2>5 DEF TxnRecord
  <2> HIDE DEF x
  <2>7. MakePlan(x)
    BY <1>3, <1>4, <2>1, <2>3, <2>a, <2>6, TrackJoins
  <2>8. Good(r, x)
    <3>1. Kinds(x)
      BY <1>1, <1>3, <1>4, <2>6 DEF Kinds
    <3>2. Places(r, x)
      BY <1>2, <1>3, <2>6 DEF Places, LockOps, MakeOps
    <3>3. Rows(x)
      BY <1>2, <1>3, <2>4, <2>5, <2>6 DEF Rows, LockOps, MakeOps
    <3>4. Plan(x)
      BY <1>3, <2>6, <2>7 DEF Plan, LockOps
    <3>. QED  BY <2>6, <3>1, <3>2, <3>3, <3>4 DEF Good
  <2>9. ASSUME NEW q \in Requests \ {r} PROVE Apart(x, txn[q])
    <3>1. Apart(t, txn[q])
      BY Current
    <3>. QED  BY <1>3, <2>4, <2>5, <2>6, <3>1 DEF Apart, LockOps
  <2>. QED  BY <1>1, <2>1, <2>8, <2>9, Moves
<1>. QED  BY <1>5, <1>6

LEMMA ImportedListKeeps ==
  ASSUME PlaylistInv, NEW r \in Requests, ImportedList(r)
  PROVE  PlaylistInv'
<1> DEFINE t == txn[r]
           todo == t.todo
           rest == Tail(todo)
           pc == IF Len(todo) > 1 THEN "fetch" ELSE "written"
           x == [t EXCEPT !.todo = rest, !.pc = pc]
<1>1. t.pc = "import" /\ Update(r, x) /\ UNCHANGED <<users, owner, item, known>>
  BY DEF ImportedList
<1>2. t \in TxnRecord /\ Kinds(t) /\ Places(r, t) /\ Rows(t) /\ Plan(t) /\ Tables
  BY Current
<1>3. t.op \in {"file", "shelf"} /\ t.op \in MakeOps /\ t.todo # <<>>
  BY <1>1, <1>2 DEF Kinds, TxnRecord, Op, MakeOps
<1>4. rest \in Seq(Seq(Tracks)) /\ (pc = "fetch" => rest # <<>>) /\ pc \in {"fetch", "written"}
  <2>1. todo \in Seq(Seq(Tracks)) /\ todo # <<>>
    BY <1>2, <1>3 DEF TxnRecord
  <2> HIDE DEF todo
  <2>2. Tail(todo) \in Seq(Seq(Tracks)) /\ Len(Tail(todo)) = Len(todo) - 1 /\ Len(todo) \in Nat
    BY <2>1
  <2>3. CASE Len(todo) > 1
    <3>1. Len(rest) > 0 /\ rest \in Seq(Seq(Tracks))
      BY <2>2, <2>3
    <3>2. pc = "fetch"
      BY <2>3
    <3> HIDE DEF rest, pc
    <3>. QED  BY <3>1, <3>2
  <2>4. CASE ~(Len(todo) > 1)
    BY <2>2, <2>4
  <2>. QED  BY <2>3, <2>4
<1> HIDE DEF rest, pc
<1>5. /\ x \in TxnRecord /\ x.op = t.op /\ x.pc = pc /\ x.list = t.list /\ x.rows = t.rows
      /\ x.gone = t.gone /\ x.made = t.made /\ x.todo = rest
  BY <1>2, <1>4 DEF TxnRecord, Place
<1> HIDE DEF x
<1>6. MakePlan(x)
  BY <1>2, <1>3, <1>5 DEF Plan, MakePlan, RowsIn
<1>7. Good(r, x)
  BY <1>2, <1>3, <1>4, <1>5, <1>6 DEF Good, Kinds, Places, Rows, Plan, LockOps, MakeOps
<1>8. \A q \in Requests \ {r} : Apart(x, txn[q])
  BY <1>5, Current, SameApart
<1>. QED  BY <1>1, <1>7, <1>8, Moves

-----------------------------------------------------------------------------
(* The tables change.                                                      *)

\* The others keep what they have when the rows of their playlists stay and no
\* id they have given is taken.
LEMMA OthersKeep ==
  ASSUME NEW q \in Requests, NEW t, Good(q, t),
         t.op \in LockOps => /\ t.list \in DOMAIN owner'
                             /\ ItemsOf(t.list)' = ItemsOf(t.list)
                             /\ \A i \in ItemsOf(t.list) : item'[i] = item[i],
         \A i \in DOMAIN t.rows : i \in DOMAIN item' => i \in DOMAIN item,
         t.made \cap DOMAIN owner' = {},
         t.made # {} => By[q] \in users'
  PROVE  Good(q, t)'
<1>0. t \in TxnRecord /\ Kinds(t) /\ Places(q, t) /\ Rows(t) /\ Plan(t)
  BY DEF Good
<1>1. t \in TxnRecord' /\ Kinds(t)'
  BY <1>0 DEF Kinds, TxnRecord
<1>2. Places(q, t)'
  BY <1>0 DEF Places
<1>3. CASE t.op \in LockOps
  <2>1. /\ ItemsOf(t.list)' = ItemsOf(t.list)
        /\ \A i \in ItemsOf(t.list) : item'[i] = item[i]
    BY <1>3
  <2>2. Rows(t)'
    <3> HIDE DEF ItemsOf
    <3>1. t.op \in {"remove", "reorder"} => \A i \in DOMAIN t.rows : item'[i] = item[i]
      BY <1>0, <2>1 DEF Rows
    <3>. QED  BY <1>0, <1>3, <2>1, <3>1 DEF Rows, LockOps, MakeOps
  <2>3. Own(t)' = Own(t)
    BY <2>1 DEF Own
  <2>4. \A i \in Own(t) : OwnRow(t)'[i] = OwnRow(t)[i]
    BY <2>1, <2>3 DEF OwnRow, Own
  <2>5. t.op = "add" => AddPlan(t)'
    BY <1>0, <2>1 DEF Plan, AddPlan, Numbered
  <2>6. t.op = "remove" => RemovePlan(t)'
    <3> SUFFICES ASSUME t.op = "remove" PROVE RemovePlan(t)'
      OBVIOUS
    <3>1. RemovePlan(t) /\ MovePlan(t)
      BY <1>0 DEF Plan
    <3>2. \A i \in Own(t) : i \in ItemsOf(t.list)
      BY <1>0 DEF Own, Rows
    <3>3. t.pc \in {"picked", "aside"} => \A k \in DOMAIN t.order : t.order[k] \in ItemsOf(t.list)
      BY <3>1, <3>2 DEF MovePlan, Lists
    <3>4. item'[t.item] = item[t.item]
      BY <2>1, <3>1 DEF RemovePlan
    <3>. QED  BY <2>1, <2>3, <2>4, <3>1, <3>2, <3>3, <3>4 DEF RemovePlan
  <2>7. t.op \in {"remove", "reorder"} => MovePlan(t)'
    BY <1>0, <2>3 DEF Plan, MovePlan
  <2>8. t.pc = "written" => Packed(OwnRow(t), Own(t))'
    <3> SUFFICES ASSUME t.pc = "written" PROVE Packed(OwnRow(t), Own(t))'
      OBVIOUS
    <3>1. PICK n \in Nat : Numbered(OwnRow(t), Own(t), n)
      BY <1>0, <1>3 DEF Plan, Packed
    <3>2. Numbered(OwnRow(t)', Own(t)', n)
      BY <2>3, <2>4, <3>1 DEF Numbered
    <3>. QED  BY <3>2 DEF Packed
  <2>9. Plan(t)'
    BY <1>3, <2>5, <2>6, <2>7, <2>8 DEF Plan, LockOps, MakeOps
  <2>. QED  BY <1>1, <1>2, <2>2, <2>9 DEF Good
<1>4. CASE t.op \in MakeOps
  <2>1. Rows(t)'
    BY <1>0, <1>4 DEF Rows, LockOps, MakeOps
  <2>2. Plan(t)'
    BY <1>0, <1>4 DEF Plan, LockOps, MakeOps, MakePlan
  <2>. QED  BY <1>1, <1>2, <2>1, <2>2 DEF Good
<1>5. CASE t.op = "none"
  <2>1. Rows(t)' /\ Plan(t)'
    BY <1>0, <1>5 DEF Rows, Plan, LockOps, MakeOps
  <2>. QED  BY <1>1, <1>2, <2>1 DEF Good
<1>. QED  BY <1>0, <1>3, <1>4, <1>5 DEF TxnRecord, Op, LockOps, MakeOps

\* What the tables show after a commit, playlist by playlist.
LEMMA CommitRows ==
  ASSUME PlaylistInv, NEW r \in Requests, Commit(r)
  PROVE  /\ \A i \in DOMAIN item' : /\ i \in DOMAIN Seen(r) /\ item'[i] = Seen(r)[i]
                                    /\ item'[i].list \in DOMAIN owner'
         /\ \A p \in txn[r].made : /\ ItemsOf(p)' = RowsIn(txn[r], p)
                                   /\ \A i \in ItemsOf(p)' : item'[i] = txn[r].rows[i]
         /\ txn[r].op \in LockOps \ {"drop"} =>
              \A p \in {txn[r].list} :
                /\ ItemsOf(p)' = Own(txn[r])
                /\ \A i \in Own(txn[r]) : item'[i] = OwnRow(txn[r])[i]
         /\ \A p \in DOMAIN owner :
              (txn[r].op \in LockOps => p # txn[r].list) =>
                ItemsOf(p)' = ItemsOf(p) /\ \A i \in ItemsOf(p) : item'[i] = item[i]
<1> DEFINE t == txn[r]
           dropped == IF t.op = "drop" THEN {t.list} ELSE {}
<1>1. /\ t \in TxnRecord /\ Kinds(t) /\ Places(r, t) /\ Rows(t) /\ Plan(t) /\ Tables
      /\ t.pc = "written"
  BY Current DEF Commit
<1>2. /\ item' = Without(Seen(r), dropped)
      /\ DOMAIN owner' = (DOMAIN owner \ dropped) \cup t.made
  BY DEF Commit
<1>3. /\ DOMAIN item' = {i \in DOMAIN Seen(r) : Seen(r)[i].list \notin dropped}
      /\ \A i \in DOMAIN item' : item'[i] = Seen(r)[i]
  BY <1>2 DEF Without, Restrict
<1>4. \A i \in DOMAIN Seen(r) : /\ i \in DOMAIN t.rows => Seen(r)[i] = t.rows[i]
                                /\ i \notin DOMAIN t.rows => Seen(r)[i] = item[i] /\ i \in DOMAIN item
  BY SeenRows
<1>5. t.op \in LockOps \/ t.op \in MakeOps
  BY <1>1 DEF Kinds, TxnRecord, Op, LockOps, MakeOps
<1>6. /\ t.op \in LockOps => t.list \in DOMAIN owner /\ t.made = {}
      /\ t.op \in MakeOps => dropped = {}
      /\ t.made \cap DOMAIN owner = {}
  BY <1>1 DEF Places, MakeOps
<1>7. \A i \in DOMAIN t.rows :
        \/ t.rows[i].list \in t.made
        \/ t.op \in LockOps /\ t.op # "drop" /\ t.rows[i].list = t.list
  BY <1>1, <1>5 DEF Rows
<1>8. \A i \in DOMAIN item : item[i].list \in DOMAIN owner
  BY <1>1 DEF Tables
<1> HIDE DEF dropped
<1>9. ASSUME NEW i \in DOMAIN item'
      PROVE  i \in DOMAIN Seen(r) /\ item'[i] = Seen(r)[i] /\ item'[i].list \in DOMAIN owner'
  <2>1. i \in DOMAIN Seen(r) /\ item'[i] = Seen(r)[i] /\ Seen(r)[i].list \notin dropped
    BY <1>3
  <2>. QED  BY <1>2, <1>4, <1>6, <1>7, <1>8, <2>1
<1>10. ASSUME NEW p \in t.made
       PROVE  ItemsOf(p)' = RowsIn(t, p) /\ \A i \in ItemsOf(p)' : item'[i] = t.rows[i]
  <2>1. t.op \in MakeOps /\ dropped = {}
    BY <1>5, <1>6
  <2>2. /\ SeenIn(r, p) = RowsIn(t, p)
        /\ \A i \in RowsIn(t, p) : Seen(r)[i] = t.rows[i]
    BY <2>1, SeenMade
  <2>3. ItemsOf(p)' = SeenIn(r, p)
    <3>1. ASSUME NEW i PROVE i \in ItemsOf(p)' <=> i \in SeenIn(r, p)
      BY <1>3, <2>1 DEF ItemsOf, SeenIn
    <3>. QED  BY <3>1
  <2>4. \A i \in ItemsOf(p)' : item'[i] = Seen(r)[i]
    BY <1>3 DEF ItemsOf
  <2>. QED  BY <2>2, <2>3, <2>4
<1>11. ASSUME t.op \in LockOps \ {"drop"}, NEW p \in {t.list}
       PROVE  ItemsOf(p)' = Own(t) /\ \A i \in Own(t) : item'[i] = OwnRow(t)[i]
  <2>1. dropped = {} /\ t.op \in LockOps /\ p = t.list
    BY <1>11 DEF dropped
  <2>2. /\ SeenIn(r, p) = Own(t)
        /\ \A i \in Own(t) : Seen(r)[i] = OwnRow(t)[i]
    BY <2>1, SeenHere
  <2>3. ItemsOf(p)' = SeenIn(r, p)
    <3>1. \A i \in DOMAIN item' : item'[i] = Seen(r)[i]
      BY <1>3
    <3>2. DOMAIN item' = DOMAIN Seen(r)
      BY <1>3, <2>1
    <3>3. {i \in DOMAIN item' : item'[i].list = p} = SeenIn(r, p)
      BY <3>1, <3>2 DEF SeenIn
    <3>. QED  BY <3>3 DEF ItemsOf
  <2>4. \A i \in ItemsOf(p)' : item'[i] = Seen(r)[i]
    BY <1>3 DEF ItemsOf
  <2>. QED  BY <2>2, <2>3, <2>4
<1>12. ASSUME NEW p \in DOMAIN owner, t.op \in LockOps => p # t.list
       PROVE  ItemsOf(p)' = ItemsOf(p) /\ \A i \in ItemsOf(p) : item'[i] = item[i]
  <2>1. p \notin dropped
    BY <1>12 DEF dropped, LockOps
  <2>2. ASSUME NEW i \in ItemsOf(p)
        PROVE  i \in DOMAIN item' /\ item'[i] = item[i]
    <3>1. i \in DOMAIN item /\ item[i].list = p
      BY DEF ItemsOf
    <3>2. i \notin DOMAIN t.rows
      BY <1>1, <1>5, <1>12, <3>1 DEF Rows, ItemsOf, LockOps, MakeOps
    <3>3. i \notin t.gone
      BY <1>1, <1>12, <3>1 DEF Rows, Plan, RemovePlan, ItemsOf, LockOps
    <3>4. i \in DOMAIN Seen(r) /\ Seen(r)[i] = item[i]
      BY <3>1, <3>2, <3>3, SeenRows
    <3>. QED  BY <1>3, <2>1, <3>1, <3>4
  <2>3. ASSUME NEW i \in ItemsOf(p)' PROVE i \in ItemsOf(p)
    <3>1. i \in DOMAIN Seen(r) /\ Seen(r)[i].list = p
      BY <1>3 DEF ItemsOf
    <3>. QED  BY <1>4, <1>6, <1>7, <1>12, <3>1 DEF ItemsOf
  <2>4. ItemsOf(p) \subseteq ItemsOf(p)'
    BY <2>2 DEF ItemsOf
  <2>. QED  BY <2>2, <2>3, <2>4
<1>. QED  BY <1>9, <1>10, <1>11, <1>12

\* The tables are in order and every transaction but r, which has ended, keeps
\* its own.
LEMMA EndsWell ==
  ASSUME PlaylistInv, NEW r \in Requests, End(r), Tables',
         \A q \in Requests \ {r} : Good(q, txn[q])'
  PROVE  PlaylistInv'
<1>1. /\ txn' \in [Requests -> TxnRecord] /\ txn'[r] = IdleTxn
      /\ \A q \in Requests \ {r} : txn'[q] = txn[q]
  BY IdleRecord DEF PlaylistInv, End, Update
<1>2. Good(r, IdleTxn)'
  BY IdleRecord DEF Good, Kinds, Places, Rows, Plan, LockOps, MakeOps, TxnRecord
<1>3. Good(r, txn[r])'
  <2>1. PICK u : u = txn'[r]
    OBVIOUS
  <2>2. u = IdleTxn
    BY <1>1, <2>1
  <2>3. Good(r, u)'
    BY <1>2, <2>2
  <2>. QED  BY <2>1, <2>3
<1>4. ASSUME NEW p \in Requests, NEW q \in Requests, p # q PROVE Apart(txn'[p], txn'[q])
  <2>1. \A u : Apart(IdleTxn, u) /\ Apart(u, IdleTxn)
    BY IdleRecord DEF Apart, LockOps
  <2>. QED  BY <1>1, <1>4, <2>1 DEF PlaylistInv
<1>5. TxnRecord' = TxnRecord
  BY DEF TxnRecord, RowsOf, PlaylistIds, ItemIds, Op, Place, Row
<1>. QED  BY <1>1, <1>3, <1>4, <1>5 DEF PlaylistInv

\* COMMIT, for the tables: ...
LEMMA CommitTables ==
  ASSUME PlaylistInv, NEW r \in Requests, Commit(r)
  PROVE  Tables'
<1> DEFINE t == txn[r]
           dropped == IF t.op = "drop" THEN {t.list} ELSE {}
<1>1. /\ t \in TxnRecord /\ Kinds(t) /\ Places(r, t) /\ Rows(t) /\ Plan(t) /\ Tables
      /\ t.pc = "written"
  BY Current DEF Commit
<1>2. /\ owner' = [p \in (DOMAIN owner \ dropped) \cup t.made |->
                     IF p \in t.made THEN By[r] ELSE owner[p]]
      /\ known' = known \cup t.stored /\ users' = users
  BY DEF Commit
<1> HIDE DEF dropped
<1>3. users' \subseteq Users /\ known' \subseteq Tracks
  BY <1>1, <1>2 DEF Tables, TxnRecord
<1>4. owner' \in [DOMAIN owner' -> users'] /\ DOMAIN owner' \subseteq PlaylistIds
  <2>1. DOMAIN owner' = (DOMAIN owner \ dropped) \cup t.made
    BY <1>2
  <2>2. \A p \in DOMAIN owner' : owner'[p] \in users'
    BY <1>1, <1>2, <2>1 DEF Tables, Places
  <2>3. owner' = [p \in DOMAIN owner' |-> owner'[p]]
    BY <1>2
  <2>. QED  BY <1>1, <2>1, <2>2, <2>3 DEF Tables, TxnRecord
<1>5. item' \in RowsOf
  <2>0. t.rows \in RowsOf /\ item \in RowsOf
    BY <1>1 DEF TxnRecord, Tables
  <2>1. ASSUME NEW i \in DOMAIN item' PROVE i \in ItemIds /\ item'[i] \in Row
    <3>0. \A f \in RowsOf : \A j \in DOMAIN f : j \in ItemIds /\ f[j] \in Row
      BY DEF RowsOf
    <3>1. i \in DOMAIN Seen(r) /\ item'[i] = Seen(r)[i]
      BY CommitRows
    <3>2. \/ i \in DOMAIN t.rows /\ item'[i] = t.rows[i]
          \/ i \in DOMAIN item /\ item'[i] = item[i]
      BY <3>1, SeenRows
    <3>. QED  BY <2>0, <3>0, <3>2
  <2>2. item' = [i \in DOMAIN item' |-> item'[i]]
    BY DEF Commit, Without, Restrict
  <2>3. item' \in [DOMAIN item' -> Row] /\ DOMAIN item' \in SUBSET ItemIds
    BY <2>1, <2>2
  <2>. QED  BY <2>3 DEF RowsOf, Row, ItemIds, PlaylistIds
<1>6. \A i \in DOMAIN item' : item'[i].list \in DOMAIN owner'
  BY CommitRows
<1>7. ASSUME NEW p \in DOMAIN owner' PROVE Packed(item', ItemsOf(p)')
  <2>1. t.op \in LockOps => t.made = {} /\ t.list \in DOMAIN owner
    BY <1>1 DEF Places
  <2>2. CASE p \in t.made
    <3>1. t.op \in MakeOps
      BY <1>1, <2>1, <2>2 DEF Kinds, TxnRecord, Op, LockOps, MakeOps
    <3>2. PICK n \in Nat : Numbered(t.rows, RowsIn(t, p), n)
      BY <1>1, <2>2, <3>1 DEF Plan, MakePlan, Packed
    <3>3. ItemsOf(p)' = RowsIn(t, p) /\ \A i \in RowsIn(t, p) : item'[i] = t.rows[i]
      BY <2>2, CommitRows
    <3>4. Numbered(item', RowsIn(t, p), n)
      BY <3>2, <3>3, SameNumbers
    <3>. QED  BY <3>3, <3>4 DEF Packed
  <2>3. CASE p \notin t.made /\ t.op \in LockOps /\ p = t.list
    <3>1. t.op # "drop"
      BY <1>2, <2>3 DEF dropped
    <3>2. PICK n \in Nat : Numbered(OwnRow(t), Own(t), n)
      BY <1>1, <2>3 DEF Plan, Packed
    <3>3. ItemsOf(p)' = Own(t) /\ \A i \in Own(t) : item'[i] = OwnRow(t)[i]
      BY <2>3, <3>1, CommitRows
    <3>4. Numbered(item', Own(t), n)
      BY <3>2, <3>3, SameNumbers
    <3>. QED  BY <3>3, <3>4 DEF Packed
  <2>4. CASE p \notin t.made /\ (t.op \in LockOps => p # t.list)
    <3>1. p \in DOMAIN owner
      BY <1>2, <2>4
    <3>2. PICK n \in Nat : Numbered(item, ItemsOf(p), n)
      BY <1>1, <3>1 DEF Tables, Packed
    <3>3. ItemsOf(p)' = ItemsOf(p) /\ \A i \in ItemsOf(p) : item'[i] = item[i]
      BY <2>4, <3>1, CommitRows
    <3>4. Numbered(item', ItemsOf(p), n)
      BY <3>2, <3>3, SameNumbers
    <3>. QED  BY <3>3, <3>4 DEF Packed
  <2>. QED  BY <2>2, <2>3, <2>4
<1>. QED  BY <1>3, <1>4, <1>5, <1>6, <1>7 DEF Tables

\* ... and for the other transactions.
LEMMA CommitKeeps ==
  ASSUME PlaylistInv, NEW r \in Requests, Commit(r)
  PROVE  PlaylistInv'
<1> DEFINE t == txn[r]
           dropped == IF t.op = "drop" THEN {t.list} ELSE {}
<1>1. t \in TxnRecord /\ Places(r, t) /\ Tables
  BY Current
<1>2. /\ DOMAIN owner' = (DOMAIN owner \ dropped) \cup t.made
      /\ users' = users /\ End(r)
  BY DEF Commit
<1>3. dropped \subseteq {t.list} /\ (dropped # {} => t.op \in LockOps)
  BY DEF LockOps
<1> HIDE DEF dropped
<1>4. ASSUME NEW q \in Requests \ {r} PROVE Good(q, txn[q])'
  <2>1. PICK u : u = txn[q]
    OBVIOUS
  <2>2. /\ Good(q, u) /\ Apart(t, u) /\ Places(q, u)
    BY <2>1, Current DEF Good
  <2>3. u.op \in LockOps => u.list \in DOMAIN owner /\ (t.op \in LockOps => u.list # t.list)
    BY <2>2 DEF Places, Apart
  <2>4. u.op \in LockOps => /\ u.list \in DOMAIN owner'
                            /\ ItemsOf(u.list)' = ItemsOf(u.list)
                            /\ \A i \in ItemsOf(u.list) : item'[i] = item[i]
    BY <1>2, <1>3, <2>3, CommitRows
  <2>5. \A i \in DOMAIN u.rows : i \in DOMAIN item' => i \in DOMAIN item
    <3>1. \A i \in DOMAIN item' : i \in DOMAIN item \cup DOMAIN t.rows
      BY CommitRows, SeenRows
    <3>. QED  BY <2>2, <3>1 DEF Apart
  <2>6. u.made \cap DOMAIN owner' = {} /\ (u.made # {} => By[q] \in users')
    BY <1>2, <2>2 DEF Places, Apart
  <2>7. Good(q, u)'
    BY <2>2, <2>4, <2>5, <2>6, OthersKeep
  <2>8. txn'[q] = u
    BY <1>2, <2>1 DEF End, Update, PlaylistInv
  <2>. QED  BY <2>7, <2>8
<1>. QED  BY <1>2, <1>4, CommitTables, EndsWell

\* A user goes with the playlists and all their items.
LEMMA DeleteUserKeeps ==
  ASSUME PlaylistInv, NEW u, DeleteUser(u)
  PROVE  PlaylistInv'
<1> DEFINE gone == {p \in DOMAIN owner : owner[p] = u}
<1>1. /\ \A p \in gone : Free(p)
      /\ \A q \in Requests : By[q] = u => txn[q].made = {}
      /\ users' = users \ {u}
      /\ owner' = [p \in DOMAIN owner \ gone |-> owner[p]]
      /\ item' = Without(item, gone)
      /\ known' = known /\ txn' = txn
  BY DEF DeleteUser
<1>2. Tables
  BY DEF PlaylistInv
<1>3. /\ DOMAIN item' = {i \in DOMAIN item : item[i].list \notin gone}
      /\ \A i \in DOMAIN item' : item'[i] = item[i]
      /\ item' = [i \in DOMAIN item' |-> item'[i]]
  BY <1>1 DEF Without, Restrict
<1>4. /\ DOMAIN owner' = DOMAIN owner \ gone
      /\ \A p \in DOMAIN owner' : owner'[p] = owner[p] /\ owner[p] # u
      /\ owner' = [p \in DOMAIN owner' |-> owner'[p]]
  BY <1>1
<1> HIDE DEF gone
<1>5. ASSUME NEW p \in DOMAIN owner'
      PROVE  ItemsOf(p)' = ItemsOf(p) /\ \A i \in ItemsOf(p) : item'[i] = item[i]
  <2>1. p \in DOMAIN owner /\ p \notin gone
    BY <1>4
  <2>2. ASSUME NEW i PROVE i \in ItemsOf(p)' <=> i \in ItemsOf(p)
    BY <1>3, <2>1 DEF ItemsOf
  <2>3. ItemsOf(p)' = ItemsOf(p)
    BY <2>2
  <2>. QED  BY <1>3, <2>3 DEF ItemsOf
<1>6. Tables'
  <2>1. users' \subseteq Users /\ known' \subseteq Tracks
    BY <1>1, <1>2 DEF Tables
  <2>2. owner' \in [DOMAIN owner' -> users'] /\ DOMAIN owner' \subseteq PlaylistIds
    BY <1>1, <1>2, <1>4 DEF Tables
  <2>3. item' \in RowsOf
    <3>1. item' \in [DOMAIN item' -> Row] /\ DOMAIN item' \in SUBSET ItemIds
      BY <1>2, <1>3 DEF Tables, RowsOf
    <3>. QED  BY <3>1 DEF RowsOf, Row, ItemIds, PlaylistIds
  <2>4. \A i \in DOMAIN item' : item'[i].list \in DOMAIN owner'
    BY <1>2, <1>3, <1>4 DEF Tables
  <2>5. ASSUME NEW p \in DOMAIN owner' PROVE Packed(item', ItemsOf(p)')
    <3>1. PICK n \in Nat : Numbered(item, ItemsOf(p), n)
      BY <1>2, <1>4 DEF Tables, Packed
    <3>2. Numbered(item', ItemsOf(p), n)
      BY <1>5, <3>1, SameNumbers
    <3>. QED  BY <1>5, <3>2 DEF Packed
  <2>. QED  BY <2>1, <2>2, <2>3, <2>4, <2>5 DEF Tables
<1>7. ASSUME NEW q \in Requests PROVE Good(q, txn[q])'
  <2>1. PICK t : t = txn[q]
    OBVIOUS
  <2>2. Good(q, t) /\ Places(q, t)
    BY <2>1 DEF PlaylistInv, Good
  <2>3. t.op \in LockOps => t.list \in DOMAIN owner'
    BY <1>1, <1>4, <2>1, <2>2, HeldOnce DEF Places
  <2>4. \A i \in DOMAIN t.rows : i \in DOMAIN item' => i \in DOMAIN item
    BY <1>3
  <2>5. t.made \cap DOMAIN owner' = {}
    BY <1>4, <2>2 DEF Places
  <2>6. t.made # {} => By[q] \in users'
    BY <1>1, <2>1, <2>2 DEF Places
  <2>7. Good(q, t)'
    BY <1>5, <2>2, <2>3, <2>4, <2>5, <2>6, OthersKeep
  <2>8. txn'[q] = t
    BY <1>1, <2>1
  <2>. QED  BY <2>7, <2>8
<1>8. \A r, q \in Requests : r # q => Apart(txn'[r], txn'[q])
  BY <1>1 DEF PlaylistInv
<1>9. TxnRecord' = TxnRecord
  BY DEF TxnRecord, RowsOf, PlaylistIds, ItemIds, Op, Place, Row
<1>. QED  BY <1>1, <1>6, <1>7, <1>8, <1>9 DEF PlaylistInv

-----------------------------------------------------------------------------
(* Every step keeps the invariant.                                         *)

LEMMA RequestStepKeeps ==
  ASSUME PlaylistInv, NEW r \in Requests, RequestStep(r)
  PROVE  PlaylistInv'
<1>1. CASE Conflict(r)
  BY <1>1, EndKeeps DEF Conflict
<1>2. CASE Full(r)
  BY <1>2, EndKeeps DEF Full
<1>. QED
  BY <1>1, <1>2, ReadPositionKeeps, InsertItemKeeps, DeleteItemKeeps, MoveAsideKeeps, MoveBackKeeps,
     FetchKeeps, InsertPlaylistKeeps, ImportTrackKeeps, ImportedListKeeps, CommitKeeps
     DEF RequestStep

LEMMA StutterKeeps ==
  ASSUME PlaylistInv, UNCHANGED vars
  PROVE  PlaylistInv'
<1>1. /\ users' = users /\ owner' = owner /\ item' = item /\ known' = known /\ txn' = txn
  BY DEF vars
<1>2. Tables'
  BY <1>1 DEF PlaylistInv, Tables, ItemsOf
<1>3. ASSUME NEW q \in Requests PROVE Good(q, txn[q])'
  <2>1. PICK u : u = txn[q]
    OBVIOUS
  <2>2. Good(q, u)'
    BY <1>1, <2>1, SameTables DEF PlaylistInv
  <2>3. txn'[q] = u
    BY <1>1, <2>1
  <2>. QED  BY <2>2, <2>3
<1>4. \A r, q \in Requests : r # q => Apart(txn'[r], txn'[q])
  BY <1>1 DEF PlaylistInv
<1>5. TxnRecord' = TxnRecord /\ txn' \in [Requests -> TxnRecord]
  BY <1>1 DEF PlaylistInv, TxnRecord, RowsOf, PlaylistIds, ItemIds, Op, Place, Row
<1>. QED  BY <1>2, <1>3, <1>4, <1>5 DEF PlaylistInv

LEMMA PlaylistsNext == PlaylistInv /\ [Next]_vars => PlaylistInv'
<1> SUFFICES ASSUME PlaylistInv, [Next]_vars PROVE PlaylistInv'
  OBVIOUS
<1>1. ASSUME NEW r \in Requests, RequestBegins(r) PROVE PlaylistInv'
  BY <1>1, RequestBeginsKeeps
<1>2. ASSUME NEW r \in Requests, RequestStep(r) PROVE PlaylistInv'
  BY <1>2, RequestStepKeeps
<1>3. ASSUME NEW r \in Requests, RequestDies(r) PROVE PlaylistInv'
  BY <1>3, EndKeeps DEF RequestDies
<1>4. ASSUME NEW r \in Requests, NEW q \in Requests, BreakDeadlock(r, q) PROVE PlaylistInv'
  BY <1>4, EndKeeps DEF BreakDeadlock
<1>5. ASSUME NEW u \in Users, DeleteUser(u) PROVE PlaylistInv'
  BY <1>5, DeleteUserKeeps
<1>6. CASE UNCHANGED vars
  BY <1>6, StutterKeeps
<1>. QED  BY <1>1, <1>2, <1>3, <1>4, <1>5, <1>6 DEF Next

LEMMA Inductive == Spec => []PlaylistInv
  BY PlaylistsInit, PlaylistsNext, PTL DEF Spec

-----------------------------------------------------------------------------
(* The theorems.                                                           *)

\* Every table and every transaction holds values of its type: no request
\* writes a row of a playlist there is not.
THEOREM PlaylistTypes == Spec => []TypeOK
<1>1. PlaylistInv => TypeOK
  <2> SUFFICES ASSUME PlaylistInv PROVE TypeOK
    OBVIOUS
  <2>1. /\ users \subseteq Users /\ known \subseteq Tracks /\ DOMAIN owner \subseteq PlaylistIds
        /\ \A p \in DOMAIN owner : owner[p] \in users
    BY DEF PlaylistInv, Tables
  <2>2. \A f \in RowsOf : DOMAIN f \subseteq ItemIds /\ \A i \in DOMAIN f : f[i] \in Row
    BY DEF RowsOf
  <2>3. /\ DOMAIN item \subseteq ItemIds
        /\ \A i \in DOMAIN item : item[i] \in Row /\ item[i].list \in DOMAIN owner
    BY <2>2 DEF PlaylistInv, Tables
  <2>4. ASSUME NEW r \in Requests
        PROVE  /\ txn[r].op \in Op /\ txn[r].pc \in Place
               /\ txn[r].list \in PlaylistIds \cup {0} /\ txn[r].item \in ItemIds \cup {0}
               /\ txn[r].order \in Seq(ItemIds)
               /\ txn[r].pos \in Nat /\ txn[r].todo \in Seq(Seq(Tracks))
               /\ \A i \in DOMAIN txn[r].rows : i \in ItemIds /\ txn[r].rows[i] \in Row
               /\ txn[r].gone \subseteq ItemIds /\ txn[r].made \subseteq PlaylistIds
               /\ txn[r].stored \subseteq Tracks
    <3>1. txn[r] \in TxnRecord
      BY DEF PlaylistInv
    <3>2. txn[r].rows \in RowsOf
      BY <3>1 DEF TxnRecord
    <3>3. \A i \in DOMAIN txn[r].rows : i \in ItemIds /\ txn[r].rows[i] \in Row
      BY <2>2, <3>2
    <3>. QED  BY <3>1, <3>3 DEF TxnRecord
  <2>. QED  BY <2>1, <2>3, <2>4 DEF TypeOK
<1>. QED  BY <1>1, Inductive, PTL

\* The positions of a playlist are 0, 1, 2, ... without a gap and without a
\* repetition, whatever additions, removals, reorderings and imports run side
\* by side: what max(position) + 1 and the renumbering rely on.
THEOREM Contiguous == Spec => []PositionsContiguous
<1>1. PlaylistInv => PositionsContiguous
  <2> SUFFICES ASSUME PlaylistInv, NEW p \in DOMAIN owner
               PROVE  {item[i].pos : i \in ItemsOf(p)} = 0 .. Cardinality(ItemsOf(p)) - 1
    BY DEF PositionsContiguous, ItemsOf
  <2>1. PICK n \in Nat : Numbered(item, ItemsOf(p), n)
    BY DEF PlaylistInv, Tables, Packed
  <2>2. Cardinality(ItemsOf(p)) = n
    BY <2>1, NumberedCardinality
  <2>3. {item[i].pos : i \in ItemsOf(p)} = 0 .. n - 1
    BY <2>1 DEF Numbered
  <2>. QED  BY <2>2, <2>3
<1>. QED  BY <1>1, Inductive, PTL

\* No request on the items of a playlist ends as a conflict (409), although the
\* unique constraint on positions is tested row by row while they are swapped.
THEOREM ItemsNeverConflict == Spec => []NoItemConflict
<1>1. PlaylistInv => NoItemConflict
  <2> SUFFICES ASSUME PlaylistInv, NEW r \in Requests, txn[r].pc = "conflict"
               PROVE  txn[r].op \in {"create", "file", "shelf"}
    BY DEF NoItemConflict
  <2>1. txn[r] \in TxnRecord /\ Kinds(txn[r])
    BY Current
  <2>. QED  BY <2>1 DEF Kinds, TxnRecord, Op
<1>. QED  BY <1>1, Inductive, PTL

=============================================================================
