--------------------------- MODULE InstanceConfig ---------------------------
(***************************************************************************)
(* The configuration of an instance: the row of instance_settings with its *)
(* version, the provider credentials beside it, and the snapshot of both   *)
(* that every process keeps for five seconds.                              *)
(*                                                                         *)
(* Administrators change it by compare and swap on the version their page  *)
(* was loaded with; the rescue command import-legacy-config replaces it    *)
(* without comparing.  Nobody tells a process that it changed.             *)
(*                                                                         *)
(* All providers are one, with one credential.  A configuration that was   *)
(* committed is named by its place in the order of commits, which is also  *)
(* how a snapshot refers to what it has read.                              *)
(***************************************************************************)
EXTENDS Naturals, Sequences

CONSTANTS
  Processes,    \* API and worker processes, each with a cache of its own
  Readers,      \* requests and tasks that ask for a snapshot at the same time
  Home,         \* the process each of them runs in
  Editors,      \* administrators with the settings page open
  EditorHome,   \* the process that serves each of them
  Importers,    \* import-legacy-config commands at the same time
  TTL,          \* the cache's time to live, in ticks of the clock
  MaxCommits    \* bound on the changes of the configuration

ASSUME HomeAssumption ==
  Home \in [Readers -> Processes] /\ EditorHome \in [Editors -> Processes]
ASSUME BoundsAssumption == TTL \in Nat /\ MaxCommits \in Nat

VARIABLES
  history,   \* the configurations committed so far; the last is the current one
  secret,    \* is a credential stored now?
  gone,      \* ticks since each of them was replaced, up to TTL
  cache,     \* per process: its snapshot and the ticks since the read began
  served,    \* per process: the newest row it has had a snapshot of (history)
  reader,    \* per reader: where it is, and what it has read
  editor,    \* per administrator: where the PUT is, and what it is based on
  importer   \* per import: where it is, and the version it has read

vars == <<history, secret, gone, cache, served, reader, editor, importer>>

-----------------------------------------------------------------------------
Versions == 1..(MaxCommits + 1)
Places == 1..(MaxCommits + 1)
Author == {"migration", "update", "import"}

\* base is the place of the configuration the author's page was loaded with;
\* bare says that the provider was enabled and left without a credential.
Config == [version : Versions, bare : BOOLEAN, by : Author, base : Places \cup {0}]

Snapshot == [row : Places, secrets : Places, age : 0..TTL]
NoSnapshot == [row |-> 0, secrets |-> 0, age |-> 0]

IdleReader == [pc |-> "idle", row |-> 0, age |-> 0]
Reader == {IdleReader}
  \cup [pc : {"locked"}, row : {0}, age : 0..TTL]
  \cup [pc : {"row"}, row : Places, age : 0..TTL]

SecretChange == {"keep", "set", "remove"}
IdleEditor == [pc |-> "idle", base |-> 0, on |-> FALSE, change |-> "keep",
               existing |-> FALSE]
Editor == {IdleEditor}
  \cup [pc : {"open", "checked", "valid", "committed"}, base : Places,
        on : BOOLEAN, change : SecretChange, existing : BOOLEAN]

TypeOK ==
  /\ history \in Seq(Config) /\ Len(history) \in Places
  /\ secret \in BOOLEAN
  /\ gone \in [Places -> 0..TTL]
  /\ cache \in [Processes -> Snapshot \cup {NoSnapshot}]
  /\ served \in [Processes -> Places \cup {0}]
  /\ reader \in [Readers -> Reader]
  /\ editor \in [Editors -> Editor]
  /\ importer \in [Importers -> Versions \cup {0}]

\* What the migration inserts.
Init ==
  /\ history = <<[version |-> 1, bare |-> FALSE, by |-> "migration", base |-> 0]>>
  /\ secret = FALSE
  /\ gone = [i \in Places |-> 0]
  /\ cache = [p \in Processes |-> NoSnapshot]
  /\ served = [p \in Processes |-> 0]
  /\ reader = [r \in Readers |-> IdleReader]
  /\ editor = [e \in Editors |-> IdleEditor]
  /\ importer = [i \in Importers |-> 0]

Now == Len(history)
Current == history[Now]

-----------------------------------------------------------------------------
(* get_snapshot.                                                           *)

Usable(p) == cache[p].row # 0 /\ cache[p].age < TTL

\* Mutant: no _cache_lock.
BeginUnlocked(r) ==
  /\ reader[r].pc = "idle"
  /\ reader' = [reader EXCEPT ![r] = [pc |-> "locked", row |-> 0, age |-> 0]]
  /\ UNCHANGED <<history, secret, gone, cache, served, editor, importer>>

\* The lock is free and, with it held, the cache still has nothing to serve, or
\* the caller has asked for a fresh snapshot, which any caller may; the time is
\* taken before the first SELECT.
Begin(r) ==
  /\ reader[r].pc = "idle"
  /\ \A q \in Readers : Home[q] = Home[r] => reader[q].pc = "idle"
  /\ reader' = [reader EXCEPT ![r] = [pc |-> "locked", row |-> 0, age |-> 0]]
  /\ UNCHANGED <<history, secret, gone, cache, served, editor, importer>>

ReadRow(r) ==
  /\ reader[r].pc = "locked"
  /\ reader' = [reader EXCEPT ![r].pc = "row", ![r].row = Now]
  /\ UNCHANGED <<history, secret, gone, cache, served, editor, importer>>

Installed(r, age) ==
  LET p == Home[r] IN
  /\ cache' = [cache EXCEPT ![p] = [row |-> reader[r].row, secrets |-> Now, age |-> age]]
  /\ served' = [served EXCEPT ![p] = reader[r].row]
  /\ reader' = [reader EXCEPT ![r] = IdleReader]
  /\ UNCHANGED <<history, secret, gone, editor, importer>>

\* Mutant: the snapshot is dated by the end of the read.
InstallSnapshotDatedLate(r) == reader[r].pc = "row" /\ Installed(r, 0)

\* The credentials are read by a statement of their own, and both are kept.
InstallSnapshot(r) == reader[r].pc = "row" /\ Installed(r, reader[r].age)

\* Mutant: a credential that does not decrypt is left out of the snapshot.
ReadFailsHalfway(r) ==
  /\ reader[r].pc = "row"
  /\ cache' = [cache EXCEPT ![Home[r]] = [row |-> reader[r].row, secrets |-> 0,
                                         age |-> reader[r].age]]
  /\ reader' = [reader EXCEPT ![r] = IdleReader]
  /\ UNCHANGED <<history, secret, gone, served, editor, importer>>

\* A SELECT fails, a credential does not decrypt, the request is cancelled.
ReadFails(r) ==
  /\ reader[r].pc # "idle"
  /\ reader' = [reader EXCEPT ![r] = IdleReader]
  /\ UNCHANGED <<history, secret, gone, cache, served, editor, importer>>

-----------------------------------------------------------------------------
(* The settings page and update.                                           *)

Committed(on, stored, version, by, base) ==
  /\ Now <= MaxCommits
  /\ history' = Append(history, [version |-> version, bare |-> on /\ ~stored,
                                 by |-> by, base |-> base])
  /\ secret' = stored

\* The page of an administrator as it was loaded, with its request at pc.
Stage(e, pc) ==
  editor' = [editor EXCEPT ![e] = [IdleEditor EXCEPT !.pc = pc, !.base = editor[e].base]]

\* The page is loaded, for the first time or again.
Open(e) ==
  /\ editor[e].pc \in {"idle", "open"}
  /\ editor' = [editor EXCEPT ![e] = [IdleEditor EXCEPT !.pc = "open", !.base = Now]]
  /\ UNCHANGED <<history, secret, gone, cache, served, reader, importer>>

\* PUT: the row has the version the page shows; otherwise 409.
CheckVersion(e) ==
  /\ editor[e].pc = "open"
  /\ Current.version = history[editor[e].base].version
  /\ Stage(e, "checked")
  /\ UNCHANGED <<history, secret, gone, cache, served, reader, importer>>

\* Is there a credential once the change is applied to the ones that exist?
Provided(change, existing) == change = "set" \/ (change = "keep" /\ existing)

\* The credentials are read, and an enabled provider without one is refused;
\* what the request asks for matters from here on.
Validate(e) ==
  /\ editor[e].pc = "checked"
  /\ \E on \in BOOLEAN, change \in SecretChange :
       IF on /\ ~Provided(change, secret)
         THEN Stage(e, "open")
         ELSE editor' = [editor EXCEPT ![e].pc = "valid", ![e].on = on, ![e].change = change,
                                       ![e].existing = secret]
  /\ UNCHANGED <<history, secret, gone, cache, served, reader, importer>>

\* The rows are written as they were found: a row to insert that is there by
\* now, or one to change that is gone, is an error.
Writable(q) == q.change = "set" => q.existing = secret

SecretAfter(q) ==
  CASE q.change = "set" -> TRUE
    [] q.change = "remove" -> secret /\ ~q.existing
    [] q.change = "keep" -> secret

\* Mutant: the WHERE clause does not test the version.
CompareAndSwapById(e) ==
  LET q == editor[e] IN
  /\ q.pc = "valid"
  /\ IF Writable(q)
       THEN /\ Committed(q.on, SecretAfter(q), Current.version + 1, "update", q.base)
            /\ Stage(e, "committed")
       ELSE Stage(e, "open") /\ UNCHANGED <<history, secret>>
  /\ UNCHANGED <<gone, cache, served, reader, importer>>

\* UPDATE ... WHERE version = the page's, the audit row, COMMIT; or 409.
CompareAndSwap(e) ==
  LET q == editor[e] IN
  /\ q.pc = "valid"
  /\ IF Writable(q) /\ Current.version = history[q.base].version
       THEN /\ Committed(q.on, SecretAfter(q), Current.version + 1, "update", q.base)
            /\ Stage(e, "committed")
       ELSE Stage(e, "open") /\ UNCHANGED <<history, secret>>
  /\ UNCHANGED <<gone, cache, served, reader, importer>>

\* invalidate_config_cache, in the process that served the PUT, and read: the
\* page is loaded with what it shows.
Invalidate(e) ==
  /\ editor[e].pc = "committed"
  /\ cache' = [cache EXCEPT ![EditorHome[e]] = NoSnapshot]
  /\ editor' = [editor EXCEPT ![e] = [IdleEditor EXCEPT !.pc = "open", !.base = Now]]
  /\ UNCHANGED <<history, secret, gone, served, reader, importer>>

\* A lost connection or a cancelled request rolls back what is not committed.
EditorDies(e) ==
  /\ editor[e].pc # "idle"
  /\ editor' = [editor EXCEPT ![e] = IdleEditor]
  /\ UNCHANGED <<history, secret, gone, cache, served, reader, importer>>

-----------------------------------------------------------------------------
(* import-legacy-config --replace.                                         *)

ReadVersion(i) ==
  /\ importer[i] = 0
  /\ importer' = [importer EXCEPT ![i] = Current.version]
  /\ UNCHANGED <<history, secret, gone, cache, served, reader, editor>>

\* The settings are replaced by whatever the file says, the version by the
\* one after the version read; credentials are added, none is removed.
WriteImport(i) ==
  /\ importer[i] # 0
  /\ \E on, imported \in BOOLEAN :
       Committed(on, secret \/ imported, importer[i] + 1, "import", 0)
  /\ importer' = [importer EXCEPT ![i] = 0]
  /\ UNCHANGED <<gone, cache, served, reader, editor>>

ImportDies(i) ==
  /\ importer[i] # 0
  /\ importer' = [importer EXCEPT ![i] = 0]
  /\ UNCHANGED <<history, secret, gone, cache, served, reader, editor>>

-----------------------------------------------------------------------------
Older(age) == IF age < TTL THEN age + 1 ELSE TTL

\* The clock of every process.
Tick ==
  /\ gone' = [i \in Places |-> IF i < Now THEN Older(gone[i]) ELSE 0]
  /\ cache' = [p \in Processes |-> IF cache[p].row = 0 THEN NoSnapshot
                                   ELSE [cache[p] EXCEPT !.age = Older(@)]]
  /\ reader' = [r \in Readers |-> IF reader[r].pc = "idle" THEN IdleReader
                                  ELSE [reader[r] EXCEPT !.age = Older(@)]]
  /\ UNCHANGED <<history, secret, served, editor, importer>>

Next ==
  \/ \E r \in Readers : Begin(r) \/ ReadRow(r) \/ InstallSnapshot(r) \/ ReadFails(r)
  \/ \E e \in Editors : \/ Open(e) \/ CheckVersion(e) \/ Validate(e)
                        \/ CompareAndSwap(e) \/ Invalidate(e) \/ EditorDies(e)
  \/ \E i \in Importers : ReadVersion(i) \/ WriteImport(i) \/ ImportDies(i)
  \/ Tick

Spec == Init /\ [][Next]_vars

-----------------------------------------------------------------------------
(* Properties.                                                             *)

\* A process never serves from its cache settings or credentials that were
\* replaced TTL ticks ago, although nothing tells it of a change and its own
\* reads may take any time (service.py:67, runbooks.md:114).
StaleWithinTTL ==
  \A p \in Processes :
    Usable(p) => gone[cache[p].row] < TTL /\ gone[cache[p].secrets] < TTL

\* A process never goes back to settings older than those it has had, however
\* its requests interleave their reads (service.py:70).
NeverGoesBack ==
  [][\A p \in Processes : cache'[p].row # 0 => cache'[p].row >= served[p]]_vars

\* An import came between the page and its save, and set the version number
\* back to the one the page was showing, or behind it: saves after the import
\* may then have brought it up to that number again.
Overtaken(i) ==
  LET base == history[i].base IN
  \E j \in base + 1 .. i - 1 :
    history[j].by = "import" /\ history[j].version <= history[base].version

\* A page that is saved replaces exactly what it was showing, unless an import
\* has set the version number back (service.py:155, rescue.py:360).
NoLostUpdate ==
  \A i \in 1..Now :
    history[i].by = "update" => history[i].base = i - 1 \/ Overtaken(i)

\* No save leaves the provider enabled without a credential, although the
\* credentials are checked before they are written (service.py:143); again, an
\* import may hide the change that removed one.
CredentialsPresent ==
  \A i \in 1..Now :
    history[i].by = "update" /\ history[i].bare => Overtaken(i)
=============================================================================
