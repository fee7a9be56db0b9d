-------------------------- MODULE MCInstanceConfig --------------------------
(***************************************************************************)
(* InstanceConfig on a small instance, in one process: caches of different *)
(* processes meet only in the table.                                       *)
(***************************************************************************)
EXTENDS InstanceConfig, TLC

CONSTANT p1

OneHome == [r \in Readers |-> p1]
OneEditorHome == [e \in Editors |-> p1]

Symmetry == Permutations(Readers) \cup Permutations(Editors)

\* The instance is checked from a state it reaches after its first save, which
\* came after an import command had read the version: the case in which the
\* import repeats a version number then needs two more commits, not three.
AfterFirstSave ==
  /\ history = <<[version |-> 1, bare |-> FALSE, by |-> "migration", base |-> 0],
                 [version |-> 2, bare |-> FALSE, by |-> "update", base |-> 1]>>
  /\ secret = TRUE
  /\ gone = [i \in Places |-> 0]
  /\ cache = [p \in Processes |-> NoSnapshot]
  /\ served = [p \in Processes |-> 0]
  /\ reader = [r \in Readers |-> IdleReader]
  /\ editor = [e \in Editors |-> IdleEditor]
  /\ importer = [i \in Importers |-> 1]

SpecAfterFirstSave == AfterFirstSave /\ [][Next]_vars
=============================================================================
