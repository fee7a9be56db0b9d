\* Two readers of one process, two pages and an import.
CONSTANTS
  p1 = p1
  r1 = r1  r2 = r2
  e1 = e1  e2 = e2
  i1 = i1
  Processes = {p1}
  Readers = {r1, r2}
  Home <- OneHome
  Editors = {e1, e2}
  EditorHome <- OneEditorHome
  Importers = {i1}
  TTL = 1
  MaxCommits = 3
SPECIFICATION SpecAfterFirstSave
SYMMETRY Symmetry
INVARIANT TypeOK
INVARIANT StaleWithinTTL
INVARIANT NoLostUpdate
INVARIANT CredentialsPresent
PROPERTY NeverGoesBack
