\* Two executions, one of them stale.
CONSTANTS
  t1 = t1
  c1 = c1
  w1 = w1  w2 = w2
  u1 = u1  u2 = u2
  NoTrack = NoTrack
  NoTask = NoTask
  Tracks = {t1}
  Callers = {c1}
  Workers = {w1, w2}
  TaskIds = {u1, u2}
  MaxAttempts = 2
  MaxFaults = 1
  TimelyLeases = FALSE
  ObjectsDurable = TRUE
  PlaybackChanges = FALSE
  DeleteOrphans = FALSE
SPECIFICATION Spec
SYMMETRY Symmetry
INVARIANT StaleWorkerFenced
