\* No execution outlives its lease; playback is switched off and on; one request at a time, one fault.
CONSTANTS
  t1 = t1
  c1 = c1
  w1 = w1  w2 = w2
  u1 = u1  u2 = u2
  NoTrack = NoTrack
  NoTask = NoTask
  Tracks = {t1}
  Callers = {c1}
  Workers = {w1, w2}
  TaskIds = {u1, u2}
  MaxAttempts = 2
  MaxFaults = 1
  TimelyLeases = TRUE
  ObjectsDurable = TRUE
  PlaybackChanges = TRUE
  DeleteOrphans = FALSE
SPECIFICATION Spec
SYMMETRY Symmetry
INVARIANT WorkerHoldsRow
INVARIANT OneWorkerPerTrack
INVARIANT ReadyStreams
PROPERTY ImplementsLifecycle
