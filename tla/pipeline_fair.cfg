\* The store loses objects and orphans are deleted; two attempts, one fault.
CONSTANTS
  t1 = t1
  c1 = c1
  w1 = w1
  u1 = u1  u2 = u2
  NoTrack = NoTrack
  NoTask = NoTask
  Tracks = {t1}
  Callers = {c1}
  Workers = {w1}
  TaskIds = {u1, u2}
  MaxAttempts = 2
  MaxFaults = 1
  TimelyLeases = TRUE
  ObjectsDurable = FALSE
  PlaybackChanges = FALSE
  DeleteOrphans = TRUE
SPECIFICATION FairSpec
PROPERTY OnlyBrokenDemoted
PROPERTY BrokenRepaired
PROPERTY QueuedLeaves
PROPERTY DownloadLeaves
