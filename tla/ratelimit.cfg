\* Two requests at once, three windows of two seconds; calls delayed up to the
\* most the assumption allows.
CONSTANTS
  r1 = r1  r2 = r2
  Requests = {r1, r2}
  Limit = 2
  Window = 2
  Production = TRUE
  MaxDelay = 4
  MaxTime = 5
  MaxCount = 3
SYMMETRY Alike
SPECIFICATION Spec
INVARIANT TypeOK
INVARIANT WithinLimit
INVARIANT RetryInLaterWindow
