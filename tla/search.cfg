\* Two searches for one query, credentials that change and a slow Redis: a tick is
\* half a second, the timeout a second and a half, a Redis command takes up to as
\* much, the pause between two polls is one tick.
CONSTANTS
  s1 = s1  s2 = s2
  c1 = c1  c2 = c2
  NoOne = NoOne
  Searches = {s1, s2}
  Credentials = {c1, c2}
  Second = 2
  Timeout = 3
  RedisTime = 3
  Pause = 1
  FullTTL = 1
  EmptyTTL = 1
  TokenLife = 1
  MaxRetryAfter = 1
SYMMETRY Alike
SPECIFICATION Spec
INVARIANT TypeOK
INVARIANT TokenMatches
INVARIANT TokenLockLeft
INVARIANT LockOutlivesCall
INVARIANT AnsweredInTime
PROPERTY FetchedOnce
