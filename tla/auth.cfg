\* Two keys and a password, two requests and one operator; bound: three sessions.
CONSTANTS
  u1 = u1
  r1 = r1  r2 = r2
  o1 = o1
  Users = {u1}
  Keys = {1, 2}
  Passwords = {3}
  Owner <- OneOwner
  MaxSessions = 3
  Requests = {r1, r2}
  Operators = {o1}
SPECIFICATION FairSpec
INVARIANT TypeOK
INVARIANT OneLivePerLogin
INVARIANT KeyResetComplete
INVARIANT NoLoginOutlivesKey
PROPERTY RefreshEnds
PROPERTY CommandEnds
