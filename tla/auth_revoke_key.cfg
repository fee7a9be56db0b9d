\* One key, one rotation, one revocation.
CONSTANTS
  u1 = u1
  r1 = r1
  o1 = o1
  Users = {u1}
  Keys = {1}
  Passwords = {2}
  Owner <- OneOwner
  MaxSessions = 2
  Requests = {r1}
  Operators = {o1}
SPECIFICATION Spec
INVARIANT KeyRevocationComplete
