\* A row read before the promotion.
CONSTANTS
  u1 = u1  u2 = u2
  r1 = r1  r2 = r2
  k1 = k1
  NoUser = NoUser
  Users = {u1, u2}
  Requests = {r1, r2}
  Commands = {k1}
SPECIFICATION Spec
SYMMETRY Symmetry
PROPERTY LastAdminKept
