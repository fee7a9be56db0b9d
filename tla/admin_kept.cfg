\* Users are removed, promoted and enabled again; two bootstraps.
CONSTANTS
  u1 = u1  u2 = u2  u3 = u3
  r1 = r1  r2 = r2
  k1 = k1  k2 = k2
  NoUser = NoUser
  Users = {u1, u2, u3}
  Requests = {r1, r2}
  Commands = {k1, k2}
SPECIFICATION Spec
SYMMETRY Symmetry
INVARIANT TypeOK
INVARIANT BootstrapOnce
INVARIANT CountStaysTrue
PROPERTY LostOnlyMissed
