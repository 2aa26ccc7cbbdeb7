SPECIFICATION FairSpec
CONSTANTS
  Instances = {i1, i2}
  Values = {v1, v2}
  TableCount = 2
  Users = {u1}
  Emails = {m1}
  Keys = {k1, k2}
  Passwords = {p1}
INVARIANT TypeInv
INVARIANT MigratedBeforeUse
INVARIANT IdentityKept
INVARIANT NotAllLose
INVARIANT SessionsTraced
PROPERTY EveryStartEnds
