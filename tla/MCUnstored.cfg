SPECIFICATION Spec
CONSTANTS
  Instances = {i1, i2}
  Values = {v1, v2}
  TableCount = 2
  Users = {u1}
  Emails = {m1}
  Keys = {k1, k2}
  Passwords = {p1}
INVARIANT AnsweredStored
