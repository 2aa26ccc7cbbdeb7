SPECIFICATION Spec
CONSTANTS
  r1 = r1
  r2 = r2
  owner = owner
  guest = guest
  other = other
  list = list
  entry = entry
  code = code
  Requests = {r1, r2}
  Users = {owner, guest, other}
  Lists = {list}
  Entries = {entry}
  Tokens = {code}
  Home <- InOneList
  Owners <- OfOneOwner
  Kinds = {"use_code"}
  MaxConnections = 2
  MaxClock = 2
  StartClock = 1
  Sinces = {0, 1}
CHECK_DEADLOCK FALSE
PROPERTY CodesUsedOnce
