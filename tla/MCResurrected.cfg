SPECIFICATION Spec
CONSTANTS
  r1 = r1
  r2 = r2
  owner = owner
  list = list
  entry = entry
  code = code
  Requests = {r1, r2}
  Users = {owner}
  Lists = {list}
  Entries = {entry}
  Tokens = {code}
  Home <- InOneList
  Owners <- OfOneOwner
  Kinds = {"upload", "delete"}
  MaxConnections = 2
  MaxClock = 2
  StartClock = 1
  Sinces = {0, 1}
CHECK_DEADLOCK FALSE
INVARIANT DeletionWins
