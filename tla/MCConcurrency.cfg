SPECIFICATION Spec
SYMMETRY RequestSymmetry
CONSTANTS
  r1 = r1
  r2 = r2
  owner = owner
  guest = guest
  list = list
  entry = entry
  code = code
  Requests = {r1, r2}
  Users = {owner, guest}
  Lists = {list}
  Entries = {entry}
  Tokens = {code}
  Home <- InOneList
  Owners <- OfOneOwner
  Kinds = {"upload", "delete", "web_delete", "list_upload", "list_delete", "web_list_delete", "use_code", "web_change", "delete_account"}
  MaxConnections = 2
  MaxClock = 2
  StartClock = 1
  Sinces = {1}
INVARIANT TypeInv
CHECK_DEADLOCK FALSE
PROPERTY OrderKept
PROPERTY EntryDeletionRecorded
PROPERTY SharesTold
