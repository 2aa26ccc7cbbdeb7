SPECIFICATION FairSpec
CONSTANTS
  r1 = r1
  r2 = r2
  owner = owner
  guest = guest
  list = list
  entry = entry
  Requests = {r1, r2}
  Users = {owner, guest}
  Lists = {list}
  Entries = {entry}
  Tokens = {}
  Home <- InOneList
  Owners <- OfOneOwner
  Kinds = {"upload", "delete", "web_delete", "list_upload", "list_delete", "web_list_delete", "web_change", "delete_account"}
  MaxConnections = 2
  MaxClock = 1
  StartClock = 1
  Sinces = {0}
CHECK_DEADLOCK FALSE
PROPERTY EveryRequestAnswered
