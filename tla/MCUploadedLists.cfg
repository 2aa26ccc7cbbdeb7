SPECIFICATION UploadedListsSpec
CONSTANTS
  Users = {u1, u2}
  Viewer = u1
  Lists = {l1}
  Entries = {}
  Tokens = {t1}
  Tips = {a}
  EntryRefs <- AllRefs
  TicksPerSec = 2
  MaxClock = 3
  Deadlines = {3}
  AliasInDelete = TRUE
INVARIANT NoListMissed
