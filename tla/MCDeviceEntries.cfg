SPECIFICATION EntriesSpec
CONSTANTS
  Users = {u1, u2}
  Viewer = u1
  Lists = {l1}
  Entries = {e1}
  Tokens = {t1}
  Tips = {a, b}
  EntryRefs <- AllRefs
  TicksPerSec = 2
  MaxClock = 3
  Deadlines = {3}
  AliasInDelete = TRUE
INVARIANT NoOwnEntryMissed
INVARIANT NoEntryDeletionMissed
