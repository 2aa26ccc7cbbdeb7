SPECIFICATION Spec
CONSTANTS
  Users = {u1, u2}
  Lists = {l1, l2}
  Entries = {e1}
  Tokens = {t1}
  Tips = {a}
  EntryRefs <- HomeRefs
  TicksPerSec = 2
  MaxClock = 2
  Deadlines = {2}
  AliasInDelete = TRUE
SYMMETRY UserSymmetry
CONSTRAINT Bound
INVARIANT TypeInv
INVARIANT NoOwnedTombstone
INVARIANT NothingFromTheFuture
INVARIANT DeletionWins
INVARIANT EntryDeletionsNeverFail
PROPERTY ImplementsRegister
PROPERTY ChangedNeverRegresses
PROPERTY EntryDeletionRecorded
PROPERTY TombstonesKept
