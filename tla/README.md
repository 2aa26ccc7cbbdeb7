# A verified model of the VTA sync backend

TLA+ modules, TLC configurations and machine-checked proofs about
`vta_sync_backend`, the server with which the vocabulary trainer app and its web
client keep word lists in sync. Paths in this file are relative to the root of
the repository.

## 1. The system

The server is a set of HTTP handlers around one MariaDB database. It keeps no
state of its own between requests: everything is in the tables of
`migrations/20211110145608_base.sql`. There are two kinds of clients. The *app*
works offline; it uploads what it did under the dates of its own clock, and asks
for the *delta*: what happened on the server since the `time` of its last
response. The *web client* edits directly on the server.

| Component | State | Operations | Hard behaviour | What makes it correct |
|---|---|---|---|---|
| Schema (`migrations/`) | all tables | cascades of foreign keys | a row that goes takes others along | every foreign key has its row; rows go only together with what refers to them |
| List sync (`src/sync/dao.rs` 10-319) | `lists`, `deleted_list`, `deleted_list_shared`, `users.last_seen` | `update_deleted_lists`, `update_changed_lists` | uploads in any order, from several devices; dates cut to seconds; statements that fail | owners are never told that their list is deleted; everyone a list was shared with is told; deltas are complete |
| Entry sync (`src/sync/dao.rs` 321-685) | `entries`, `entry_meaning`, `deleted_entry` | `update_deleted_entries`, `update_changed_entries` | the same; an edit racing a deletion | deletion wins; dates never go back; deltas are complete |
| Lists API (`src/lists/dao.rs`) | the same tables | create, change and delete lists and entries | edits that apps must learn of | every deletion is recorded, every edit reaches the deltas |
| Sharing (`src/lists/dao.rs` 86-271) | `list_permissions`, `share_token` | generate and use a code, take a share back, change permissions | one code, several users; a list that goes meanwhile | a single-use code is used once; every share is told of the deletion |
| Connections (`src/main.rs` 105-117, every DAO) | open transactions, row and gap locks | begin, statements, commit, rollback | requests at the same time, deadlocks, lost connections | every request ends; no date goes back and nothing is lost between two of them |
| Accounts (`src/users/dao.rs`) | `users`, `user_key`, `user_login`, `deleted_user` | register, delete, add a password | an account goes with its lists | those it shared lists with are told |
| Account routes, sessions (`src/users/routes.rs`) | cookies in clients, sealed with the session key | register, log in by key or password, add a password, delete, info | nested transactions; a session that outlives the account | an answer of 200 means that the change is stored; a cookie names somebody |
| Start-up (`src/main.rs`, `src/server/mod.rs`) | `settings`, `_sqlx_migrations` | migrate, load or create the server id and the session key | several instances, a crash in between | all instances agree on one id and one key; none uses tables that are not there |
| Server info (`src/server/routes.rs`) | none | tells the server id | | |
| Configuration, telemetry, errors | none | | | |
| The app (external) | its copy of lists and entries, what it did offline, four `since` dates | download, edit, delete, upload | many devices of one user | it gets everything it may read |

The components meet in the tables. Two questions are asked of them. What does a
*sequence of requests* of several clients, with several clocks, make of the
tables, and what does a device that asks now and then get to see of it? And what
do *requests at the same time* do to each other, statement by statement? Two
clocks matter: `changed` is the date of the client that made the edit, `updated`
(entries) and `created` (tombstones) are dates of the server.

## 2. Modules

| Module | Models | How it corresponds |
|---|---|---|
| `Schema` | the migration, and SQL as it is used | A table is a function from its primary key to the rest of its row. `Put`, `InsertIgnore`, `Delete` are the statements, `DropLists` a `DELETE` with its cascades. `clock` is `Utc::now()`. |
| `SyncLists`, `SyncEntries` | `src/sync/dao.rs` | `UpdateDeletedLists`, `UpdateChangedLists`, `UpdateDeletedEntries`, `UpdateChangedEntries` are the requests as whole transactions; the operators before them are their queries: the delta, the items that pass each check, the reason to fail. |
| `ListsApi` | `src/lists/dao.rs` | one action per DAO function that writes; `HasListPerm` is `has_list_perm` |
| `Accounts` | `src/users/dao.rs`, as far as lists are concerned | `RegisterUser`, `DeleteUser` |
| `Server` | all requests of all users, one after another | composes the four above; states the properties. `Spec` has every client, `AppSpec` leaves out editing on the web. |
| `EntryRegister` | nothing: what the server promises of entries | no edit takes the place of one made in a later second (within a second an older one may, see the ties in section 4), and a deletion is the last word while its list is open |
| `Device` | one app next to the server | `Pull...` and `Sync...` are a request together with what the app does with the response; `EditOffline` and `RemoveOffline` are what it uploads next |
| `Transactions` | the connection pool and InnoDB | snapshot reads, locking statements, waiting, deadlock, commit, rollback |
| `EntryRequests`, `ListRequests`, `AccountRequests` | requests on entries, on lists and shares, and the deletion of an account, statement by statement | a request is a program counter `pc`, its upload `req`, its `t_now`, the rows it has `seen` and the items `todo`; each action is one statement of the handler, with the locks it takes |
| `Concurrency` | requests of nine kinds at the same time | composes the four above; states the properties |
| `Startup` | `src/main.rs`, `src/server/mod.rs` | an instance is at a stage of `main_`; `Crash` loses what it holds in memory |
| `AccountRoutes` | `src/users/routes.rs`, `src/users/dao.rs`, `src/server/routes.rs` | one action per route, at any instance that serves. A connection is the tables as it sees them and a stack of states to go back to; the DAO functions take and return one. |
| `MCServer`, `MCDevice`, `MCConcurrency` | | constants for TLC |
| `ServerProofs`, `SafetyProofs`, `RegisterProofs` | | theorems about `Server` |
| `DeviceProofs` | | theorems about `Device` |
| `ConcurrencyProofs`, `ConcurrencyKeyProofs` | | theorems about `Concurrency`: what is committed to a row, and foreign keys, locks and shares |
| `StartupProofs` | | theorems about `Startup` with `AccountRoutes` |

Operators whose comment begins with "Faulty" are no part of the model. Each is what
a mapped definition would be with a plausible bug, put in its place to see
that the property in question notices.

`SetSharePermissions` is not an action: the statement cannot succeed
(`SetSharePermissionsFails`). For the same reason `ListsToUpdate` makes a request fail
and is nevertheless written in `UpdateChangedLists`: there it says what the
statement would do, and the theorems about dates do not depend on its failing.

### What is taken for granted

In `Server` and `Device`:

* *Transactions are serial.* What happens between two of them is the subject of
  `Concurrency`. A request that fails leaves no trace, so it is the absence of a
  step, and the *reason* is an operator (`UpdateDeletedListsFails`, ...).
* *The database is MariaDB*, as `README.md` says, in the `STRICT_ALL_TABLES` mode
  that `src/main.rs` 110 sets: a `DATETIME` column cuts off the fraction of a
  second. Time is counted in ticks, `TicksPerSec` of them in a second.
* *A statement that names an unknown column is an error.* Three statements do;
  `Prepares` says so in terms of the columns of the migration. Whether
  `DELETE FROM list_permissions p WHERE ...` (`src/lists/dao.rs` 96) is accepted
  depends on the version of the database, so `AliasInDelete` is a constant; the
  runs take `TRUE`, the choice with more behaviour, and the theorems hold for both.
* *The DAO is modelled as its tests call it*, with a connection of its own. Some
  routes keep a request from getting there: the account routes hand it a
  transaction that they never commit (run `unstored`); `change_entry` and
  `create_entry` extract their body from the path (`src/lists/routes.rs` 214, 238),
  where it is not; `list_sharing_add` throws the code away
  (`src/lists/routes.rs` 115-122). The properties of `Server` are those of the DAO.
* *A request names each list or entry once.* The types are sequences, but the app
  builds them from its own tables.
* *Random uuids and tokens are new* (`FreshList`, `FreshEntry`): `CreateList` never
  meets a uuid that the tables or tombstones hold. Uuids in uploads are the
  client's choice and can be any.
* *Sessions are trusted*: a user of a request is any user, also one whose account
  is gone, because the cookie lives on.
* Names, tips and meanings are one value out of `Tips`; the `reshare` flag, which no
  modelled handler looks at, is left out.

In `Device`: an app keeps for an entry that it edited or removed offline its own
version until the next upload; its clock is right, and its edits have a fraction
of a second (`EditOffline`, see the ties in section 4).

In `Concurrency`:

* *InnoDB at REPEATABLE READ, as MariaDB 10 has it.* Plain `SELECT`s of a transaction
  see what was committed at the first of them, so they are one step (`Look`).
  Statements that write, and `SELECT ... FOR UPDATE`, read and lock what is committed
  now. From MariaDB 11.6.2 on `innodb_snapshot_isolation` is on by default and makes
  a locking read of a row that changed since the snapshot an error; the run
  `resurrected` needs a row that is missing both times, `code_used_twice` a database
  without that setting.
* A missing row is locked by a gap lock, which covers its own key and no others. That
  leaves out waits, not violations. The one range that matters is that of an owner's lists in the index of
  `fk_user_id_list` (`ListsOf`): the `INSERT ... SELECT` of `delete_user`
  (`src/users/dao.rs` 153-162) reads and locks it, and a list that is inserted enters it.
  With less, `SharesTold` would be false, from four requests on: a list that is made and
  shared between the copy of the shares and the `DELETE` would go untold.
  The locks of one statement are granted in any order; a lock-wait timeout is an `Abandon`.
* The checks of all the items of an upload are plain reads and done up front; then
  the items are written in any order. An entry keeps its list (`Home`), and contents
  are left out. A tick is a second.
* Requests start from any tables that earlier ones may have left (`Tables`).
* `INSERT IGNORE` (`src/sync/dao.rs` 96) ignores a foreign key without its row, too
  (`BuryList`: the owner's account has gone meanwhile).
* A cascade locks what it removes, and the gap where there is nothing to remove.
* The four uploads, `change_entry`, `delete_entry`, `delete_list`, `use_share_code` and
  `delete_user` are there. `create_list` and `create_entry` insert new uuids
  that no other request can name yet; `change_list` and `generate_share_code` are one
  statement on one row, like `change_entry`; taking a share back is a `DELETE` of one row.

In `AccountRoutes` and `Startup`:

* What `jsonwebtoken` and `argon2` decide is whether two keys, two passwords and two
  server ids are the same. Expiry and formats are theirs. A cookie opens at an
  instance that has the key it was sealed with.
* `BEGIN` inside of a transaction is a savepoint, and dropping a transaction rolls
  back to where it began; that is what sqlx does.
* sqlx's migrator holds an advisory lock of its connection, and the database gives
  it back when the connection is gone. `CREATE TABLE` commits by itself in MariaDB, so a
  crash leaves some tables; all of them are `IF NOT EXISTS`.
* Uuids and session keys are drawn new (`Fresh`).
* Accounts come by `DirectCalls` too, DAO calls on a connection without a
  transaction, as in the tests; otherwise no run would have an account.

## 3. Runs

Runs that pass:

| Run | Specification | Shows |
|---|---|---|
| `entries` | `Server!Spec` | `ImplementsRegister`: whatever requests of two users do to lists, shares, accounts and an entry is a step of `EntryRegister`. Also `TypeInv`, `DeletionWins`, `EntryDeletionsNeverFail`, `ChangedNeverRegresses`, `EntryDeletionRecorded` (the tombstone is one of the entry's own list), `TombstonesKept` (also when a list is uploaded and deleted again by somebody else), `NoOwnedTombstone`, `NothingFromTheFuture`, with uploads under every date the bound has, also future ones. |
| `device_entries` | `Device!EntriesSpec` | `NoOwnEntryMissed`, `NoEntryDeletionMissed`: whatever the phase of the request in its second, and whatever was edited or deleted offline, the app has an entry of its own lists as the server has it, or the next delta has it |
| `device_lists` | `Device!ListsSpec` | `NoListMissed`, `NoListDeletionMissed`: lists made, renamed and shared on the server, deleted by apps or with an account. `SharedDeletionRecorded`: whoever had a share of a list that goes is left a tombstone |
| `concurrency` | `Concurrency!Spec` | two requests of any two of nine kinds: `TypeInv` (locks exclude each other, what changes a row is locked X, foreign keys hold), `OrderKept`, `EntryDeletionRecorded`, `SharesTold` (also when an account goes with its lists) |
| `progress` | `Concurrency!FairSpec` | `EveryRequestAnswered`: deadlocks are broken, and no failing request leaves a lock behind |
| `startup` | `AccountRoutes!FairSpec` | two instances, crashes, restarts and all account routes: `TypeInv`, `MigratedBeforeUse`, `IdentityKept`, `NotAllLose`, `SessionsTraced`, `EveryStartEnds` |

Runs that show where the code does not do what its tests and comments say:

| Run | Violated | What happens |
|---|---|---|
| `resurrected` | `DeletionWins` | An upload looks for the tombstone in its snapshot (`src/sync/dao.rs` 606). Another request deletes the entry. The upload finds no row, inserts it, and the entry is alive next to its tombstone. |
| `late_commit` | `AnswersComplete` | An upload takes its `t_now` (`src/sync/dao.rs` 496), a device asks one second later, the upload commits: its rows are older than the device's next `since`. |
| `code_used_twice` | `CodesUsedOnce` | Two users read one single-use code (`src/lists/dao.rs` 200) before either deletes it, and both get the list. |
| `unstored` | `AnsweredStored` | `app_register` (`src/users/routes.rs` 51) lends the DAO a transaction that is dropped: 200, and no account. The same holds for `app_password_register` and `account_delete`. |
| `uploaded_lists` | `NoListMissed` | The delta of lists (`src/sync/dao.rs` 162) goes by the client's date: a list made offline is older than the other device's `since`. |
| `shared_entries` | `NoReadableEntryMissed` | The delta of entries (`src/sync/dao.rs` 507-513) ignores the date of the share: a user gets a list and none of its old entries. |

The `Device` runs that pass leave out, on purpose, the steps that other runs or
section 4 show to break the property. `ListsSpec` has no uploads of lists and no deletion
on the web; `EntriesSpec` has no editing on the web, and speaks of own lists; in neither
is a share taken back.

Bounds. Two users are an owner and somebody else, who also is the one a list
is shared with (owners can use their own codes, so a list may have two shares);
`code_used_twice` takes a third. One list and one entry make the questions about a row
and its tombstones. `entries` has a second list, in which a tombstone could wrongly be
stored: clients agree on the list of the entry (`HomeRefs`), which is what the properties with
`OneListPerEntry` are about. To keep the run short, the state constraint `Bound` goes on only
from states with no share, or without the second list, and with no share code, or without
entries and their tombstones (nothing that handles entries looks at codes; shares stay).
What clients that disagree on the list do is covered by the theorems of the other
properties, which know no bound.
`TicksPerSec = 2` makes the fraction of a second visible; `MaxClock = 3` gives two
seconds, the least in which something can be before, within and after the second of
a request (`entries` stops at 2, the beginning of the second one, which has all
orders of two dates). Two requests at a time are enough for every pair to meet at
every statement, and what more of them could do together is covered by the proofs; `MaxClock = 2` lets both write newer rows than those of the start, and
`Sinces` is a device that asks for what is newer than them (in the violated runs also
one that asks for everything). `progress`
needs few dates, and for its size has no share codes: their requests, too, lock in
statements one after another, and `concurrency` has them meet every other kind. Two instances with two values for ids
and keys race at every setting, and have values to disagree in; two tables make a
crash between two statements of the migration. `MaxClock` bounds the clock and with it
every date. Requests that have ended stay so, and the `Concurrency` runs therefore have
their deadlock check off; no other run has. `UserSymmetry` and `RequestSymmetry` are
sound because no user, or no request, is named by a constant there; `progress`, with
a liveness property, has no symmetry.

Fairness. `Concurrency!FairSpec` is weak fairness of `Serve(r)`: the executor polls
every request again, the database runs a statement as soon as its locks are free and
breaks cycles of waiting. Nothing makes a request arrive or be abandoned.
`AccountRoutes!FairSpec` is weak fairness of what a start does by itself, for a process
that is not killed goes on, and strong fairness of `LockMigrations`, for the database
grants the migrator's lock in the order in which it was asked for. Nothing is
assumed of clients or of crashes.

## 4. Known divergences that no run is about

They were found while the modules were written, by steps that are now left out
where they break a property:

* `delete_list` (`src/lists/dao.rs` 351) writes a tombstone for the owner only, so an app
  of somebody the list was shared with keeps it. The test of the app's own deletion says
  "which were shared are also tracked for the users which whom the lists were shared"
  (`src/sync/tests/deleted_lists.rs` 104).
* A deletes a list, B uploads a copy of it and owns it now (only B's own tombstones are
  looked for, `src/sync/dao.rs` 202), B deletes it: `INSERT IGNORE` (line 96) keeps A's
  tombstone and drops B's.
  `TombstonesKept` is the good side of that.
* If C had a share of it both times, B's deletion meets C's old tombstone (line 107,
  an `INSERT` without `IGNORE`) and fails each time.
* `fetch_one` (line 576) makes an entry of a list that is gone an error for the whole
  upload; the branch that would ignore it (lines 599-600) is never reached.
* `change_entry` (`src/lists/dao.rs` 444) does not set `updated`: devices never see an edit
  made on the web.
* It does not compare dates either: its `t_now` is read first, so an upload that another
  request commits before the `UPDATE` is overwritten with an older date. `OrderKept` is
  about uploads for this reason (the author asks the same of lists: "what happens if this
  change is behind the last-change date in the DB", line 280).
* *Ties.* An upload whose date is exactly that of the stored row takes the row out of
  the delta ("don't send back data with newer incoming changes", line 561) and is then
  ignored (line 624): the app keeps a version of its own. The guard of `EditOffline` on the
  fraction of the clock is there for this, and `NoOwnEntryMissed` fails without it.
  The other tie is within a second. Line 624 compares the date of the upload, which has a
  fraction, with the stored one, which has lost it: an edit made at 7.1 s that arrives after
  one made at 7.9 s (stored as 7) replaces it, although line 623 says "do not take over
  outdated entries". So `EntryRegister` and `ChangedNeverRegresses` order edits by seconds, and
  say nothing of two edits of one second.
* `update_deleted_entries` deletes the entry by its uuid and stores the tombstone under the
  list that the client named (`src/sync/dao.rs` 448-458). If that is another list than the
  entry's, the readers of the entry's list are never sent the tombstone, and keep the entry.
  `EntryDeletionRecorded` asks for the right list only if all clients name the same one
  (`OneListPerEntry`), and the theorem about `NoEntryDeletionMissed` assumes the same.

Three statements can never succeed; the model has them fail (`Prepares`):

* `UPDATE lists ... WHERE list = ?` (`src/sync/dao.rs` 211), no such column: an upload
  with a newer version of a list that exists is an error (`UpdateChangedListsFails`);
* `SELECT change FROM list_permissions` (`src/lists/dao.rs` 610), no such column: a
  write share is of no use on the web (`HasListPerm`), although `all_lists` reports
  it as such (`src/lists/tests/list_basics.rs` 84);
* `UPDATE list_permissions ... WHERE p.list = ?` (`src/lists/dao.rs` 121), no such
  alias: the route "Update user permissions" (`src/lists/routes.rs` 80) always fails
  (`SetSharePermissionsFails`).

`WHERE list = ? AND list = ?` (`src/sync/dao.rs` 207) prepares but is bound to the list and
to the user, so nobody but the owner ever passes it (`ForeignPerm`).

Smaller ones: a login for a user who is not there is answered as a login that exists,
because both constraint errors have one code (`create_password_login`); an account
registered again under the uuid of a deleted one can never be deleted
(`DeleteUserFails`); no login looks at `users.locked`.

## 5. Proofs

For all values of the constants that satisfy the assumptions `SchemaAssumption`,
`ViewerAssumption`, `TransactionsAssumption`, `EntryRequestsAssumption`,
`ConcurrencyAssumption` and `StartupAssumption`:

| Theorem | Statement |
|---|---|
| `TypeCorrect`, `TypesAndKeys` | `Spec => []TypeOK`, `Spec => []TypeInv`, with the foreign keys |
| `DeletedEntriesStayDeleted` | `Spec => []DeletionWins` |
| `OwnersNeverToldDeleted` | `Spec => []NoOwnedTombstone` |
| `NoFutureDates` | `Spec => []NothingFromTheFuture` |
| `EntryDeletionsSucceed` | `Spec => []EntryDeletionsNeverFail` |
| `OrderOfChangesKept` | `Spec => ChangedNeverRegresses` |
| `NoEntryLost` | `Spec => EntryDeletionRecorded` |
| `TombstonesStay` | `Spec => TombstonesKept` |
| `SharedDeletionsTold` | `AppSpec => SharedDeletionRecorded` |
| `ServerImplementsRegister` | `Spec => ImplementsRegister` |
| `ListsAppIsClient`, `EntriesAppIsClient` | `ListsSpec => Spec`, `EntriesSpec => Spec` |
| `ListDeltaComplete` | `ListsSpec => []NoListMissed` |
| `ListDeletionDeltaComplete` | `ListsSpec => []NoListDeletionMissed` |
| `OwnEntryDeltaComplete` | `EntriesSpec => []NoOwnEntryMissed` |
| `EntryDeletionDeltaComplete` | `EntriesSpec => []NoEntryDeletionMissed`, if `OneListPerEntry` |
| `SharedDeletionsToldNextToApp` | `ListsSpec => SharedDeletionRecorded` |
| `OrderKeptByLocks` | `Concurrency!Spec => OrderKept` |
| `NoEntryLostByRaces` | `Concurrency!Spec => EntryDeletionRecorded` |
| `KeysAndLocks` | `Concurrency!Spec => []TypeInv` |
| `SharesToldByLocks` | `Concurrency!Spec => SharesTold` |
| `TablesBeforeUse`, `SomeStartWins`, `OneIdentity` | `MigratedBeforeUse`, `NotAllLose`, `IdentityKept`, always |
| `RoutesNeverStore` | no step of an account route changes the tables |
| `RouteTypes`, `CookiesTraced` | `TypeInv` of `AccountRoutes` and `SessionsTraced`, always |

The argument of each:

* *Types and keys.* `TypeOK` is inductive by itself; lemmas say what `Put`, `Delete`
  and `DropLists` do to a typed table, and there is one lemma per request.
  `ForeignKeys` is inductive relative to `TypeOK`. The step to look at is
  `UpdateDeletedEntries`, which stores the list that the client named: its failing
  without that list is what keeps the key.
* *Deletion wins.* Inductive relative to `TypeOK`: whoever inserts an entry has
  looked for its tombstone, and whoever inserts a tombstone deletes the entry. That
  is so for requests one after another; `resurrected` shows that it needs them to be.
* *Entry deletions.* `UpdateDeletedEntries` stores the list that the client named and
  fails if that list is gone. `EntriesWhereNamed`, an invariant of its own, says that
  an entry is in a list that some client names it under; if there is only one
  such list (`OneListPerEntry`), the foreign keys give the list and `DeletionWins`
  the missing tombstone. Without `OneListPerEntry` the property is false: a wrong
  list in the upload is an error for all of it.
* *Owners.* `OwnerNotTold` says the same table by table, without the union of the
  query. A list is inserted only for a user without a tombstone of it, and a
  tombstone is inserted only for a list that goes.
* *Dates.* `NothingFromTheFuture` is not enough for the order of changes. `DatesPast`
  strengthens it: every stored date is a whole second that has begun. A second
  that has begun is not after `Sec(clock)`, so an edit dated now never moves a
  row back; and as stored dates are whole, a newer date stays at least as new
  when it is cut (`LaterIsNotEarlier`).
* *Recorded deletions* are facts of single steps. That the tombstone of an entry is one of
  the entry's own list needs `EntriesWhereNamed`: the list the upload names and the list of
  the entry are both lists that clients name for it. `SharedDeletionsTold` needs the
  foreign keys: a share of a list that goes with an account is a share of a list
  which that account owns.
* *Kept tombstones* are, too: every `INSERT` of one either has `IGNORE` or fails on a key that
  is there, and only a cascade removes any.
* *Refinement.* `RegisterProofs` maps lists to `open`, entries without their `updated` to
  `alive`, tombstones to `dead`. Four lemmas say what a step must do to the tables to be one
  of the register's (`OpenStep`, `WriteStep`, `BuryStep`, `CloseStep`); `NextRegister` gives
  each request its kind of step, with types, foreign keys, `DatesPast` and `DeletionWins` as
  its invariants. `DatesPast` is needed because the stored date is the upload's cut to the
  second: what is newer than a whole second is still not older after the cut, and no more
  than that is proved.
* *Next to an app.* Every step of `Device` is a step of `Server` or none of its
  (`NextIsServers`), so what holds of the server holds next to an app; `Base` collects
  that, with `DeviceTypes`: no `since` and no date in the app is after now.
* *Deltas of lists.* `ListsInv` adds to both properties `AliveUntold`: a list that exists
  has no tombstone, whoever's, because `ListsSpec` uses no uuid of a deleted list again.
  `ListsEvolve` says what a step does to the lists: one that is new or changed is
  dated by the second of now, which no `since`, cut to seconds, is after, and one that
  goes leaves tombstones of now. A request brings what is dated from `since` on, so what
  it leaves out the app has. `AliveUntold` is also what the tombstones of now
  need: no old one is kept in their place by an `INSERT IGNORE`.
* *Deltas of entries.* `EntriesInv` adds `UpdatedLast` (an entry is never newer than its
  `updated`), that an edit of the app is dated after its last request and within a second
  (the ties of section 4), and that the app knows each entry, also one it has removed, under
  the list it is in or was in until it was deleted (`Known`). Then an upload that loses against the stored row gets
  it back with the response, one that wins is what the app has, and one that is ignored
  is an entry that was deleted. A tombstone is stored under the list that the client named
  and told to those who can read that list: hence `OneListPerEntry`.
* *Locks.* `IInv` of `ConcurrencyProofs` is `Locking` (who has a row locked X is alone
  with it, and what a request changes it has locked X), `RemovalsOf` (how far a request
  is that has removed an entry or a list: the tombstone follows at once, or the list goes
  too, or nothing is committed) and `DatesOf` (an entry that a request writes is newer than
  the committed one, unless it is an edit on the web, whose date `Times` says is a number).
  A commit changes only what its request has locked X, so what the
  request found when it took the lock is what is there at the commit
  (`CommitChangesOwnRows`); the two action properties are facts of commits.
* *Keys between requests.* `KInv` adds to `IInv` where each request is (`Places`), that locks
  exclude each other (`LocksInv`), and `KeysInv`: the foreign keys hold of what is
  committed *and of what each request finds* (`Sound(Now(r))`), since that is what a commit
  makes of the tables. Another request's commit must not take a row away from under a key
  that r sees. If r has inserted the child it holds the parent S (`Secured`), so nobody
  removes it. If the child is committed, who removes the parent removes the child too,
  by the cascade, and r sees both go: for children whose key names the parent this is
  said of what is written, and for lists and tombstones of an owner, which are
  found by their rows, it follows from the table of the request that commits.
  Uncommitted changes are locked X, so nobody's view changes there (`HeldRowsStay`).
* *Shares.* `Told(r, u, l)`: r holds a lock on the share of u in l, and if the
  share is there, the tombstone is written. `BuryShares` and `BuryOwned` make it true, of
  missing shares too, whose gap they lock; no commit of another request can change
  the share before r is done. For an account `SharesOf` adds that each of its committed lists
  is held, and that the range of them is locked, so that none is added.
* *Start-up.* `StartupInv` adds to the types `Sane` (one migrator at a time, a record only of
  a complete migration, what an instance past a setting holds is what is stored) and
  `SomeSafe`: some instance has not lost, or can only win the setting it is about. `Given` ties the cookies
  and ids that clients have to the stored settings. A crash loses memory and no row, and no
  step replaces a stored setting.
* *Routes.* `Nested` says that releasing or dropping a nested transaction leaves the
  outer one to go back to; so a DAO call that is lent a transaction leaves it where it began
  (`DaoInside`), and what the route drops is everything (`NothingLeft`).

Every invariant and every action property of the passing runs is a theorem. Model-checked
only are the two liveness properties, `EveryRequestAnswered` and `EveryStartEnds`: liveness
under fairness is out of the prover's reach. The properties of the runs that expect a
violation are refuted there, and nothing is to be proved of them. The runs remain worth having next to the theorems: they
show that the cases in question occur and that each property can fail: `PROJECT.json` names a
plausible bug for each under which it does.

What the theorems do not say: the assumptions of section 2 are built into the definitions
they are about, and `AppSpec`, `ListsSpec` and `EntriesSpec` leave out the steps that
section 3 and 4 name.

## 6. Not modelled

* Requests that only read (`all_lists`, `single_list`, `list_sharing`, `entries`): they are no steps. That
  `entries()` reads an entry and its meanings at different moments (`src/lists/dao.rs` 391)
  concerns a response that nobody stores.
* Configuration, telemetry and the mapping of errors to status codes have no state.
* What the token and password libraries check besides equality: expiry, algorithms,
  formats.
* Making lists and entries offline in the app of `Device`: `Server` has every upload
  of every client; what an app makes of the response to its own new rows is not known
  from this repository.
* The unused tables (`verify_token`, `password_reset`, the categories) and the scripts
  in `testing/`.

## 7. Plan

What is left: `Concurrency` as an implementation of `Server`'s requests, for the parts where the
runs found no violation (a commit as one of the serial steps on the rows it has locked);
`CodesUsedOnce` for the database setting under which a locking read of a changed row is an
error; deltas of shared lists for the case that the share is older than the entries.
