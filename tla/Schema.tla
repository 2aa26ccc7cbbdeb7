------------------------------- MODULE Schema -------------------------------
(***************************************************************************)
(* The database of the vocabulary server, as the migration creates it, and  *)
(* what the SQL statements of the handlers do to it.  A table is a function *)
(* from its primary key to the rest of the row.  Time is counted in ticks;   *)
(* a DATETIME column keeps whole seconds, of TicksPerSec ticks each.         *)
(***************************************************************************)
EXTENDS Naturals, Functions

CONSTANTS Users, Lists, Entries, Tokens,
          Tips,        \* contents of an entry: its tip and its meanings
          EntryRefs,   \* the <<entry, list>> pairs a client may name
          TicksPerSec,
          MaxClock,    \* bound on the clock
          Deadlines,   \* when share codes may be set to expire
          AliasInDelete \* the server parses "DELETE FROM t alias WHERE ..."

ASSUME SchemaAssumption ==
  /\ TicksPerSec \in Nat \ {0}
  /\ MaxClock \in Nat /\ Deadlines \subseteq Nat
  /\ EntryRefs \subseteq Entries \X Lists
  /\ AliasInDelete \in BOOLEAN

VARIABLES
  clock,               \* Utc::now()
  users,               \* uuid -> last_seen
  deleted_user,        \* tombstones of accounts
  lists,               \* uuid -> [owner, changed]
  list_permissions,    \* <<user, list>> -> [write, changed]
  share_token,         \* token_a -> [list, deadline, write, reusable]
  entries,             \* uuid -> [list, changed, updated, tip]
  deleted_list,        \* list -> [user, created]: tombstones of owned lists
  deleted_list_shared, \* <<user, list>> -> created: those of shared lists
  deleted_entry        \* entry -> [list, created]

listTables == <<lists, list_permissions, share_token>>
entryTables == <<entries, deleted_entry>>
tombstones == <<deleted_list, deleted_list_shared>>
accounts == <<users, deleted_user>>
vars == <<clock, accounts, listTables, entryTables, tombstones>>
-----------------------------------------------------------------------------
Stamps == 0 .. MaxClock          \* timestamps a client can send
Sec(t) == t - (t % TicksPerSec)  \* what a DATETIME column keeps of t
Cursors == {Sec(t) : t \in Stamps} \* "since" is cut to seconds before any use

\* A table has keys among Keys and rows in Rows.
IsTable(t, Keys, Rows) == DOMAIN t \subseteq Keys /\ t \in [DOMAIN t -> Rows]

Empty == [k \in {} |-> {}]

\* t with the given rows added, or put in the place of those they replace.
Put(t, rows) == [k \in DOMAIN t \cup DOMAIN rows |->
                   IF k \in DOMAIN rows THEN rows[k] ELSE t[k]]
InsertIgnore(t, rows) == Put(rows, t)
Delete(t, keys) == Restrict(t, DOMAIN t \ keys)

Shares(L) == {p \in DOMAIN list_permissions : p[2] \in L}
Owned(u) == {l \in DOMAIN lists : lists[l].owner = u}

\* The columns that the UPDATE and SELECT statements below refer to.
Columns(table) ==
  CASE table = "lists" -> {"owner", "uuid", "name", "name_a", "name_b", "changed", "created"}
    [] table = "list_permissions" -> {"user", "list", "write", "reshare", "changed"}
\* The database rejects a statement that names a column its table lacks.
Prepares(table, columns) == columns \subseteq Columns(table)

\* Faulty: entries, or their tombstones, are not bound to their list.
DropListsButEntries(D, U) ==
  /\ lists' = Delete(lists, D)
  /\ list_permissions' =
       Delete(list_permissions, {p \in DOMAIN list_permissions : p[1] \in U \/ p[2] \in D})
  /\ share_token' = Delete(share_token, {t \in DOMAIN share_token : share_token[t].list \in D})
  /\ deleted_entry' =
       Delete(deleted_entry, {e \in DOMAIN deleted_entry : deleted_entry[e].list \in D})
  /\ UNCHANGED entries
DropListsButTombstones(D, U) ==
  /\ lists' = Delete(lists, D)
  /\ list_permissions' =
       Delete(list_permissions, {p \in DOMAIN list_permissions : p[1] \in U \/ p[2] \in D})
  /\ share_token' = Delete(share_token, {t \in DOMAIN share_token : share_token[t].list \in D})
  /\ entries' = Delete(entries, {e \in DOMAIN entries : entries[e].list \in D})
  /\ UNCHANGED deleted_entry

\* Lists D go, with what references them (ON DELETE CASCADE), and so does
\* what the users U were granted.
DropLists(D, U) ==
  /\ lists' = Delete(lists, D)
  /\ list_permissions' =
       Delete(list_permissions, {p \in DOMAIN list_permissions : p[1] \in U \/ p[2] \in D})
  /\ share_token' = Delete(share_token, {t \in DOMAIN share_token : share_token[t].list \in D})
  /\ entries' = Delete(entries, {e \in DOMAIN entries : entries[e].list \in D})
  /\ deleted_entry' =
       Delete(deleted_entry, {e \in DOMAIN deleted_entry : deleted_entry[e].list \in D})
-----------------------------------------------------------------------------
SchemaInit ==
  /\ clock = 0
  /\ deleted_user = {}
  /\ users = Empty
  /\ lists = Empty /\ list_permissions = Empty /\ share_token = Empty
  /\ entries = Empty /\ deleted_entry = Empty
  /\ deleted_list = Empty /\ deleted_list_shared = Empty

Tick ==
  /\ clock < MaxClock
  /\ clock' = clock + 1
  /\ UNCHANGED <<accounts, listTables, entryTables, tombstones>>

ListRows == [owner: Users, changed: Nat]
ShareRows == [write: BOOLEAN, changed: Nat]
TokenRows == [list: Lists, deadline: Nat, write: BOOLEAN, reusable: BOOLEAN]
EntryRows == [list: Lists, changed: Nat, updated: Nat, tip: Tips]
TombstoneRows == [user: Users, created: Nat]
DeletedEntryRows == [list: Lists, created: Nat]

\* Every table holds rows of its type, and every foreign key a row that exists.
TypeOK ==
  /\ clock \in Nat
  /\ IsTable(users, Users, Nat)
  /\ deleted_user \subseteq Users
  /\ IsTable(lists, Lists, ListRows)
  /\ IsTable(list_permissions, Users \X Lists, ShareRows)
  /\ IsTable(share_token, Tokens, TokenRows)
  /\ IsTable(entries, Entries, EntryRows)
  /\ IsTable(deleted_list, Lists, TombstoneRows)
  /\ IsTable(deleted_list_shared, Users \X Lists, Nat)
  /\ IsTable(deleted_entry, Entries, DeletedEntryRows)

ForeignKeys ==
  /\ \A l \in DOMAIN lists : lists[l].owner \in DOMAIN users
  /\ \A p \in DOMAIN list_permissions : p[1] \in DOMAIN users /\ p[2] \in DOMAIN lists
  /\ \A t \in DOMAIN share_token : share_token[t].list \in DOMAIN lists
  /\ \A e \in DOMAIN entries : entries[e].list \in DOMAIN lists
  /\ \A l \in DOMAIN deleted_list : deleted_list[l].user \in DOMAIN users
  /\ \A p \in DOMAIN deleted_list_shared : p[1] \in DOMAIN users
  /\ \A e \in DOMAIN deleted_entry : deleted_entry[e].list \in DOMAIN lists
=============================================================================
