---------------------------- MODULE ServerProofs ----------------------------
(***************************************************************************)
(* What holds of Server for any number of users, lists, entries and codes,   *)
(* any clock and any sequence of requests.                                     *)
(***************************************************************************)
EXTENDS Server, TLAPS

(* Tables and time *)

\* A DATETIME column cuts a timestamp to an earlier, or the same, second.
LEMMA SecNat == ASSUME NEW t \in Nat PROVE Sec(t) \in Nat /\ Sec(t) <= t
BY SchemaAssumption DEF Sec

\* Writing rows of the right type keeps a table's type.
LEMMA PutTable ==
  ASSUME NEW K, NEW R, NEW t, NEW rows, IsTable(t, K, R), IsTable(rows, K, R)
  PROVE  IsTable(Put(t, rows), K, R)
BY DEF IsTable, Put

\* Deleting rows keeps a table's type, and the rows that stay.
LEMMA DeleteTable ==
  ASSUME NEW t, NEW keys
  PROVE  /\ DOMAIN Delete(t, keys) = DOMAIN t \ keys
         /\ \A k \in DOMAIN Delete(t, keys) : Delete(t, keys)[k] = t[k]
         /\ \A K, R : IsTable(t, K, R) => IsTable(Delete(t, keys), K, R)
BY DEF IsTable, Delete, Restrict

\* The empty table is of every type.
LEMMA EmptyTable == \A K, R : IsTable(Empty, K, R)
BY DEF IsTable, Empty

\* DropLists keeps the types of the tables it cascades to.
LEMMA DropListsTypes ==
  ASSUME NEW STATE D, NEW STATE U, TypeOK, DropLists(D, U)
  PROVE  /\ IsTable(lists', Lists, ListRows)
         /\ IsTable(list_permissions', Users \X Lists, ShareRows)
         /\ IsTable(share_token', Tokens, TokenRows)
         /\ IsTable(entries', Entries, EntryRows)
         /\ IsTable(deleted_entry', Entries, DeletedEntryRows)
BY DeleteTable DEF TypeOK, DropLists
-----------------------------------------------------------------------------
(* Type correctness *)

\* The tables of the migration are empty.
LEMMA InitTypeOK == Init => TypeOK
BY EmptyTable DEF Init, SchemaInit, TypeOK

\* Time passing writes no table.
LEMMA TickTypeOK == TypeOK /\ Tick => TypeOK'
BY DEF TypeOK, Tick, accounts, listTables, entryTables, tombstones

\* Deleting lists by sync keeps the types: its tombstones are of this user, now.
LEMMA UpdateDeletedListsTypeOK ==
  ASSUME TypeOK, NEW u \in Users, NEW req \in SUBSET Lists, NEW since,
         UpdateDeletedLists(u, req, since)
  PROVE  TypeOK'
<1> DEFINE filtered == ListsToDelete(u, req, since)
           now == Sec(clock)
<1>1. now \in Nat
  BY SecNat DEF TypeOK
<1>2. IsTable([l \in filtered |-> [user |-> u, created |-> now]], Lists, TombstoneRows)
  BY <1>1 DEF IsTable, TombstoneRows, ListsToDelete
<1>3. IsTable([p \in Shares(filtered) |-> now], Users \X Lists, Nat)
  BY <1>1 DEF IsTable, Shares, TypeOK
<1>4. IsTable([v \in {u} \cap DOMAIN users |-> now], Users, Nat)
  BY <1>1 DEF IsTable
<1>5. IsTable(users', Users, Nat)
  BY <1>4, PutTable DEF UpdateDeletedLists, TouchLastSeen, TypeOK
<1>6. IsTable(deleted_list', Lists, TombstoneRows)
  BY <1>2, PutTable DEF UpdateDeletedLists, InsertIgnore, TypeOK
<1>7. IsTable(deleted_list_shared', Users \X Lists, Nat)
  BY <1>3, PutTable DEF UpdateDeletedLists, TypeOK
<1>8. DropLists(filtered, {}) /\ UNCHANGED <<clock, deleted_user>>
  BY DEF UpdateDeletedLists
<1> QED BY <1>5, <1>6, <1>7, <1>8, DropListsTypes DEF TypeOK

\* Uploaded lists are written with their owner and a whole second.
LEMMA UpdateChangedListsTypeOK ==
  ASSUME TypeOK, NEW u \in Users, NEW req \in ListUploads, UpdateChangedLists(u, req)
  PROVE  TypeOK'
<1> DEFINE L == ListsToInsert(u, req) \cup ListsToUpdate(u, req)
           rows == [l \in L |-> [owner |-> IF l \in DOMAIN lists THEN lists[l].owner ELSE u,
                                 changed |-> Sec(req[l])]]
<1>1. DOMAIN req \subseteq Lists /\ \A l \in DOMAIN req : req[l] \in Nat
  BY SchemaAssumption DEF ListUploads, Table, Stamps
<1>2. L \subseteq DOMAIN req
  BY DEF ListsToInsert, ListsToUpdate, Considered
<1>3. \A l \in L : rows[l] \in ListRows
  BY <1>1, <1>2, SecNat DEF ListRows, TypeOK, IsTable
<1>4. IsTable(rows, Lists, ListRows)
  BY <1>1, <1>2, <1>3 DEF IsTable
<1>5. lists' = Put(lists, rows)
  BY DEF UpdateChangedLists
<1>6. IsTable(lists', Lists, ListRows)
  BY <1>4, <1>5, PutTable DEF TypeOK
<1> QED
  BY <1>6 DEF TypeOK, UpdateChangedLists, accounts, entryTables, tombstones

\* A tombstone of an entry names the list that the upload gave.
LEMMA UpdateDeletedEntriesTypeOK ==
  ASSUME TypeOK, NEW u \in Users, NEW req \in EntryDeletions, NEW since,
         UpdateDeletedEntries(u, req, since)
  PROVE  TypeOK'
<1> DEFINE gone == EntriesToDelete(u, req, since)
           rows == [e \in gone |-> [list |-> req[e], created |-> Sec(clock)]]
<1>1. gone \subseteq Entries /\ \A e \in gone : req[e] \in Lists
  BY DEF EntryDeletions, Table, EntriesToDelete
<1>2. IsTable(rows, Entries, DeletedEntryRows)
  BY <1>1, SecNat DEF IsTable, DeletedEntryRows, TypeOK
<1>3. IsTable(deleted_entry', Entries, DeletedEntryRows)
  BY <1>2, PutTable DEF UpdateDeletedEntries, TypeOK
<1>4. IsTable(entries', Entries, EntryRows)
  BY DeleteTable DEF UpdateDeletedEntries, TypeOK
<1> QED
  BY <1>3, <1>4 DEF TypeOK, UpdateDeletedEntries, accounts, listTables, tombstones

\* Uploaded entries are written with a list and two dates.
LEMMA UpdateChangedEntriesTypeOK ==
  ASSUME TypeOK, NEW u \in Users, NEW req \in EntryUploads, NEW since,
         UpdateChangedEntries(u, req, since)
  PROVE  TypeOK'
<1> DEFINE E == EntriesToWrite(u, req, since)
           rows == [e \in E |->
                     [list |-> IF e \in DOMAIN entries THEN entries[e].list ELSE req[e].list,
                      changed |-> Sec(req[e].changed),
                      updated |-> Sec(clock),
                      tip |-> req[e].tip]]
<1>1. E \subseteq DOMAIN req
  BY DEF EntriesToWrite, CheckedItems
<1>2. /\ DOMAIN req \subseteq Entries
      /\ \A e \in DOMAIN req : req[e] \in [list: Lists, changed: Nat, tip: Tips]
  BY SchemaAssumption DEF EntryUploads, Table, Stamps
<1>3. \A e \in E : rows[e] \in EntryRows
  BY <1>1, <1>2, SecNat DEF EntryRows, TypeOK, IsTable
<1>4. IsTable(rows, Entries, EntryRows)
  BY <1>1, <1>2, <1>3 DEF IsTable
<1>5. entries' = Put(entries, rows)
  BY DEF UpdateChangedEntries
<1>6. IsTable(entries', Entries, EntryRows)
  BY <1>4, <1>5, PutTable DEF TypeOK
<1> QED
  BY <1>6 DEF TypeOK, UpdateChangedEntries, accounts, listTables, tombstones

\* The web client's edits keep the types.
LEMMA EditTypeOK == ASSUME TypeOK, NEW u \in Users, Edit(u) PROVE TypeOK'
<1> USE DEF accounts, listTables, entryTables, tombstones
<1>0. Sec(clock) \in Nat
  BY SecNat DEF TypeOK
<1>1. CASE \E l \in Lists : CreateList(u, l)
  <2>1. PICK l \in Lists : CreateList(u, l)
    BY <1>1
  <2>2. IsTable([m \in {l} |-> [owner |-> u, changed |-> Sec(clock)]], Lists, ListRows)
    BY <1>0 DEF IsTable, ListRows
  <2>3. IsTable(lists', Lists, ListRows)
    BY <2>1, <2>2, PutTable DEF CreateList, TypeOK
  <2> QED BY <2>1, <2>3 DEF CreateList, TypeOK
<1>2. CASE \E l \in Lists : ChangeList(u, l)
  <2>1. IsTable(lists', Lists, ListRows)
    BY <1>0, <1>2 DEF ChangeList, HasListPerm, TypeOK, IsTable, ListRows
  <2> QED BY <1>2, <2>1 DEF ChangeList, TypeOK
<1>3. CASE \E l \in Lists : DeleteList(u, l)
  <2>1. PICK l \in Lists : DeleteList(u, l)
    BY <1>3
  <2>2. IsTable([m \in {l} |-> [user |-> u, created |-> Sec(clock)]], Lists, TombstoneRows)
    BY <1>0 DEF IsTable, TombstoneRows
  <2>3. IsTable(deleted_list', Lists, TombstoneRows)
    BY <2>1, <2>2, PutTable DEF DeleteList, TypeOK
  <2>4. DropLists({l}, {}) /\ UNCHANGED <<clock, users, deleted_user, deleted_list_shared>>
    BY <2>1 DEF DeleteList
  <2> QED BY <2>3, <2>4, DropListsTypes DEF TypeOK
<1>4. CASE \E l \in Lists, e \in Entries, tip \in Tips : CreateEntry(u, l, e, tip)
  <2>1. PICK l \in Lists, e \in Entries, tip \in Tips : CreateEntry(u, l, e, tip)
    BY <1>4
  <2> DEFINE rows == [f \in {e} |->
                [list |-> l, changed |-> Sec(clock), updated |-> Sec(clock), tip |-> tip]]
  <2>2. IsTable(rows, Entries, EntryRows)
    BY <1>0 DEF IsTable, EntryRows
  <2>3. IsTable(entries', Entries, EntryRows)
    BY <2>1, <2>2, PutTable DEF CreateEntry, TypeOK
  <2> QED BY <2>1, <2>3 DEF CreateEntry, TypeOK
<1>5. CASE \E e \in Entries, tip \in Tips : ChangeEntry(u, e, tip)
  <2>1. IsTable(entries', Entries, EntryRows)
    BY <1>0, <1>5 DEF ChangeEntry, TypeOK, IsTable, EntryRows
  <2> QED BY <1>5, <2>1 DEF ChangeEntry, TypeOK
<1>6. CASE \E e \in Entries : DeleteEntry(u, e)
  <2>1. PICK e \in Entries : DeleteEntry(u, e)
    BY <1>6
  <2>2. IsTable([f \in {e} |-> [list |-> entries[e].list, created |-> Sec(clock)]],
                Entries, DeletedEntryRows)
    BY <1>0, <2>1 DEF IsTable, DeletedEntryRows, EntryRows, TypeOK, DeleteEntry
  <2>3. IsTable(deleted_entry', Entries, DeletedEntryRows)
    BY <2>1, <2>2, PutTable DEF DeleteEntry, TypeOK
  <2>4. IsTable(entries', Entries, EntryRows)
    BY <2>1, DeleteTable DEF DeleteEntry, TypeOK
  <2> QED BY <2>1, <2>3, <2>4 DEF DeleteEntry, TypeOK
<1> QED BY <1>1, <1>2, <1>3, <1>4, <1>5, <1>6 DEF Edit

\* Codes and shares are written with their types.
LEMMA ShareTypeOK == ASSUME TypeOK, NEW u \in Users, Share(u) PROVE TypeOK'
<1> USE DEF accounts, listTables, entryTables, tombstones
<1>1. CASE \E l \in Lists, t \in Tokens, deadline \in Deadlines, write, reusable \in BOOLEAN :
             GenerateShareCode(u, l, t, deadline, write, reusable)
  <2>1. PICK l \in Lists, t \in Tokens, deadline \in Deadlines, write \in BOOLEAN,
             reusable \in BOOLEAN : GenerateShareCode(u, l, t, deadline, write, reusable)
    BY <1>1
  <2> DEFINE rows == [s \in {t} |-> [list |-> l, deadline |-> Sec(deadline),
                                    write |-> write, reusable |-> reusable]]
  <2>2. IsTable(rows, Tokens, TokenRows)
    BY SchemaAssumption, SecNat DEF IsTable, TokenRows
  <2>3. IsTable(share_token', Tokens, TokenRows)
    BY <2>1, <2>2, PutTable DEF GenerateShareCode, TypeOK
  <2> QED BY <2>1, <2>3 DEF GenerateShareCode, TypeOK
<1>2. CASE \E t \in Tokens : UseShareCode(u, t)
  <2>1. PICK t \in Tokens : UseShareCode(u, t)
    BY <1>2
  <2> DEFINE p == <<u, share_token[t].list>>
             rows == [q \in {p} |-> [write |-> share_token[t].write, changed |-> Sec(clock)]]
  <2>2. share_token[t] \in TokenRows
    BY <2>1 DEF UseShareCode, TypeOK, IsTable
  <2>3. IsTable(rows, Users \X Lists, ShareRows)
    BY <2>2, SecNat DEF IsTable, ShareRows, TokenRows, TypeOK
  <2>4. IsTable(list_permissions', Users \X Lists, ShareRows)
    BY <2>1, <2>3, PutTable DEF UseShareCode, TypeOK
  <2>5. IsTable(share_token', Tokens, TokenRows)
    BY <2>1, DeleteTable DEF UseShareCode, TypeOK
  <2> QED BY <2>1, <2>4, <2>5 DEF UseShareCode, TypeOK
<1>3. CASE \E l \in Lists, v \in Users : RemoveSharingUser(u, l, v)
  <2>1. PICK l \in Lists, v \in Users : RemoveSharingUser(u, l, v)
    BY <1>3
  <2>2. IsTable(list_permissions', Users \X Lists, ShareRows)
    BY <2>1, DeleteTable DEF RemoveSharingUser, TypeOK
  <2> QED BY <2>1, <2>2 DEF RemoveSharingUser, TypeOK
<1> QED BY <1>1, <1>2, <1>3 DEF Share

\* So do accounts that come and go, with all they take along.
LEMMA AccountTypeOK == ASSUME TypeOK, NEW u \in Users, Account(u) PROVE TypeOK'
<1>0. Sec(clock) \in Nat
  BY SecNat DEF TypeOK
<1>1. CASE RegisterUser(u)
  <2>1. IsTable([v \in {u} |-> Sec(clock)], Users, Nat)
    BY <1>0 DEF IsTable
  <2>2. IsTable(users', Users, Nat)
    BY <1>1, <2>1, PutTable DEF RegisterUser, TypeOK
  <2> QED BY <1>1, <2>2 DEF RegisterUser, TypeOK, listTables, entryTables, tombstones
<1>2. CASE DeleteUser(u)
  <2>1. IsTable([p \in SharesToBury(u) |-> Sec(clock)], Users \X Lists, Nat)
    BY <1>0 DEF IsTable, SharesToBury, Shares, TypeOK
  <2>2. IsTable(deleted_list_shared', Users \X Lists, Nat)
    BY <1>2, <2>1, PutTable, DeleteTable DEF DeleteUser, TypeOK
  <2>3. IsTable(deleted_list', Lists, TombstoneRows) /\ IsTable(users', Users, Nat)
    BY <1>2, DeleteTable DEF DeleteUser, TypeOK
  <2>4. DropLists(Owned(u), {u}) /\ clock' = clock /\ deleted_user' \subseteq Users
    BY <1>2 DEF DeleteUser, TypeOK
  <2> QED BY <2>2, <2>3, <2>4, DropListsTypes DEF TypeOK
<1> QED BY <1>1, <1>2 DEF Account

\* TypeOK is inductive.
LEMMA NextTypeOK == TypeOK /\ [Next]_vars => TypeOK'
<1> SUFFICES ASSUME TypeOK, [Next]_vars PROVE TypeOK'
  OBVIOUS
<1>1. CASE Tick
  BY <1>1, TickTypeOK
<1>2. ASSUME NEW u \in Users, Sync(u) PROVE TypeOK'
  BY <1>2, UpdateDeletedListsTypeOK, UpdateChangedListsTypeOK,
     UpdateDeletedEntriesTypeOK, UpdateChangedEntriesTypeOK DEF Sync
<1>3. CASE UNCHANGED vars
  BY <1>3 DEF TypeOK, vars, accounts, listTables, entryTables, tombstones
<1> QED BY <1>1, <1>2, <1>3, EditTypeOK, ShareTypeOK, AccountTypeOK DEF Next

\* Every table keeps the type the migration gives it, and the clock runs on.
THEOREM TypeCorrect == Spec => []TypeOK
BY InitTypeOK, NextTypeOK, PTL DEF Spec
-----------------------------------------------------------------------------
(* Foreign keys *)

\* DropLists leaves no row that references a list it dropped.
LEMMA DropListsKeys ==
  ASSUME NEW STATE D, NEW STATE U, ForeignKeys, DropLists(D, U)
  PROVE  /\ DOMAIN lists' = DOMAIN lists \ D
         /\ \A l \in DOMAIN lists' : lists'[l] = lists[l]
         /\ \A p \in DOMAIN list_permissions' :
              /\ p[1] \in DOMAIN users \ U /\ p[2] \in DOMAIN lists'
              /\ p \in DOMAIN list_permissions
         /\ \A t \in DOMAIN share_token' : share_token'[t].list \in DOMAIN lists'
         /\ \A e \in DOMAIN entries' : entries'[e].list \in DOMAIN lists'
         /\ \A e \in DOMAIN deleted_entry' : deleted_entry'[e].list \in DOMAIN lists'
<1>1. /\ DOMAIN lists' = DOMAIN lists \ D
      /\ \A l \in DOMAIN lists' : lists'[l] = lists[l]
  BY DEF DropLists, Delete, Restrict
<1>2. \A p \in DOMAIN list_permissions' :
        p \in DOMAIN list_permissions /\ p[1] \notin U /\ p[2] \notin D
  BY DEF DropLists, Delete, Restrict
<1>3. \A t \in DOMAIN share_token' :
        share_token'[t] = share_token[t] /\ t \in DOMAIN share_token /\ share_token[t].list \notin D
  BY DEF DropLists, Delete, Restrict
<1>4. \A e \in DOMAIN entries' :
        entries'[e] = entries[e] /\ e \in DOMAIN entries /\ entries[e].list \notin D
  BY DEF DropLists, Delete, Restrict
<1>5. \A e \in DOMAIN deleted_entry' :
        /\ deleted_entry'[e] = deleted_entry[e] /\ e \in DOMAIN deleted_entry
        /\ deleted_entry[e].list \notin D
  BY DEF DropLists, Delete, Restrict
<1> QED BY <1>1, <1>2, <1>3, <1>4, <1>5 DEF ForeignKeys

\* Sync inserts no row whose list or owner is missing.
LEMMA SyncForeignKeys ==
  ASSUME TypeOK, ForeignKeys, NEW u \in Users, Sync(u)
  PROVE  ForeignKeys'
<1> USE DEF accounts, listTables, entryTables, tombstones
<1>1. ASSUME NEW req \in SUBSET Lists, NEW since \in Cursors, UpdateDeletedLists(u, req, since)
      PROVE  ForeignKeys'
  <2> DEFINE filtered == ListsToDelete(u, req, since)
  <2>1. DOMAIN users' = DOMAIN users
    BY <1>1 DEF UpdateDeletedLists, TouchLastSeen, Put
  <2>2. \A l \in filtered : u \in DOMAIN users
    BY DEF ListsToDelete, Owned, ForeignKeys
  <2>3. \A l \in DOMAIN deleted_list' : deleted_list'[l].user \in DOMAIN users
    BY <1>1, <2>2 DEF UpdateDeletedLists, InsertIgnore, Put, ForeignKeys
  <2>4. \A p \in DOMAIN deleted_list_shared' : p[1] \in DOMAIN users
    BY <1>1 DEF UpdateDeletedLists, Put, Shares, ForeignKeys
  <2>5. DropLists(filtered, {})
    BY <1>1 DEF UpdateDeletedLists
  <2> QED BY <2>1, <2>3, <2>4, <2>5, DropListsKeys DEF ForeignKeys
<1>2. ASSUME NEW req \in ListUploads, UpdateChangedLists(u, req)
      PROVE  ForeignKeys'
  <2>1. \A l \in ListsToInsert(u, req) : u \in DOMAIN users
    BY <1>2 DEF UpdateChangedLists, UpdateChangedListsFails
  <2>2. ListsToUpdate(u, req) \subseteq DOMAIN lists
    BY DEF ListsToUpdate
  <2>3. DOMAIN lists \subseteq DOMAIN lists'
    BY <1>2 DEF UpdateChangedLists, Put
  <2>4. \A l \in DOMAIN lists' : lists'[l].owner \in DOMAIN users
    BY <1>2, <2>1, <2>2 DEF UpdateChangedLists, Put, ForeignKeys
  <2> QED BY <1>2, <2>3, <2>4 DEF UpdateChangedLists, ForeignKeys
<1>3. ASSUME NEW req \in EntryDeletions, NEW since \in Cursors,
             UpdateDeletedEntries(u, req, since)
      PROVE  ForeignKeys'
  <2>1. \A e \in EntriesToDelete(u, req, since) : req[e] \in DOMAIN lists
    BY <1>3 DEF UpdateDeletedEntries, UpdateDeletedEntriesFails
  <2>2. \A e \in DOMAIN deleted_entry' : deleted_entry'[e].list \in DOMAIN lists
    BY <1>3, <2>1 DEF UpdateDeletedEntries, Put, ForeignKeys
  <2>3. \A e \in DOMAIN entries' : entries'[e].list \in DOMAIN lists
    BY <1>3 DEF UpdateDeletedEntries, Delete, Restrict, ForeignKeys
  <2> QED BY <1>3, <2>2, <2>3 DEF UpdateDeletedEntries, ForeignKeys
<1>4. ASSUME NEW req \in EntryUploads, NEW since \in Cursors,
             UpdateChangedEntries(u, req, since)
      PROVE  ForeignKeys'
  <2>1. \A e \in EntriesToWrite(u, req, since) : req[e].list \in DOMAIN lists
    BY <1>4 DEF UpdateChangedEntries, UpdateChangedEntriesFails, EntriesToWrite
  <2>2. \A e \in DOMAIN entries' : entries'[e].list \in DOMAIN lists
    BY <1>4, <2>1 DEF UpdateChangedEntries, Put, ForeignKeys
  <2> QED BY <1>4, <2>2 DEF UpdateChangedEntries, ForeignKeys
<1> QED BY <1>1, <1>2, <1>3, <1>4 DEF Sync

\* Nor do the edits of the web client.
LEMMA EditForeignKeys ==
  ASSUME TypeOK, ForeignKeys, NEW u \in Users, Edit(u)
  PROVE  ForeignKeys'
<1> USE DEF accounts, listTables, entryTables, tombstones
<1>1. ASSUME NEW l \in Lists, CreateList(u, l) PROVE ForeignKeys'
  BY <1>1 DEF CreateList, Put, ForeignKeys
<1>2. ASSUME NEW l \in Lists, ChangeList(u, l) PROVE ForeignKeys'
  BY <1>2 DEF ChangeList, HasListPerm, ForeignKeys, TypeOK, IsTable, ListRows
<1>3. ASSUME NEW l \in Lists, DeleteList(u, l) PROVE ForeignKeys'
  <2>1. u \in DOMAIN users
    BY <1>3 DEF DeleteList, HasListPerm, ForeignKeys
  <2>2. \A m \in DOMAIN deleted_list' : deleted_list'[m].user \in DOMAIN users
    BY <1>3, <2>1 DEF DeleteList, Put, ForeignKeys
  <2>3. DropLists({l}, {}) /\ UNCHANGED <<users, deleted_list_shared>>
    BY <1>3 DEF DeleteList
  <2> QED BY <2>2, <2>3, DropListsKeys DEF ForeignKeys
<1>4. ASSUME NEW l \in Lists, NEW e \in Entries, NEW tip \in Tips, CreateEntry(u, l, e, tip)
      PROVE  ForeignKeys'
  BY <1>4 DEF CreateEntry, HasListPerm, Put, ForeignKeys
<1>5. ASSUME NEW e \in Entries, NEW tip \in Tips, ChangeEntry(u, e, tip) PROVE ForeignKeys'
  <2>1. \A f \in DOMAIN entries' : entries'[f].list \in DOMAIN lists
    BY <1>5 DEF ChangeEntry, ForeignKeys, TypeOK, IsTable, EntryRows
  <2> QED BY <1>5, <2>1 DEF ChangeEntry, ForeignKeys
<1>6. ASSUME NEW e \in Entries, DeleteEntry(u, e) PROVE ForeignKeys'
  <2>1. \A f \in DOMAIN deleted_entry' : deleted_entry'[f].list \in DOMAIN lists
    BY <1>6 DEF DeleteEntry, Put, ForeignKeys
  <2>2. \A f \in DOMAIN entries' : entries'[f].list \in DOMAIN lists
    BY <1>6 DEF DeleteEntry, Delete, Restrict, ForeignKeys
  <2> QED BY <1>6, <2>1, <2>2 DEF DeleteEntry, ForeignKeys
<1> QED BY <1>1, <1>2, <1>3, <1>4, <1>5, <1>6 DEF Edit

\* Codes and shares are of lists and users that exist.
LEMMA ShareForeignKeys ==
  ASSUME TypeOK, ForeignKeys, NEW u \in Users, Share(u)
  PROVE  ForeignKeys'
<1> USE DEF accounts, listTables, entryTables, tombstones
<1>1. ASSUME NEW l \in Lists, NEW t \in Tokens, NEW deadline \in Deadlines,
             NEW write \in BOOLEAN, NEW reusable \in BOOLEAN,
             GenerateShareCode(u, l, t, deadline, write, reusable)
      PROVE  ForeignKeys'
  <2>1. \A s \in DOMAIN share_token' : share_token'[s].list \in DOMAIN lists
    BY <1>1 DEF GenerateShareCode, HasListPerm, Put, ForeignKeys
  <2> QED BY <1>1, <2>1 DEF GenerateShareCode, ForeignKeys
<1>2. ASSUME NEW t \in Tokens, UseShareCode(u, t) PROVE ForeignKeys'
  <2>1. \A p \in DOMAIN list_permissions' : p[1] \in DOMAIN users /\ p[2] \in DOMAIN lists
    BY <1>2 DEF UseShareCode, Put, ForeignKeys
  <2>2. \A s \in DOMAIN share_token' : share_token'[s].list \in DOMAIN lists
    <3>1. share_token' = share_token \/ share_token' = Delete(share_token, {t})
      BY <1>2 DEF UseShareCode
    <3>2. CASE share_token' = Delete(share_token, {t})
      BY <3>2 DEF Delete, Restrict, ForeignKeys
    <3> QED BY <3>1, <3>2 DEF ForeignKeys
  <2> QED BY <1>2, <2>1, <2>2 DEF UseShareCode, ForeignKeys
<1>3. ASSUME NEW l \in Lists, NEW v \in Users, RemoveSharingUser(u, l, v) PROVE ForeignKeys'
  <2>1. \A p \in DOMAIN list_permissions' : p[1] \in DOMAIN users /\ p[2] \in DOMAIN lists
    BY <1>3 DEF RemoveSharingUser, Delete, Restrict, ForeignKeys
  <2> QED BY <1>3, <2>1 DEF RemoveSharingUser, ForeignKeys
<1> QED BY <1>1, <1>2, <1>3 DEF Share

\* What references a deleted account, or its lists, is deleted with it.
LEMMA AccountForeignKeys ==
  ASSUME TypeOK, ForeignKeys, NEW u \in Users, Account(u)
  PROVE  ForeignKeys'
<1>1. CASE RegisterUser(u)
  <2>1. DOMAIN users \subseteq DOMAIN users'
    BY <1>1 DEF RegisterUser, Put
  <2> QED BY <1>1, <2>1 DEF RegisterUser, ForeignKeys, listTables, entryTables, tombstones
<1>2. CASE DeleteUser(u)
  <2>1. DOMAIN users' = DOMAIN users \ {u}
    BY <1>2 DEF DeleteUser, Delete, Restrict
  <2>2. \A l \in DOMAIN deleted_list' : deleted_list'[l].user \in DOMAIN users'
    BY <1>2, <2>1 DEF DeleteUser, Delete, Restrict, ForeignKeys
  <2>3. \A p \in DOMAIN deleted_list_shared' : p[1] \in DOMAIN users'
    <3>1. SUFFICES ASSUME NEW p \in DOMAIN deleted_list_shared' PROVE p[1] \in DOMAIN users'
      OBVIOUS
    <3>2. p \in DOMAIN deleted_list_shared \cup DOMAIN list_permissions /\ p \notin {u} \X Lists
      BY <1>2, <3>1 DEF DeleteUser, Delete, Restrict, Put, SharesToBury, Shares
    <3>3. p[1] \in DOMAIN users
      BY <3>2 DEF ForeignKeys
    <3>4. p \in Users \X Lists
      BY <3>2 DEF TypeOK, IsTable
    <3> QED BY <2>1, <3>2, <3>3, <3>4
  <2>4. DropLists(Owned(u), {u})
    BY <1>2 DEF DeleteUser
  <2>5. \A l \in DOMAIN lists' : lists'[l].owner \in DOMAIN users'
    <3>1. /\ DOMAIN lists' = DOMAIN lists \ Owned(u)
          /\ \A l \in DOMAIN lists' : lists'[l] = lists[l]
      BY <2>4, DropListsKeys
    <3> QED BY <2>1, <3>1 DEF Owned, ForeignKeys
  <2>6. \A p \in DOMAIN list_permissions' : p[1] \in DOMAIN users'
    BY <2>1, <2>4, DropListsKeys
  <2> QED BY <2>2, <2>3, <2>4, <2>5, <2>6, DropListsKeys DEF ForeignKeys
<1> QED BY <1>1, <1>2 DEF Account

\* ForeignKeys is inductive, given the types.
LEMMA NextForeignKeys == TypeOK /\ ForeignKeys /\ [Next]_vars => ForeignKeys'
<1> SUFFICES ASSUME TypeOK, ForeignKeys, [Next]_vars PROVE ForeignKeys'
  OBVIOUS
<1>1. CASE Tick
  BY <1>1 DEF Tick, ForeignKeys, accounts, listTables, entryTables, tombstones
<1>2. CASE UNCHANGED vars
  BY <1>2 DEF ForeignKeys, vars, accounts, listTables, entryTables, tombstones
<1> QED
  BY <1>1, <1>2, SyncForeignKeys, EditForeignKeys, ShareForeignKeys, AccountForeignKeys DEF Next

\* Empty tables reference nothing.
LEMMA InitForeignKeys == Init => ForeignKeys
BY DEF Init, SchemaInit, ForeignKeys, Empty

\* Every table keeps its type and every foreign key the row it points to: what
\* the cascades and the error paths of the handlers amount to.
THEOREM TypesAndKeys == Spec => []TypeInv
<1>1. Init => TypeInv
  BY InitTypeOK, InitForeignKeys DEF TypeInv
<1>2. TypeInv /\ [Next]_vars => TypeInv'
  BY NextTypeOK, NextForeignKeys DEF TypeInv
<1> QED BY <1>1, <1>2, PTL DEF Spec
=============================================================================
