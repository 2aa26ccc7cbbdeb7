---------------------------- MODULE DeviceProofs ----------------------------
(***************************************************************************)
(* The deltas are complete, for any number of users, lists and entries: what  *)
(* a device does not have, and what it has and is gone, is in its next deltas. *)
(***************************************************************************)
EXTENDS Device, SafetyProofs

(* The device is a client of the server *)

\* What the app keeps, and uploads: dates are of now or before, and its entries
\* are in lists that some client names them under.
DeviceTypes ==
  /\ clock \in Stamps
  /\ listSince \in 0 .. clock /\ deletedListSince \in 0 .. clock
  /\ entrySince \in 0 .. clock /\ deletedEntrySince \in 0 .. clock
  /\ IsTable(myLists, Lists, Nat)
  /\ IsTable(myEntries, Entries, [list: Lists, changed: 0 .. clock, tip: Tips])
  /\ \A e \in DOMAIN myEntries : <<e, myEntries[e].list>> \in EntryRefs
  /\ edited \subseteq DOMAIN myEntries
  /\ IsTable(removed, Entries, Lists)
  /\ \A e \in DOMAIN removed : <<e, removed[e]>> \in EntryRefs

\* "since" is cut to seconds before it is compared with anything.
LEMMA SameSince ==
  ASSUME NEW t \in Stamps, NEW u, NEW req
  PROVE  /\ Sec(t) \in Cursors
         /\ UpdateDeletedLists(u, req, t) => UpdateDeletedLists(u, req, Sec(t))
         /\ UpdateDeletedEntries(u, req, t) => UpdateDeletedEntries(u, req, Sec(t))
         /\ UpdateChangedEntries(u, req, t) => UpdateChangedEntries(u, req, Sec(t))
<1>1. Sec(Sec(t)) = Sec(t) /\ Sec(t) \in Cursors
  BY SchemaAssumption, SecFacts DEF Stamps, Cursors
<1>2. ListsToDelete(u, req, t) = ListsToDelete(u, req, Sec(t))
  BY <1>1 DEF ListsToDelete
<1>3. EntriesToDelete(u, req, t) = EntriesToDelete(u, req, Sec(t))
  BY <1>1 DEF EntriesToDelete, DeletedEntriesDelta
<1>4. CheckedItems(u, req, t) = CheckedItems(u, req, Sec(t))
  BY <1>1 DEF CheckedItems, UpdatedEntries
<1>5. EntriesToWrite(u, req, t) = EntriesToWrite(u, req, Sec(t))
  BY <1>4 DEF EntriesToWrite
<1>6. UpdateDeletedLists(u, req, t) => UpdateDeletedLists(u, req, Sec(t))
  BY <1>2 DEF UpdateDeletedLists, UpdateDeletedListsFails
<1>7. UpdateDeletedEntries(u, req, t) => UpdateDeletedEntries(u, req, Sec(t))
  BY <1>3 DEF UpdateDeletedEntries, UpdateDeletedEntriesFails
<1>8. UpdateChangedEntries(u, req, t) => UpdateChangedEntries(u, req, Sec(t))
  BY <1>4, <1>5 DEF UpdateChangedEntries, UpdateChangedEntriesFails
<1> QED BY <1>1, <1>6, <1>7, <1>8

\* What was edited in the app is an upload.
LEMMA UploadTyped == DeviceTypes => [e \in edited |-> myEntries[e]] \in EntryUploads
<1> SUFFICES ASSUME DeviceTypes PROVE [e \in edited |-> myEntries[e]] \in EntryUploads
  OBVIOUS
<1> DEFINE upload == [e \in edited |-> myEntries[e]]
<1>1. \A e \in edited : /\ e \in Entries /\ <<e, upload[e].list>> \in EntryRefs
                        /\ upload[e] \in [list: Lists, changed: 0 .. clock, tip: Tips]
  BY DEF DeviceTypes, IsTable
<1>2. \A e \in edited : upload[e] \in [list: Lists, changed: Stamps, tip: Tips]
  <2>1. 0 .. clock \subseteq Stamps
    BY SchemaAssumption DEF DeviceTypes, Stamps
  <2> QED BY <1>1, <2>1
<1>3. upload \in [edited -> [list: Lists, changed: Stamps, tip: Tips]]
  BY <1>2
<1>4. upload \in EntryUploads
  BY <1>1, <1>3 DEF EntryUploads, Table
<1> QED BY <1>4

\* What the app uploads is an upload, and its codes are codes.
LEMMA ClientSteps ==
  ASSUME DeviceTypes
  PROVE  /\ PullDeletedLists \/ PullChangedLists => Next
         /\ SyncDeletedEntries \/ SyncChangedEntries => Next
         /\ \A u \in Users : ListWork(u) \/ EntryWork(u) => Next
<1> USE ViewerAssumption
<1>0. /\ 0 \in Cursors
      /\ {listSince, deletedListSince, entrySince, deletedEntrySince} \subseteq Stamps
  <2>1. 0 \in Stamps /\ Sec(0) = 0
    BY SchemaAssumption, SecNat DEF Stamps
  <2> QED BY <2>1, SchemaAssumption DEF Cursors, DeviceTypes, Stamps
<1>1. ASSUME PullDeletedLists PROVE Next
  BY <1>0, <1>1, SameSince DEF PullDeletedLists, Next, Sync
<1>2. ASSUME PullChangedLists PROVE Next
  <2>1. Empty \in ListUploads
    <3>1. Empty \in [{} -> Stamps]
      BY DEF Empty
    <3> QED BY <3>1 DEF ListUploads, Table
  <2> QED BY <1>2, <2>1 DEF PullChangedLists, Next, Sync
<1>3. ASSUME SyncDeletedEntries PROVE Next
  <2>1. removed \in EntryDeletions
    BY DEF DeviceTypes, EntryDeletions, Table, IsTable
  <2> QED BY <1>0, <1>3, <2>1, SameSince DEF SyncDeletedEntries, Next, Sync
<1>4. ASSUME SyncChangedEntries PROVE Next
  <2>1. [e \in edited |-> myEntries[e]] \in EntryUploads
    BY UploadTyped
  <2> QED BY <1>0, <1>4, <2>1, SameSince DEF SyncChangedEntries, Next, Sync
<1>5. ASSUME NEW u \in Users, Sharing(u) PROVE Next
  BY <1>5 DEF Sharing, Next, Share
<1>6. ASSUME NEW u \in Users, ListWork(u) PROVE Next
  BY <1>0, <1>5, <1>6 DEF ListWork, Next, Sync, Edit, Account
<1>7. ASSUME NEW u \in Users, EntryWork(u) PROVE Next
  BY <1>0, <1>5, <1>7 DEF EntryWork, Next, Sync, Edit, Account
<1> QED BY <1>1, <1>2, <1>3, <1>4, <1>6, <1>7

\* Every step of a Device specification is one of the server, or none.
LEMMA NextIsServers ==
  /\ DeviceTypes /\ [ListsNext]_deviceVars => [Next]_vars
  /\ DeviceTypes /\ [EntriesNext]_deviceVars => [Next]_vars
<1>1. ASSUME DeviceTypes, [ListsNext]_deviceVars PROVE [Next]_vars
  BY <1>1, ClientSteps DEF ListsNext, Elsewhere, Next, deviceVars
<1>2. ASSUME DeviceTypes, [EntriesNext]_deviceVars PROVE [Next]_vars
  BY <1>2, ClientSteps DEF EntriesNext, Elsewhere, Next, deviceVars, EditOffline, RemoveOffline
<1> QED BY <1>1, <1>2

\* Only Tick moves the clock, and not past its bound.
LEMMA ClockSteps ==
  clock \in Stamps /\ [Next]_vars => clock' \in Stamps /\ clock <= clock'
<1>1. [Next]_vars => clock' = clock \/ Tick
  BY DEF Next, vars, Sync, UpdateDeletedLists, UpdateChangedLists, UpdateDeletedEntries,
         UpdateChangedEntries, Edit, CreateList, ChangeList, DeleteList, CreateEntry,
         ChangeEntry, DeleteEntry, Share, GenerateShareCode, UseShareCode,
         RemoveSharingUser, Account, RegisterUser, DeleteUser
<1> QED BY <1>1, SchemaAssumption DEF Tick, Stamps

\* Deleting rows keeps a table's type.
LEMMA DeleteTyped ==
  ASSUME NEW K, NEW R, NEW t, NEW keys, IsTable(t, K, R)
  PROVE  IsTable(Delete(t, keys), K, R)
BY DeleteTable

\* The app keeps its types: what it downloads has the types of the tables.
LEMMA NextDeviceTypes ==
  ASSUME TypeOK, EntriesWhereNamed, DatesPast, DeviceTypes,
         [ListsNext]_deviceVars \/ [EntriesNext]_deviceVars
  PROVE  DeviceTypes'
<1>1. clock \in Nat /\ clock' \in Stamps /\ clock' \in Nat /\ clock <= clock'
  BY NextIsServers, ClockSteps, SchemaAssumption DEF DeviceTypes, Stamps
<1>2. 0 .. clock \subseteq 0 .. clock' /\ clock \in 0 .. clock'
  BY <1>1
<1>3. ASSUME UNCHANGED listApp PROVE /\ IsTable(myLists', Lists, Nat)
                                     /\ listSince' \in 0 .. clock'
                                     /\ deletedListSince' \in 0 .. clock'
  BY <1>2, <1>3 DEF DeviceTypes, listApp
<1> DEFINE Rows == [list: Lists, changed: 0 .. clock', tip: Tips]
           EntryPart == /\ entrySince' \in 0 .. clock' /\ deletedEntrySince' \in 0 .. clock'
                        /\ IsTable(myEntries', Entries, Rows)
                        /\ \A e \in DOMAIN myEntries' : <<e, myEntries'[e].list>> \in EntryRefs
                        /\ edited' \subseteq DOMAIN myEntries'
                        /\ IsTable(removed', Entries, Lists)
                        /\ \A e \in DOMAIN removed' : <<e, removed'[e]>> \in EntryRefs
<1>4. /\ \A e \in DOMAIN myEntries : e \in Entries /\ myEntries[e] \in Rows
      /\ IsTable(myEntries, Entries, Rows)
  BY <1>2 DEF DeviceTypes, IsTable
<1>5. ASSUME UNCHANGED entryApp PROVE EntryPart
  BY <1>2, <1>4, <1>5 DEF DeviceTypes, entryApp
<1>6. CASE PullDeletedLists
  <2>1. IsTable(myLists', Lists, Nat)
    BY <1>6, DeleteTable DEF PullDeletedLists, DeviceTypes
  <2> QED BY <1>1, <1>2, <1>5, <1>6, <2>1 DEF PullDeletedLists, DeviceTypes
<1>7. CASE PullChangedLists
  <2>1. IsTable([l \in ChangedListsDelta(Viewer, listSince) |-> lists[l].changed], Lists, Nat)
    BY DEF IsTable, ChangedListsDelta, Owned, TypeOK, ListRows
  <2>2. IsTable(myLists', Lists, Nat)
    BY <1>7, <2>1, PutTable DEF PullChangedLists, DeviceTypes
  <2> QED BY <1>1, <1>2, <1>5, <1>7, <2>2 DEF PullChangedLists, DeviceTypes
<1>8. CASE SyncDeletedEntries
  <2>1. /\ IsTable(myEntries', Entries, Rows) /\ DOMAIN myEntries' \subseteq DOMAIN myEntries
        /\ \A e \in DOMAIN myEntries' : myEntries'[e] = myEntries[e]
        /\ edited' \subseteq DOMAIN myEntries'
    <3> DEFINE gone == DOMAIN removed \cup DeletedEntriesDelta(Viewer, deletedEntrySince)
    <3>1. myEntries' = Delete(myEntries, gone) /\ edited' = edited \ gone
      BY <1>8 DEF SyncDeletedEntries
    <3> HIDE DEF gone
    <3>2. IsTable(myEntries', Entries, Rows)
      BY <1>4, <3>1, DeleteTyped
    <3>3. DOMAIN myEntries' = DOMAIN myEntries \ gone
      BY <3>1 DEF Delete, Restrict
    <3>4. \A e \in DOMAIN myEntries' : myEntries'[e] = myEntries[e]
      BY <3>1 DEF Delete, Restrict
    <3>5. edited \subseteq DOMAIN myEntries
      BY DEF DeviceTypes
    <3> QED BY <3>1, <3>2, <3>3, <3>4, <3>5
  <2>2. IsTable(removed', Entries, Lists) /\ DOMAIN removed' = {}
    BY <1>8, EmptyTable DEF SyncDeletedEntries, Empty
  <2>3. EntryPart
    BY <1>1, <1>2, <1>8, <2>1, <2>2 DEF SyncDeletedEntries, DeviceTypes
  <2> QED BY <1>1, <1>3, <1>8, <2>3 DEF SyncDeletedEntries, DeviceTypes
<1>9. CASE SyncChangedEntries
  <2> DEFINE upload == [e \in edited |-> myEntries[e]]
             delta == ChangedEntriesDelta(Viewer, upload, entrySince)
             rows == [e \in delta |-> Copy(entries[e])]
  <2>1. \A e \in delta : /\ e \in Entries /\ rows[e] \in Rows
                         /\ <<e, rows[e].list>> \in EntryRefs
    <3> SUFFICES ASSUME NEW e \in delta
                 PROVE  /\ e \in Entries /\ rows[e] \in Rows
                        /\ <<e, rows[e].list>> \in EntryRefs
      OBVIOUS
    <3>1. e \in DOMAIN entries
      BY DEF ChangedEntriesDelta, UpdatedEntries
    <3>2. e \in Entries /\ entries[e] \in EntryRows /\ <<e, entries[e].list>> \in EntryRefs
      BY <3>1 DEF TypeOK, IsTable, EntriesWhereNamed
    <3>3. entries[e].changed \in 0 .. clock'
      BY <1>1, <3>1 DEF DatesPast, Past
    <3> QED BY <3>2, <3>3 DEF Copy, EntryRows
  <2>2. IsTable(rows, Entries, Rows)
    BY <2>1 DEF IsTable
  <2>3. myEntries' = Put(myEntries, rows)
    BY <1>9 DEF SyncChangedEntries
  <2>4. IsTable(myEntries', Entries, Rows)
    BY <1>4, <2>2, <2>3, PutTable
  <2>5. \A e \in DOMAIN myEntries' : <<e, myEntries'[e].list>> \in EntryRefs
    BY <2>1, <2>3 DEF Put, DeviceTypes
  <2>6. EntryPart
    BY <1>1, <1>2, <1>9, <2>4, <2>5 DEF SyncChangedEntries, DeviceTypes
  <2> QED BY <1>1, <1>3, <1>9, <2>6 DEF SyncChangedEntries, DeviceTypes
<1>10. ASSUME NEW e \in Entries, RemoveOffline(e) PROVE DeviceTypes'
  <2>1. /\ IsTable(myEntries', Entries, Rows) /\ DOMAIN myEntries' = DOMAIN myEntries \ {e}
        /\ \A f \in DOMAIN myEntries' : myEntries'[f] = myEntries[f]
    <3>1. myEntries' = Delete(myEntries, {e})
      BY <1>10 DEF RemoveOffline
    <3>2. IsTable(myEntries', Entries, Rows)
      BY <1>4, <3>1, DeleteTyped
    <3>3. DOMAIN myEntries' = DOMAIN myEntries \ {e}
      BY <3>1 DEF Delete, Restrict
    <3>4. \A f \in DOMAIN myEntries' : myEntries'[f] = myEntries[f]
      BY <3>1 DEF Delete, Restrict
    <3> QED BY <3>2, <3>3, <3>4
  <2>2. IsTable([f \in {e} |-> myEntries[e].list], Entries, Lists)
    BY <1>4, <1>10 DEF RemoveOffline, IsTable
  <2>3. IsTable(removed', Entries, Lists)
    BY <1>10, <2>2, PutTable DEF RemoveOffline, DeviceTypes
  <2>4. \A f \in DOMAIN removed' : <<f, removed'[f]>> \in EntryRefs
    BY <1>10 DEF RemoveOffline, Put, DeviceTypes
  <2>5. EntryPart
    BY <1>2, <1>10, <2>1, <2>3, <2>4 DEF RemoveOffline, DeviceTypes
  <2> QED BY <1>1, <1>3, <1>10, <2>5 DEF RemoveOffline, DeviceTypes, vars
<1>11. ASSUME NEW e \in Entries, NEW tip \in Tips, EditOffline(e, tip) PROVE DeviceTypes'
  <2> DEFINE rows == [f \in {e} |-> [list |-> myEntries[e].list, changed |-> clock, tip |-> tip]]
  <2>1. IsTable(rows, Entries, Rows)
    BY <1>2, <1>4, <1>11 DEF EditOffline, IsTable
  <2>2. myEntries' = Put(myEntries, rows) /\ e \in DOMAIN myEntries
    BY <1>11 DEF EditOffline
  <2>3. IsTable(myEntries', Entries, Rows)
    BY <1>4, <2>1, <2>2, PutTable
  <2>4. DOMAIN myEntries' = DOMAIN myEntries
        /\ \A f \in DOMAIN myEntries' : myEntries'[f].list = myEntries[f].list
    BY <2>2 DEF Put
  <2>5. EntryPart
    BY <1>2, <1>11, <2>3, <2>4 DEF EditOffline, DeviceTypes
  <2> QED BY <1>1, <1>3, <1>11, <2>5 DEF EditOffline, DeviceTypes, vars
<1>12. ASSUME UNCHANGED <<listApp, entryApp>> PROVE DeviceTypes'
  BY <1>1, <1>3, <1>5, <1>12 DEF DeviceTypes
<1> QED
  BY <1>6, <1>7, <1>8, <1>9, <1>10, <1>11, <1>12
     DEF ListsNext, EntriesNext, Elsewhere, deviceVars

\* What is known of the tables from the proofs about the server, and of the app.
Base ==
  /\ TypeOK /\ ForeignKeys /\ DatesPast /\ DeletionWins /\ EntriesWhereNamed
  /\ DeviceTypes

\* Base is inductive, because every step of the device is one of the server.
LEMMA NextBase ==
  Base /\ ([ListsNext]_deviceVars \/ [EntriesNext]_deviceVars) => Base'
<1> SUFFICES ASSUME Base, [ListsNext]_deviceVars \/ [EntriesNext]_deviceVars PROVE Base'
  OBVIOUS
<1>1. [Next]_vars
  BY NextIsServers DEF Base
<1>2. DeviceTypes'
  BY NextDeviceTypes DEF Base
<1> QED
  BY <1>1, <1>2, NextTypeOK, NextForeignKeys, NextDates, NextDeletionWins, NextWhereNamed DEF Base

\* At the start all tables are empty, in the database and in the app.
LEMMA InitBase == Init /\ DeviceInit => Base
<1> SUFFICES ASSUME Init, DeviceInit PROVE Base
  OBVIOUS
<1>1. TypeOK /\ ForeignKeys
  BY InitTypeOK, InitForeignKeys
<1>2. DatesPast /\ DeletionWins /\ EntriesWhereNamed
  BY DEF Init, SchemaInit, DatesPast, DeletionWins, EntriesWhereNamed, Empty
<1>3. clock = 0 /\ 0 \in Stamps /\ 0 \in 0 .. clock
  BY SchemaAssumption DEF Init, SchemaInit, Stamps
<1>4. DeviceTypes
  BY <1>3, EmptyTable DEF DeviceInit, DeviceTypes, Empty
<1> QED BY <1>1, <1>2, <1>4 DEF Base

\* Both Device specifications keep to Base ...
LEMMA BaseHolds ==
  /\ ListsSpec => []Base
  /\ EntriesSpec => []Base
BY InitBase, NextBase, PTL DEF ListsSpec, EntriesSpec

\* ... and an app that syncs lists next to all the others is a client like any
\* other: what is proved of the server holds next to it.
THEOREM ListsAppIsClient == ListsSpec => Spec
<1>1. Base /\ [ListsNext]_deviceVars => [Next]_vars
  BY NextIsServers DEF Base
<1> QED BY <1>1, BaseHolds, PTL DEF ListsSpec, Spec

\* So is an app that syncs entries, with what was edited in it offline.
THEOREM EntriesAppIsClient == EntriesSpec => Spec
<1>1. Base /\ [EntriesNext]_deviceVars => [Next]_vars
  BY NextIsServers DEF Base
<1> QED BY <1>1, BaseHolds, PTL DEF EntriesSpec, Spec
-----------------------------------------------------------------------------
(* Lists *)

\* As long as no uuid is used again, a living list has no tombstones.
AliveUntold ==
  \A l \in DOMAIN lists :
    l \notin DOMAIN deleted_list /\ \A u \in Users : <<u, l>> \notin DOMAIN deleted_list_shared

\* What any step of ListsSpec does to the lists: new ones, and new shares, are
\* dated now; lists that go leave tombstones to those who keep an account; no
\* tombstone of the Viewer's goes.
ListsEvolve ==
  /\ clock \in Nat /\ clock <= clock'
  /\ \A l \in DOMAIN lists' :
       IF l \in DOMAIN lists
       THEN /\ lists'[l].owner = lists[l].owner
            /\ lists'[l] = lists[l] \/ lists'[l].changed = Sec(clock)
       ELSE lists'[l].changed = Sec(clock)
  /\ \A p \in DOMAIN list_permissions' :
       \/ p \in DOMAIN list_permissions /\ list_permissions'[p] = list_permissions[p]
       \/ p \notin DOMAIN list_permissions /\ list_permissions'[p].changed = Sec(clock)
  /\ \A l \in DOMAIN lists \ DOMAIN lists' :
       \/ l \in DOMAIN deleted_list' /\ deleted_list'[l].user = lists[l].owner
                                     /\ deleted_list'[l].created = Sec(clock)
       \/ lists[l].owner \notin DOMAIN users' /\ lists[l].owner # Viewer
  /\ \A p \in DOMAIN list_permissions \ DOMAIN list_permissions' :
       p[1] = Viewer => p[2] \notin DOMAIN lists'
  /\ \A p \in DOMAIN list_permissions :
       p[2] \notin DOMAIN lists' =>
         \/ p \in DOMAIN deleted_list_shared' /\ deleted_list_shared'[p] = Sec(clock)
         \/ p[1] \notin DOMAIN users' /\ p[1] # Viewer
  /\ \A l \in DOMAIN deleted_list : deleted_list[l].user = Viewer =>
       l \in DOMAIN deleted_list' /\ deleted_list'[l] = deleted_list[l]
  /\ \A p \in DOMAIN deleted_list_shared : p[1] = Viewer =>
       p \in DOMAIN deleted_list_shared' /\ deleted_list_shared'[p] = deleted_list_shared[p]

\* A step that leaves lists, shares, tombstones and accounts alone.
LEMMA ListsStay ==
  ASSUME Base, clock <= clock', UNCHANGED <<users, lists, list_permissions, tombstones>>
  PROVE  ListsEvolve
<1>1. \A p \in DOMAIN list_permissions : p[2] \in DOMAIN lists
  BY DEF Base, ForeignKeys
<1> QED BY <1>1, SchemaAssumption DEF ListsEvolve, tombstones, Base, TypeOK

\* An app's upload of deleted lists.
LEMMA DeletionEvolves ==
  ASSUME Base, AliveUntold, NEW u \in Users, NEW req \in SUBSET Lists, NEW since,
         UpdateDeletedLists(u, req, since)
  PROVE  ListsEvolve /\ AliveUntold'
<1> DEFINE filtered == ListsToDelete(u, req, since)
           now == Sec(clock)
<1>1. filtered \subseteq DOMAIN lists /\ \A l \in filtered : lists[l].owner = u
  BY DEF ListsToDelete, Owned
<1>2. /\ DOMAIN lists' = DOMAIN lists \ filtered
      /\ \A l \in DOMAIN lists' : lists'[l] = lists[l]
  BY DEF UpdateDeletedLists, DropLists, Delete, Restrict
<1>3. /\ DOMAIN list_permissions' = {p \in DOMAIN list_permissions : p[2] \notin filtered}
      /\ \A p \in DOMAIN list_permissions' : list_permissions'[p] = list_permissions[p]
  BY DEF UpdateDeletedLists, DropLists, Delete, Restrict
<1>4. /\ DOMAIN deleted_list' = DOMAIN deleted_list \cup filtered
      /\ \A l \in DOMAIN deleted_list : deleted_list'[l] = deleted_list[l]
      /\ \A l \in filtered \ DOMAIN deleted_list : deleted_list'[l] = [user |-> u, created |-> now]
  BY DEF UpdateDeletedLists, InsertIgnore, Put
<1>5. /\ DOMAIN deleted_list_shared' = DOMAIN deleted_list_shared \cup Shares(filtered)
      /\ \A p \in Shares(filtered) : deleted_list_shared'[p] = now
      /\ \A p \in DOMAIN deleted_list_shared :
           p \notin Shares(filtered) /\ deleted_list_shared'[p] = deleted_list_shared[p]
  BY DEF UpdateDeletedLists, UpdateDeletedListsFails, Put
<1>6. clock \in Nat /\ clock' = clock
  BY DEF Base, TypeOK, UpdateDeletedLists
<1>7. \A p \in DOMAIN list_permissions : p[2] \in DOMAIN lists
  BY DEF Base, ForeignKeys
<1>8. \A p \in Shares(filtered) : p[2] \in filtered
  BY DEF Shares
<1>9. \A p \in DOMAIN list_permissions : p[2] \in filtered => p \in Shares(filtered)
  BY DEF Shares
<1>10. AliveUntold'
  BY <1>2, <1>4, <1>5, <1>8 DEF AliveUntold
<1>11. \A l \in DOMAIN lists \ DOMAIN lists' :
         /\ l \in DOMAIN deleted_list' /\ deleted_list'[l].user = lists[l].owner
         /\ deleted_list'[l].created = Sec(clock)
  BY <1>1, <1>2, <1>4 DEF AliveUntold
<1> HIDE DEF filtered
<1> QED
  BY <1>2, <1>3, <1>4, <1>5, <1>6, <1>7, <1>9, <1>10, <1>11 DEF ListsEvolve

\* An account that goes with its lists; not the Viewer's.
LEMMA AccountEvolves ==
  ASSUME Base, AliveUntold, NEW u \in Users \ {Viewer}, DeleteUser(u)
  PROVE  ListsEvolve /\ AliveUntold'
<1> DEFINE gone == Owned(u)
           now == Sec(clock)
<1>1. gone \subseteq DOMAIN lists /\ \A l \in gone : lists[l].owner = u
  BY DEF Owned
<1>2. /\ DOMAIN lists' = DOMAIN lists \ gone
      /\ \A l \in DOMAIN lists' : lists'[l] = lists[l]
  BY DEF DeleteUser, DropLists, Delete, Restrict
<1>3. /\ DOMAIN list_permissions' =
           {p \in DOMAIN list_permissions : p[1] # u /\ p[2] \notin gone}
      /\ \A p \in DOMAIN list_permissions' : list_permissions'[p] = list_permissions[p]
  BY DEF DeleteUser, DropLists, Delete, Restrict
<1>4. /\ DOMAIN deleted_list' = {l \in DOMAIN deleted_list : deleted_list[l].user # u}
      /\ \A l \in DOMAIN deleted_list' : deleted_list'[l] = deleted_list[l]
  BY DEF DeleteUser, Delete, Restrict
<1>5. /\ DOMAIN deleted_list_shared' =
           (DOMAIN deleted_list_shared \cup Shares(gone)) \ ({u} \X Lists)
      /\ \A p \in Shares(gone) \ ({u} \X Lists) : deleted_list_shared'[p] = now
      /\ \A p \in DOMAIN deleted_list_shared \ ({u} \X Lists) :
           p \notin Shares(gone) /\ deleted_list_shared'[p] = deleted_list_shared[p]
  BY DEF DeleteUser, DeleteUserFails, SharesToBury, Delete, Restrict, Put
<1>6. clock \in Nat /\ clock' = clock /\ u \notin DOMAIN users'
  BY DEF Base, TypeOK, DeleteUser, Delete, Restrict
<1>7. \A p \in DOMAIN list_permissions : p[2] \in DOMAIN lists
  BY DEF Base, ForeignKeys
<1>8. \A p \in DOMAIN list_permissions : p[2] \in gone <=> p \in Shares(gone)
  BY DEF Shares
<1>9. \A p \in Shares(gone) : p[2] \in gone
  BY DEF Shares
<1>10. \A p \in {u} \X Lists : p[1] = u
  OBVIOUS
<1>11. \A p \in DOMAIN list_permissions : p[1] = u <=> p \in {u} \X Lists
  BY DEF Base, TypeOK, IsTable
<1> HIDE DEF gone
<1>12. AliveUntold'
  BY <1>2, <1>4, <1>5, <1>9 DEF AliveUntold
<1>13. \A p \in DOMAIN list_permissions :
         p[2] \notin DOMAIN lists' =>
           \/ p \in DOMAIN deleted_list_shared' /\ deleted_list_shared'[p] = Sec(clock)
           \/ p[1] \notin DOMAIN users' /\ p[1] # Viewer
  BY <1>2, <1>5, <1>6, <1>7, <1>8, <1>11
<1> QED
  BY <1>1, <1>2, <1>3, <1>4, <1>5, <1>6, <1>10, <1>12, <1>13 DEF ListsEvolve

\* Every step of ListsSpec evolves the lists and reuses no uuid.
LEMMA NextListsEvolve ==
  ASSUME Base, AliveUntold, [ListsNext]_deviceVars
  PROVE  ListsEvolve /\ AliveUntold'
<1> USE DEF accounts, listTables, entryTables, tombstones
<1>1. clock \in Nat /\ clock <= clock'
  BY NextIsServers, ClockSteps DEF Base, TypeOK, DeviceTypes
<1>2. ASSUME UNCHANGED <<users, lists, list_permissions, tombstones>>
      PROVE  ListsEvolve /\ AliveUntold'
  BY <1>1, <1>2, ListsStay DEF AliveUntold
<1>3. \A p \in DOMAIN list_permissions : p[2] \in DOMAIN lists
  BY DEF Base, ForeignKeys
<1>4. ASSUME NEW u \in Users, RegisterUser(u) PROVE ListsEvolve /\ AliveUntold'
  BY <1>1, <1>3, <1>4 DEF RegisterUser, ListsEvolve, AliveUntold
<1>5. ASSUME NEW u \in Users, NEW l \in Lists, CreateList(u, l) PROVE ListsEvolve /\ AliveUntold'
  <2>1. /\ DOMAIN lists' = DOMAIN lists \cup {l} /\ l \notin DOMAIN lists
        /\ lists'[l].changed = Sec(clock)
        /\ \A m \in DOMAIN lists : lists'[m] = lists[m]
    BY <1>5 DEF CreateList, FreshList, Put
  <2>2. AliveUntold'
    BY <1>5, <2>1 DEF CreateList, FreshList, AliveUntold
  <2> QED BY <1>1, <1>3, <1>5, <2>1, <2>2 DEF CreateList, ListsEvolve
<1>6. ASSUME NEW u \in Users, NEW l \in Lists, ChangeList(u, l) PROVE ListsEvolve /\ AliveUntold'
  <2>1. /\ DOMAIN lists' = DOMAIN lists
        /\ \A m \in DOMAIN lists : /\ lists'[m].owner = lists[m].owner
                                   /\ lists'[m] = lists[m] \/ lists'[m].changed = Sec(clock)
    BY <1>6 DEF ChangeList, Base, TypeOK, IsTable, ListRows
  <2> QED BY <1>1, <1>3, <1>6, <2>1 DEF ChangeList, ListsEvolve, AliveUntold
<1>7. ASSUME NEW u \in Users, Sharing(u) PROVE ListsEvolve /\ AliveUntold'
  <2>1. ASSUME NEW l \in Lists, NEW t \in Tokens, NEW deadline \in Deadlines,
               NEW write \in BOOLEAN, GenerateShareCode(u, l, t, deadline, write, FALSE)
        PROVE  ListsEvolve /\ AliveUntold'
    BY <1>2, <2>1 DEF GenerateShareCode
  <2>2. ASSUME NEW t \in Tokens, UseShareCode(u, t) PROVE ListsEvolve /\ AliveUntold'
    <3> DEFINE q == <<u, share_token[t].list>>
    <3>1. /\ DOMAIN list_permissions' = DOMAIN list_permissions \cup {q}
          /\ q \notin DOMAIN list_permissions
          /\ list_permissions'[q].changed = Sec(clock)
          /\ \A p \in DOMAIN list_permissions : list_permissions'[p] = list_permissions[p]
      BY <2>2 DEF UseShareCode, Put
    <3> QED BY <1>1, <1>3, <2>2, <3>1 DEF UseShareCode, ListsEvolve, AliveUntold
  <2> QED BY <1>7, <2>1, <2>2 DEF Sharing
<1>8. ASSUME NEW u \in Users, ListWork(u) PROVE ListsEvolve /\ AliveUntold'
  BY <1>4, <1>5, <1>6, <1>7, <1>8, DeletionEvolves, AccountEvolves DEF ListWork
<1>9. CASE PullDeletedLists
  BY <1>9, ViewerAssumption, DeletionEvolves DEF PullDeletedLists
<1>10. CASE PullChangedLists
  <2>1. ListsToInsert(Viewer, Empty) \cup ListsToUpdate(Viewer, Empty) = {}
    BY DEF ListsToInsert, ListsToUpdate, Considered, Empty
  <2>2. lists' = Put(lists, [l \in {} |-> [owner |-> IF l \in DOMAIN lists THEN lists[l].owner ELSE Viewer,
                                           changed |-> Sec(Empty[l])]])
    BY <1>10, <2>1 DEF PullChangedLists, UpdateChangedLists
  <2>3. /\ DOMAIN lists' = DOMAIN lists
        /\ \A l \in DOMAIN lists : lists'[l] = lists[l]
    BY <2>2 DEF Put
  <2> QED
    BY <1>1, <1>3, <1>10, <2>3 DEF PullChangedLists, UpdateChangedLists, ListsEvolve, AliveUntold
<1>11. CASE Elsewhere(Tick)
  BY <1>2, <1>11 DEF Elsewhere, Tick
<1>12. CASE UNCHANGED deviceVars
  BY <1>2, <1>12 DEF deviceVars, vars
<1> QED
  BY <1>8, <1>9, <1>10, <1>11, <1>12 DEF ListsNext, Elsewhere

\* The deltas of lists, spelt out.
LEMMA ListDeltas ==
  ASSUME Base, NEW since \in Nat, NEW l \in Lists
  PROVE  /\ l \in Readable(Viewer) <=>
              l \in DOMAIN lists /\ (lists[l].owner = Viewer \/ <<Viewer, l>> \in DOMAIN list_permissions)
         /\ l \in ChangedListsDelta(Viewer, since) <=>
              /\ l \in Readable(Viewer)
              /\ \/ lists[l].changed >= Sec(since)
                 \/ /\ <<Viewer, l>> \in DOMAIN list_permissions
                    /\ list_permissions[<<Viewer, l>>].changed >= Sec(since)
         /\ l \in DeletedListsDelta(Viewer, {}, since) <=>
              \/ /\ l \in DOMAIN deleted_list /\ deleted_list[l].user = Viewer
                 /\ deleted_list[l].created >= Sec(since)
              \/ /\ <<Viewer, l>> \in DOMAIN deleted_list_shared
                 /\ deleted_list_shared[<<Viewer, l>>] >= Sec(since)
BY DEF Readable, Owned, ChangedListsDelta, DeletedListsDelta, OwnTombstones

\* What is dated now is in a delta that is asked from now or from before.
LEMMA NowIsNotMissed ==
  ASSUME Base
  PROVE  /\ \A t \in 0 .. clock : t \in Nat /\ Sec(clock) >= Sec(t)
         /\ Sec(clock) \in Nat
BY SecFacts DEF Base, TypeOK

\* The Viewer's lists, while the app waits: what changes will be sent.
LEMMA ListsOutOfSight ==
  ASSUME Base, Base', ListsEvolve, UNCHANGED listApp, NoListMissed, NoListDeletionMissed
  PROVE  NoListMissed' /\ NoListDeletionMissed'
<1>1. /\ listSince \in Nat /\ Sec(clock) >= Sec(listSince) /\ listSince' = listSince
      /\ deletedListSince \in Nat /\ Sec(clock) >= Sec(deletedListSince)
      /\ deletedListSince' = deletedListSince /\ myLists' = myLists
  BY NowIsNotMissed DEF Base, DeviceTypes, listApp
<1>2. DOMAIN myLists \subseteq Lists /\ DOMAIN lists \subseteq Lists /\ DOMAIN lists' \subseteq Lists
  BY DEF Base, DeviceTypes, TypeOK, IsTable
<1>3. ASSUME NEW l \in Readable(Viewer)'
      PROVE  \/ l \in DOMAIN myLists /\ myLists[l] = lists'[l].changed
             \/ l \in ChangedListsDelta(Viewer, listSince)'
  <2>0. l \in Lists
    BY <1>2 DEF Readable, Owned
  <2> DEFINE p == <<Viewer, l>>
  <2>1. /\ l \in DOMAIN lists'
        /\ lists'[l].owner = Viewer \/ p \in DOMAIN list_permissions'
    BY <1>3 DEF Readable, Owned
  <2>2. \/ lists'[l].changed >= Sec(listSince)
        \/ p \in DOMAIN list_permissions' /\ list_permissions'[p].changed >= Sec(listSince)
        => l \in ChangedListsDelta(Viewer, listSince)'
    <3>1. l \in ChangedListsDelta(Viewer, listSince)' <=>
              /\ l \in Readable(Viewer)'
              /\ \/ lists'[l].changed >= Sec(listSince')
                 \/ /\ p \in DOMAIN list_permissions'
                    /\ list_permissions'[p].changed >= Sec(listSince')
      BY <1>1, <2>0 DEF Readable, Owned, ChangedListsDelta
    <3> QED BY <1>1, <1>3, <3>1
  <2>3. CASE l \notin DOMAIN lists
    BY <1>1, <2>1, <2>2, <2>3 DEF ListsEvolve
  <2>4. CASE l \in DOMAIN lists /\ l \notin Readable(Viewer)
    <3>1. lists[l].owner # Viewer /\ p \notin DOMAIN list_permissions
      BY <1>1, <2>0, <2>4, ListDeltas
    <3> QED BY <1>1, <2>1, <2>2, <2>4, <3>1 DEF ListsEvolve
  <2>5. CASE l \in DOMAIN lists /\ l \in Readable(Viewer)
    <3>1. lists'[l] = lists[l] \/ lists'[l].changed = Sec(clock)
      BY <2>1, <2>5 DEF ListsEvolve
    <3>2. \/ l \in DOMAIN myLists /\ myLists[l] = lists[l].changed
          \/ lists[l].changed >= Sec(listSince)
          \/ p \in DOMAIN list_permissions /\ list_permissions[p].changed >= Sec(listSince)
      BY <1>1, <2>0, <2>5, ListDeltas DEF NoListMissed
    <3>3. p \in DOMAIN list_permissions =>
            p \in DOMAIN list_permissions' /\ list_permissions'[p] = list_permissions[p]
      BY <2>1 DEF ListsEvolve
    <3> QED BY <1>1, <2>2, <3>1, <3>2, <3>3
  <2> QED BY <2>3, <2>4, <2>5
<1>4. ASSUME NEW l \in DOMAIN myLists \ Readable(Viewer)'
      PROVE  l \in DeletedListsDelta(Viewer, {}, deletedListSince)'
  <2>0. l \in Lists
    BY <1>2
  <2> DEFINE p == <<Viewer, l>>
  <2>1. \/ /\ l \in DOMAIN deleted_list' /\ deleted_list'[l].user = Viewer
           /\ deleted_list'[l].created >= Sec(deletedListSince)
        \/ p \in DOMAIN deleted_list_shared' /\ deleted_list_shared'[p] >= Sec(deletedListSince)
        => l \in DeletedListsDelta(Viewer, {}, deletedListSince)'
    BY <1>1, <2>0 DEF DeletedListsDelta, OwnTombstones
  <2>2. l \notin DOMAIN lists' \/ (lists'[l].owner # Viewer /\ p \notin DOMAIN list_permissions')
    BY <2>0, <1>4 DEF Readable, Owned
  <2>3. CASE l \notin Readable(Viewer)
    <3>1. \/ /\ l \in DOMAIN deleted_list /\ deleted_list[l].user = Viewer
             /\ deleted_list[l].created >= Sec(deletedListSince)
          \/ p \in DOMAIN deleted_list_shared /\ deleted_list_shared[p] >= Sec(deletedListSince)
      BY <1>1, <2>0, <2>3, ListDeltas DEF NoListDeletionMissed
    <3> QED BY <2>1, <3>1 DEF ListsEvolve
  <2>4. CASE l \in Readable(Viewer)
    <3>1. l \in DOMAIN lists /\ (lists[l].owner = Viewer \/ p \in DOMAIN list_permissions)
      BY <1>1, <2>0, <2>4, ListDeltas
    <3>2. l \notin DOMAIN lists'
      BY <2>2, <3>1 DEF ListsEvolve
    <3> QED BY <1>1, <2>1, <3>1, <3>2 DEF ListsEvolve
  <2> QED BY <2>3, <2>4
<1> QED BY <1>1, <1>3, <1>4 DEF NoListMissed, NoListDeletionMissed

\* A response: what was missed until then is in the app now.
LEMMA ListsPulled ==
  ASSUME Base, Base', AliveUntold, AliveUntold', NoListMissed, NoListDeletionMissed,
         PullDeletedLists \/ PullChangedLists, ListsEvolve
  PROVE  NoListMissed' /\ NoListDeletionMissed'
<1>1. /\ clock' = clock /\ clock \in Nat
      /\ listSince \in Nat /\ deletedListSince \in Nat
      /\ DOMAIN myLists \subseteq Lists /\ DOMAIN lists \subseteq Lists
  BY DEF PullDeletedLists, PullChangedLists, UpdateDeletedLists, UpdateChangedLists,
         Base, DeviceTypes, TypeOK, IsTable
<1>2. CASE PullDeletedLists
  <2> DEFINE told == DeletedListsDelta(Viewer, {}, deletedListSince)
  <2>1. ListsToDelete(Viewer, {}, deletedListSince) = {}
    BY DEF ListsToDelete
  <2>2. /\ DropLists({}, {}) /\ UNCHANGED listSince
        /\ myLists' = Delete(myLists, told)
    BY <1>2, <2>1 DEF PullDeletedLists, UpdateDeletedLists
  <2>3. /\ DOMAIN lists' = DOMAIN lists /\ \A l \in DOMAIN lists : lists'[l] = lists[l]
        /\ DOMAIN list_permissions' = DOMAIN list_permissions
        /\ \A p \in DOMAIN list_permissions : list_permissions'[p] = list_permissions[p]
    BY <2>2 DEF DropLists, Delete, Restrict
  <2>4. /\ DOMAIN myLists' = DOMAIN myLists \ told
        /\ \A l \in DOMAIN myLists' : myLists'[l] = myLists[l]
    BY <2>2 DEF Delete, Restrict
  <2>5. \A l \in Readable(Viewer) : l \notin told
    <3>1. \A l \in Readable(Viewer) : l \in DOMAIN lists /\ l \in Lists
      BY <1>1 DEF Readable, Owned
    <3> QED BY <1>1, <3>1, ListDeltas, ViewerAssumption DEF AliveUntold
  <2>6. Readable(Viewer)' = Readable(Viewer)
    BY <2>3 DEF Readable, Owned
  <2>7. ChangedListsDelta(Viewer, listSince)' = ChangedListsDelta(Viewer, listSince)
    BY <2>2, <2>3 DEF ChangedListsDelta, Owned
  <2>8. NoListMissed'
    <3>1. \A l \in Readable(Viewer) : l \in DOMAIN lists
      BY DEF Readable, Owned
    <3> QED BY <2>3, <2>4, <2>5, <2>6, <2>7, <3>1 DEF NoListMissed
  <2>9. NoListDeletionMissed'
    BY <2>4, <2>6 DEF NoListDeletionMissed
  <2> QED BY <2>8, <2>9
<1>3. CASE PullChangedLists
  <2> DEFINE delta == ChangedListsDelta(Viewer, listSince)
  <2>1. ListsToInsert(Viewer, Empty) \cup ListsToUpdate(Viewer, Empty) = {}
    BY DEF ListsToInsert, ListsToUpdate, Considered, Empty
  <2>2. lists' = Put(lists, [l \in {} |-> [owner |-> IF l \in DOMAIN lists THEN lists[l].owner ELSE Viewer,
                                           changed |-> Sec(Empty[l])]])
    BY <1>3, <2>1 DEF PullChangedLists, UpdateChangedLists
  <2>3. /\ DOMAIN lists' = DOMAIN lists /\ \A l \in DOMAIN lists : lists'[l] = lists[l]
        /\ UNCHANGED <<list_permissions, deleted_list, deleted_list_shared, deletedListSince>>
    BY <1>3, <2>2 DEF Put, PullChangedLists, UpdateChangedLists, tombstones
  <2>4. /\ DOMAIN myLists' = DOMAIN myLists \cup delta
        /\ \A l \in DOMAIN myLists' :
             myLists'[l] = IF l \in delta THEN lists[l].changed ELSE myLists[l]
    BY <1>3 DEF PullChangedLists, Put
  <2>5. Readable(Viewer)' = Readable(Viewer) /\ delta \subseteq Readable(Viewer)
    BY <2>3 DEF Readable, Owned, ChangedListsDelta
  <2>6. DeletedListsDelta(Viewer, {}, deletedListSince)'
          = DeletedListsDelta(Viewer, {}, deletedListSince)
    BY <2>3 DEF DeletedListsDelta, OwnTombstones
  <2>7. NoListMissed'
    <3>1. \A l \in Readable(Viewer) : l \in DOMAIN lists
      BY DEF Readable, Owned
    <3> QED BY <2>3, <2>4, <2>5, <3>1 DEF NoListMissed
  <2>8. NoListDeletionMissed'
    BY <2>4, <2>5, <2>6 DEF NoListDeletionMissed
  <2> QED BY <2>7, <2>8
<1> QED BY <1>2, <1>3

\* What is inductive, of a device that syncs lists.
ListsInv == AliveUntold /\ NoListMissed /\ NoListDeletionMissed

\* ListsInv is inductive relative to Base.
LEMMA NextListsInv == Base /\ ListsInv /\ [ListsNext]_deviceVars => ListsInv'
<1> SUFFICES ASSUME Base, ListsInv, [ListsNext]_deviceVars PROVE ListsInv'
  OBVIOUS
<1>1. Base' /\ ListsEvolve /\ AliveUntold'
  BY NextBase, NextListsEvolve DEF ListsInv
<1>2. CASE PullDeletedLists \/ PullChangedLists
  BY <1>1, <1>2, ListsPulled DEF ListsInv
<1>3. CASE UNCHANGED listApp
  BY <1>1, <1>3, ListsOutOfSight DEF ListsInv
<1> QED BY <1>2, <1>3 DEF ListsNext, Elsewhere, deviceVars

\* It holds at the start, when there are no lists, and so it always does.
LEMMA ListsInvHolds == ListsSpec => []ListsInv
<1>1. Init /\ DeviceInit => ListsInv
  BY DEF Init, SchemaInit, DeviceInit, ListsInv, AliveUntold, NoListMissed,
         NoListDeletionMissed, Readable, Owned, Empty
<1> QED BY <1>1, NextListsInv, BaseHolds, PTL DEF ListsSpec

\* The app has every list that its user can read, as it is, or its next request
\* brings it: the delta by dates of whole seconds leaves nothing out.
THEOREM ListDeltaComplete == ListsSpec => []NoListMissed
BY ListsInvHolds, PTL DEF ListsInv

\* Every list of the app that is gone is in its next deletions, whoever deleted
\* it and whether it was owned or shared.
THEOREM ListDeletionDeltaComplete == ListsSpec => []NoListDeletionMissed
BY ListsInvHolds, PTL DEF ListsInv

\* A list that goes leaves a tombstone dated now to each user it was shared with,
\* unless the account goes too.
LEMMA ListsBuried == ListsEvolve => SharesBuried
BY DEF ListsEvolve, SharesBuried

\* Those it was shared with are told also when lists are made and changed on the web.
THEOREM SharedDeletionsToldNextToApp == ListsSpec => SharedDeletionRecorded
<1>1. Base /\ ListsInv /\ [ListsNext]_deviceVars => [SharesBuried]_vars
  BY NextListsEvolve, ListsBuried DEF ListsInv
<1>2. ListsSpec => [][SharesBuried]_vars
  BY <1>1, BaseHolds, ListsInvHolds, PTL DEF ListsSpec
<1> QED BY <1>2 DEF SharedDeletionRecorded, SharesBuried
-----------------------------------------------------------------------------
(* Entries *)

\* What EntriesSpec does to the entries: lists and shares stay, and so do
\* tombstones; what is written is dated now, what goes leaves a tombstone dated now.
EntriesEvolve ==
  /\ clock \in Nat /\ clock <= clock'
  /\ \A l \in DOMAIN lists : l \in DOMAIN lists' /\ lists'[l] = lists[l]
  /\ \A p \in DOMAIN list_permissions :
       p \in DOMAIN list_permissions' /\ list_permissions'[p] = list_permissions[p]
  /\ DOMAIN deleted_list' = DOMAIN deleted_list
  /\ \A e \in DOMAIN deleted_entry :
       e \in DOMAIN deleted_entry' /\ deleted_entry'[e] = deleted_entry[e]
  /\ \A e \in DOMAIN entries \cap DOMAIN entries' :
       /\ entries'[e].list = entries[e].list
       /\ entries'[e] = entries[e] \/ entries'[e].updated = Sec(clock)
  /\ \A e \in DOMAIN entries \ DOMAIN entries' :
       /\ e \in DOMAIN deleted_entry' /\ deleted_entry'[e].created = Sec(clock)
       /\ <<e, deleted_entry'[e].list>> \in EntryRefs
  /\ \A e \in DOMAIN entries' \ DOMAIN entries :
       entries'[e].updated = Sec(clock) /\ e \notin DOMAIN deleted_entry

\* Nothing is written under a date that is newer than the time of writing.
UpdatedLast == \A e \in DOMAIN entries : entries[e].changed <= entries[e].updated

\* An app's upload of deletions.
LEMMA EntryDeletionEvolves ==
  ASSUME Base, UpdatedLast, NEW u \in Users, NEW req \in EntryDeletions, NEW since,
         UpdateDeletedEntries(u, req, since)
  PROVE  EntriesEvolve /\ UpdatedLast'
<1> DEFINE gone == EntriesToDelete(u, req, since)
<1>1. gone \subseteq DOMAIN entries \cap DOMAIN req /\ gone \cap DOMAIN deleted_entry = {}
  BY DEF UpdateDeletedEntries, UpdateDeletedEntriesFails, EntriesToDelete
<1>2. /\ DOMAIN entries' = DOMAIN entries \ gone
      /\ \A e \in DOMAIN entries' : entries'[e] = entries[e]
  BY DEF UpdateDeletedEntries, Delete, Restrict
<1>3. /\ DOMAIN deleted_entry' = DOMAIN deleted_entry \cup gone
      /\ \A e \in gone : deleted_entry'[e] = [list |-> req[e], created |-> Sec(clock)]
      /\ \A e \in DOMAIN deleted_entry : deleted_entry'[e] = deleted_entry[e]
  BY <1>1 DEF UpdateDeletedEntries, Put
<1>4. \A e \in gone : <<e, req[e]>> \in EntryRefs
  BY <1>1 DEF EntryDeletions
<1>5. /\ clock \in Nat /\ clock' = clock
      /\ UNCHANGED <<lists, list_permissions, deleted_list>>
  BY DEF UpdateDeletedEntries, listTables, tombstones, Base, TypeOK
<1> HIDE DEF gone
<1> QED BY <1>1, <1>2, <1>3, <1>4, <1>5 DEF EntriesEvolve, UpdatedLast

\* An app's upload of edits.
LEMMA EntryEditEvolves ==
  ASSUME Base, UpdatedLast, NEW u \in Users, NEW req \in EntryUploads, NEW since,
         UpdateChangedEntries(u, req, since)
  PROVE  EntriesEvolve /\ UpdatedLast'
<1> DEFINE E == EntriesToWrite(u, req, since)
<1>1. E \cap DOMAIN deleted_entry = {}
  BY DEF EntriesToWrite
<1>2. /\ DOMAIN entries' = DOMAIN entries \cup E
      /\ \A e \in DOMAIN entries' :
           /\ e \notin E => entries'[e] = entries[e]
           /\ e \in DOMAIN entries => entries'[e].list = entries[e].list
           /\ e \in E => /\ entries'[e].updated = Sec(clock)
                         /\ entries'[e].changed = Sec(req[e].changed)
  BY DEF UpdateChangedEntries, Put
<1>3. \A e \in E : Sec(req[e].changed) <= Sec(clock)
  <2>1. \A e \in E : req[e].changed \in Nat /\ req[e].changed <= clock
    BY SchemaAssumption DEF EntryUploads, Table, Stamps, EntriesToWrite, CheckedItems
  <2> QED BY <2>1, SecFacts DEF Base, TypeOK
<1>4. /\ clock \in Nat /\ clock' = clock
      /\ UNCHANGED <<lists, list_permissions, deleted_list, deleted_entry>>
  BY DEF UpdateChangedEntries, listTables, tombstones, Base, TypeOK
<1> HIDE DEF E
<1> QED BY <1>1, <1>2, <1>3, <1>4 DEF EntriesEvolve, UpdatedLast

\* Every step of EntriesSpec evolves the entries.
LEMMA NextEntriesEvolve ==
  ASSUME Base, UpdatedLast, [EntriesNext]_deviceVars
  PROVE  EntriesEvolve /\ UpdatedLast'
<1> USE DEF accounts, listTables, entryTables, tombstones
<1>1. clock \in Nat /\ clock <= clock'
  BY NextIsServers, ClockSteps DEF Base, TypeOK, DeviceTypes
<1>2. ASSUME UNCHANGED <<lists, list_permissions, deleted_list, entryTables>>
      PROVE  EntriesEvolve /\ UpdatedLast'
  BY <1>1, <1>2 DEF EntriesEvolve, UpdatedLast
<1>3. ASSUME NEW u \in Users, NEW l \in Lists, CreateList(u, l)
      PROVE  EntriesEvolve /\ UpdatedLast'
  BY <1>1, <1>3 DEF CreateList, FreshList, Put, EntriesEvolve, UpdatedLast
<1>4. ASSUME NEW u \in Users, Sharing(u) PROVE EntriesEvolve /\ UpdatedLast'
  <2>1. ASSUME NEW l \in Lists, NEW t \in Tokens, NEW deadline \in Deadlines,
               NEW write \in BOOLEAN, GenerateShareCode(u, l, t, deadline, write, FALSE)
        PROVE  EntriesEvolve /\ UpdatedLast'
    BY <1>2, <2>1 DEF GenerateShareCode
  <2>2. ASSUME NEW t \in Tokens, UseShareCode(u, t) PROVE EntriesEvolve /\ UpdatedLast'
    BY <1>1, <2>2 DEF UseShareCode, Put, EntriesEvolve, UpdatedLast
  <2> QED BY <1>4, <2>1, <2>2 DEF Sharing
<1>5. ASSUME NEW u \in Users, EntryWork(u) PROVE EntriesEvolve /\ UpdatedLast'
  BY <1>2, <1>3, <1>4, <1>5, EntryDeletionEvolves, EntryEditEvolves DEF EntryWork, RegisterUser
<1>6. CASE SyncDeletedEntries
  <2>1. removed \in EntryDeletions
    BY DEF Base, DeviceTypes, EntryDeletions, Table, IsTable
  <2> QED BY <1>6, <2>1, ViewerAssumption, EntryDeletionEvolves DEF SyncDeletedEntries
<1>7. CASE SyncChangedEntries
  <2>1. [e \in edited |-> myEntries[e]] \in EntryUploads
    BY UploadTyped DEF Base
  <2> QED BY <1>7, <2>1, ViewerAssumption, EntryEditEvolves DEF SyncChangedEntries
<1>8. CASE \E e \in Entries : RemoveOffline(e) \/ \E tip \in Tips : EditOffline(e, tip)
  BY <1>2, <1>8 DEF RemoveOffline, EditOffline, vars
<1>9. CASE Elsewhere(Tick)
  BY <1>2, <1>9 DEF Elsewhere, Tick
<1>10. CASE UNCHANGED deviceVars
  BY <1>2, <1>10 DEF deviceVars, vars
<1> QED BY <1>5, <1>6, <1>7, <1>8, <1>9, <1>10 DEF EntriesNext, Elsewhere

\* What the app knows of an entry: the list it is in, or was in until it was deleted.
Known(e, l) == IF e \in DOMAIN entries THEN l = entries[e].list ELSE e \in DOMAIN deleted_entry

\* What is inductive, of a device that syncs entries.  An edit made offline is later
\* than the last upload and has a fraction of a second, which no stored date has.
EntriesInv ==
  /\ UpdatedLast
  /\ DOMAIN deleted_list = {}
  /\ \A e \in DOMAIN myEntries : Known(e, myEntries[e].list)
  /\ \A e \in DOMAIN removed : Known(e, removed[e])
  /\ \A e \in DOMAIN myEntries : myEntries[e].list \in Readable(Viewer)
  /\ \A e \in edited : /\ myEntries[e].changed >= entrySince
                       /\ Sec(myEntries[e].changed) # myEntries[e].changed
  /\ NoOwnEntryMissed
  /\ OneListPerEntry => NoEntryDeletionMissed

\* What a step of EntriesSpec leaves as it was.
LEMMA EntriesKept ==
  ASSUME Base, EntriesEvolve
  PROVE  /\ \A e, l : Known(e, l) => Known(e, l)'
         /\ Readable(Viewer) \subseteq Readable(Viewer)'
         /\ \A e \in DOMAIN entries \cap DOMAIN entries' :
              entries'[e].list \in Owned(Viewer)' => entries[e].list \in Owned(Viewer)
<1>1. \A e, l : Known(e, l) => Known(e, l)'
  BY DEF EntriesEvolve, Known
<1>2. Readable(Viewer) \subseteq Readable(Viewer)'
  BY DEF EntriesEvolve, Readable, Owned
<1>3. \A e \in DOMAIN entries : entries[e].list \in DOMAIN lists
  BY DEF Base, ForeignKeys
<1> QED BY <1>1, <1>2, <1>3 DEF EntriesEvolve, Owned

\* The delta of entries that an upload has nothing to say about.
LEMMA EntryDelta ==
  ASSUME NEW since
  PROVE  ChangedEntriesDelta(Viewer, Empty, since) =
           {e \in DOMAIN entries : /\ entries[e].list \in Readable(Viewer)
                                   /\ entries[e].updated >= Sec(since)}
BY DEF ChangedEntriesDelta, UpdatedEntries, CheckedItems, Empty

\* The Viewer's entries, while the app waits: what is written will be sent.
LEMMA WritesOutOfSight ==
  ASSUME Base, Base', EntriesEvolve, UNCHANGED entryApp, NoOwnEntryMissed
  PROVE  NoOwnEntryMissed'
<1>1. /\ entrySince' = entrySince /\ Sec(clock) >= Sec(entrySince)
      /\ myEntries' = myEntries /\ edited' = edited /\ removed' = removed
  BY NowIsNotMissed DEF Base, DeviceTypes, entryApp
<1> SUFFICES ASSUME NEW e \in DOMAIN entries', entries'[e].list \in Owned(Viewer)'
             PROVE  HasEntry(e)' \/ e \in ChangedEntriesDelta(Viewer, Empty, entrySince)'
  BY DEF NoOwnEntryMissed
<1>2. entries'[e].updated >= Sec(entrySince) => e \in ChangedEntriesDelta(Viewer, Empty, entrySince)'
  BY <1>1 DEF ChangedEntriesDelta, UpdatedEntries, CheckedItems, Empty, Readable
<1>3. CASE e \notin DOMAIN entries
  BY <1>1, <1>2, <1>3 DEF EntriesEvolve
<1>4. CASE e \in DOMAIN entries /\ entries'[e] # entries[e]
  BY <1>1, <1>2, <1>4 DEF EntriesEvolve
<1>5. CASE e \in DOMAIN entries /\ entries'[e] = entries[e]
  <2>1. HasEntry(e) \/ entries[e].updated >= Sec(entrySince)
    BY <1>5, EntriesKept, EntryDelta DEF NoOwnEntryMissed
  <2>2. HasEntry(e) => HasEntry(e)'
    BY <1>1, <1>5 DEF HasEntry
  <2> QED BY <1>2, <1>5, <2>1, <2>2
<1> QED BY <1>3, <1>4, <1>5

\* What is deleted meanwhile will be sent, too.
LEMMA DeletionsOutOfSight ==
  ASSUME Base, EntriesEvolve, UNCHANGED entryApp, OneListPerEntry, NoEntryDeletionMissed,
         \A e \in DOMAIN myEntries : Known(e, myEntries[e].list),
         \A e \in DOMAIN myEntries : myEntries[e].list \in Readable(Viewer)
  PROVE  NoEntryDeletionMissed'
<1>1. /\ deletedEntrySince' = deletedEntrySince /\ Sec(clock) >= Sec(deletedEntrySince)
      /\ myEntries' = myEntries
  BY NowIsNotMissed DEF Base, DeviceTypes, entryApp
<1> SUFFICES ASSUME NEW e \in DOMAIN myEntries \ DOMAIN entries'
             PROVE  e \in DeletedEntriesDelta(Viewer, deletedEntrySince)'
  BY <1>1 DEF NoEntryDeletionMissed
<1>2. Readable(Viewer) \subseteq Readable(Viewer)'
  BY EntriesKept
<1>3. CASE e \notin DOMAIN entries
  <2>1. /\ e \in DOMAIN deleted_entry /\ deleted_entry[e].list \in Readable(Viewer)
        /\ deleted_entry[e].created >= Sec(deletedEntrySince)
    BY <1>3 DEF NoEntryDeletionMissed, DeletedEntriesDelta
  <2>2. e \in DOMAIN deleted_entry' /\ deleted_entry'[e] = deleted_entry[e]
    BY <2>1 DEF EntriesEvolve
  <2> QED BY <1>1, <1>2, <2>1, <2>2 DEF DeletedEntriesDelta
<1>4. CASE e \in DOMAIN entries
  <2>1. /\ e \in DOMAIN deleted_entry' /\ deleted_entry'[e].created = Sec(clock)
        /\ <<e, deleted_entry'[e].list>> \in EntryRefs
    BY <1>4 DEF EntriesEvolve
  <2>2. <<e, myEntries[e].list>> \in EntryRefs
    BY DEF Base, DeviceTypes
  <2>3. deleted_entry'[e].list = myEntries[e].list
    BY <2>1, <2>2 DEF OneListPerEntry
  <2> QED BY <1>1, <1>2, <2>1, <2>3 DEF DeletedEntriesDelta
<1> QED BY <1>3, <1>4

\* A request that has nothing to do with the app's entries.
LEMMA EntriesElsewhere ==
  ASSUME Base, Base', EntriesInv, EntriesEvolve, UpdatedLast', UNCHANGED entryApp
  PROVE  EntriesInv'
<1>1. /\ entrySince' = entrySince /\ myEntries' = myEntries
      /\ edited' = edited /\ removed' = removed
  BY DEF entryApp
<1>2. \A e, l : Known(e, l) => Known(e, l)'
  BY EntriesKept
<1>3. (\A e \in DOMAIN myEntries : Known(e, myEntries[e].list))'
  BY <1>1, <1>2 DEF EntriesInv, Known
<1>4. (\A e \in DOMAIN removed : Known(e, removed[e]))'
  BY <1>1, <1>2 DEF EntriesInv, Known
<1>5. (\A e \in DOMAIN myEntries : myEntries[e].list \in Readable(Viewer))'
  BY <1>1, EntriesKept DEF EntriesInv
<1>6. DOMAIN deleted_list' = {}
  BY DEF EntriesInv, EntriesEvolve
<1>7. NoOwnEntryMissed' /\ (OneListPerEntry => NoEntryDeletionMissed')
  BY WritesOutOfSight, DeletionsOutOfSight DEF EntriesInv
<1>8. (\A e \in edited : /\ myEntries[e].changed >= entrySince
                         /\ Sec(myEntries[e].changed) # myEntries[e].changed)'
  BY <1>1 DEF EntriesInv, Sec
<1> QED BY <1>3, <1>4, <1>5, <1>6, <1>7, <1>8 DEF EntriesInv, OneListPerEntry

\* The app uploads its deletions: those of the Viewer's lists are all carried out.
LEMMA DeletionsUploaded ==
  ASSUME Base, EntriesInv, SyncDeletedEntries
  PROVE  \A e \in DOMAIN entries' :
           /\ e \in DOMAIN entries /\ entries'[e] = entries[e]
           /\ e \notin DeletedEntriesDelta(Viewer, deletedEntrySince)
           /\ entries[e].list \in Owned(Viewer) => e \notin DOMAIN removed
<1> SUFFICES ASSUME NEW e \in DOMAIN entries'
             PROVE  /\ e \in DOMAIN entries /\ entries'[e] = entries[e]
                    /\ e \notin DeletedEntriesDelta(Viewer, deletedEntrySince)
                    /\ entries[e].list \in Owned(Viewer) => e \notin DOMAIN removed
  OBVIOUS
<1>1. /\ e \in DOMAIN entries /\ entries'[e] = entries[e]
      /\ e \notin EntriesToDelete(Viewer, removed, deletedEntrySince)
  BY DEF SyncDeletedEntries, UpdateDeletedEntries, Delete, Restrict
<1>2. e \notin DeletedEntriesDelta(Viewer, deletedEntrySince)
  BY <1>1 DEF DeletedEntriesDelta, Base, DeletionWins
<1>3. ASSUME entries[e].list \in Owned(Viewer), e \in DOMAIN removed PROVE FALSE
  <2>1. removed[e] = entries[e].list
    BY <1>1, <1>3 DEF EntriesInv, Known
  <2>2. removed[e] \notin DOMAIN deleted_list /\ MayWrite(Viewer, removed[e])
    BY <1>3, <2>1 DEF EntriesInv, MayWrite, Owned
  <2> QED BY <1>1, <1>2, <1>3, <2>2 DEF EntriesToDelete
<1> QED BY <1>1, <1>2, <1>3

\* After it the app is rid of what was deleted on either side.
LEMMA SyncDeletedKeepsEntries ==
  ASSUME Base, Base', EntriesInv, SyncDeletedEntries
  PROVE  EntriesInv'
<1> DEFINE gone == DOMAIN removed \cup DeletedEntriesDelta(Viewer, deletedEntrySince)
<1>1. EntriesEvolve /\ UpdatedLast'
  <2>1. removed \in EntryDeletions
    BY DEF Base, DeviceTypes, EntryDeletions, Table, IsTable
  <2> QED BY <2>1, ViewerAssumption, EntryDeletionEvolves DEF SyncDeletedEntries, EntriesInv
<1>2. /\ entrySince' = entrySince /\ removed' = Empty
      /\ edited' = edited \ gone /\ DOMAIN myEntries' = DOMAIN myEntries \ gone
      /\ \A e \in DOMAIN myEntries' : myEntries'[e] = myEntries[e]
  BY DEF SyncDeletedEntries, Delete, Restrict
<1>3. edited' \subseteq edited /\ edited' \subseteq DOMAIN myEntries'
  BY <1>2 DEF Base, DeviceTypes
<1>4. DOMAIN deleted_list' = {}
  BY <1>1 DEF EntriesInv, EntriesEvolve
<1>5. /\ \A e, l : Known(e, l) => Known(e, l)'
      /\ Readable(Viewer) \subseteq Readable(Viewer)'
  BY <1>1, EntriesKept
<1>6. (\A e \in DOMAIN myEntries : Known(e, myEntries[e].list))'
  BY <1>2, <1>5 DEF EntriesInv, Known
<1>7. (\A e \in DOMAIN removed : Known(e, removed[e]))'
  BY <1>2 DEF Empty
<1>8. (\A e \in DOMAIN myEntries : myEntries[e].list \in Readable(Viewer))'
  BY <1>2, <1>5 DEF EntriesInv
<1>9. (\A e \in edited : /\ myEntries[e].changed >= entrySince
                         /\ Sec(myEntries[e].changed) # myEntries[e].changed)'
  BY <1>2, <1>3 DEF EntriesInv, Sec
<1>10. NoOwnEntryMissed'
  <2> SUFFICES ASSUME NEW e \in DOMAIN entries', entries'[e].list \in Owned(Viewer)'
               PROVE  HasEntry(e)' \/ e \in ChangedEntriesDelta(Viewer, Empty, entrySince)'
    BY DEF NoOwnEntryMissed
  <2>1. e \in DOMAIN entries /\ entries'[e] = entries[e] /\ entries[e].list \in Owned(Viewer)
    BY <1>1, DeletionsUploaded, EntriesKept
  <2>2. e \notin gone
    BY <2>1, DeletionsUploaded
  <2>3. HasEntry(e) \/ e \in ChangedEntriesDelta(Viewer, Empty, entrySince)
    BY <2>1 DEF EntriesInv, NoOwnEntryMissed
  <2>4. HasEntry(e) => HasEntry(e)'
    BY <1>2, <2>1, <2>2 DEF HasEntry, Copy, Sec
  <2>5. e \in ChangedEntriesDelta(Viewer, Empty, entrySince)
          => e \in ChangedEntriesDelta(Viewer, Empty, entrySince)'
    BY <1>2, <1>5, <2>1 DEF ChangedEntriesDelta, UpdatedEntries, CheckedItems, Empty
  <2> QED BY <2>3, <2>4, <2>5
<1>11. OneListPerEntry => NoEntryDeletionMissed'
  <2> SUFFICES ASSUME OneListPerEntry, NEW e \in DOMAIN myEntries' \ DOMAIN entries'
               PROVE  FALSE
    BY DEF NoEntryDeletionMissed
  <2>1. e \in DOMAIN myEntries /\ e \notin gone
    BY <1>2
  <2>2. e \notin DOMAIN entries
    BY <2>1 DEF SyncDeletedEntries, UpdateDeletedEntries, EntriesToDelete, Delete, Restrict
  <2> QED BY <2>1, <2>2 DEF EntriesInv, NoEntryDeletionMissed
<1> HIDE DEF gone
<1> QED BY <1>1, <1>4, <1>6, <1>7, <1>8, <1>9, <1>10, <1>11 DEF EntriesInv, OneListPerEntry

\* Deleting an entry in the app: the deletion is there to be uploaded.
LEMMA RemoveKeepsEntries ==
  ASSUME Base, EntriesInv, NEW e \in Entries, RemoveOffline(e)
  PROVE  EntriesInv'
<1>1. /\ UNCHANGED <<clock, users, deleted_user, lists, list_permissions, share_token,
                     entries, deleted_entry, deleted_list, deleted_list_shared>>
      /\ entrySince' = entrySince /\ deletedEntrySince' = deletedEntrySince
      /\ DOMAIN myEntries' = DOMAIN myEntries \ {e}
      /\ \A f \in DOMAIN myEntries' : myEntries'[f] = myEntries[f]
      /\ edited' = edited \ {e}
      /\ DOMAIN removed' = DOMAIN removed \cup {e} /\ removed'[e] = myEntries[e].list
      /\ \A f \in DOMAIN removed' : f # e => removed'[f] = removed[f]
      /\ e \in DOMAIN myEntries
  BY DEF RemoveOffline, Delete, Restrict, Put, vars, accounts, listTables, entryTables, tombstones
<1>2. UpdatedLast' /\ DOMAIN deleted_list' = {}
  BY <1>1 DEF EntriesInv, UpdatedLast
<1>3. (\A f \in DOMAIN myEntries : Known(f, myEntries[f].list))'
  BY <1>1 DEF EntriesInv, Known
<1>4. (\A f \in DOMAIN removed : Known(f, removed[f]))'
  BY <1>1 DEF EntriesInv, Known
<1>5. (\A f \in DOMAIN myEntries : myEntries[f].list \in Readable(Viewer))'
  BY <1>1 DEF EntriesInv, Readable, Owned
<1>6. (\A f \in edited : /\ myEntries[f].changed >= entrySince
                         /\ Sec(myEntries[f].changed) # myEntries[f].changed)'
  BY <1>1 DEF EntriesInv, Sec, Base, DeviceTypes
<1>7. NoOwnEntryMissed'
  BY <1>1 DEF EntriesInv, NoOwnEntryMissed, HasEntry, Copy, Sec, Owned, Readable,
              ChangedEntriesDelta, UpdatedEntries, CheckedItems, Empty
<1>8. OneListPerEntry => NoEntryDeletionMissed'
  BY <1>1 DEF EntriesInv, NoEntryDeletionMissed, DeletedEntriesDelta, Readable, Owned, Sec
<1> QED BY <1>2, <1>3, <1>4, <1>5, <1>6, <1>7, <1>8 DEF EntriesInv, OneListPerEntry

\* Editing an entry in the app: the edit is later than the last upload.
LEMMA EditKeepsEntries ==
  ASSUME Base, EntriesInv, NEW e \in Entries, NEW tip \in Tips, EditOffline(e, tip)
  PROVE  EntriesInv'
<1>1. /\ UNCHANGED <<clock, users, deleted_user, lists, list_permissions, share_token,
                     entries, deleted_entry, deleted_list, deleted_list_shared>>
      /\ entrySince' = entrySince /\ deletedEntrySince' = deletedEntrySince
      /\ DOMAIN myEntries' = DOMAIN myEntries
      /\ \A f \in DOMAIN myEntries' : /\ myEntries'[f].list = myEntries[f].list
                                      /\ f # e => myEntries'[f] = myEntries[f]
      /\ edited' = edited \cup {e} /\ removed' = removed
      /\ myEntries'[e].changed = clock /\ clock # Sec(clock)
  BY DEF EditOffline, Put, vars, accounts, listTables, entryTables, tombstones
<1>2. UpdatedLast' /\ DOMAIN deleted_list' = {}
  BY <1>1 DEF EntriesInv, UpdatedLast
<1>3. (\A f \in DOMAIN myEntries : Known(f, myEntries[f].list))'
  BY <1>1 DEF EntriesInv, Known
<1>4. (\A f \in DOMAIN removed : Known(f, removed[f]))'
  BY <1>1 DEF EntriesInv, Known
<1>5. (\A f \in DOMAIN myEntries : myEntries[f].list \in Readable(Viewer))'
  BY <1>1 DEF EntriesInv, Readable, Owned
<1>6. (\A f \in edited : /\ myEntries[f].changed >= entrySince
                         /\ Sec(myEntries[f].changed) # myEntries[f].changed)'
  <2>1. clock >= entrySince /\ edited \subseteq DOMAIN myEntries
    BY DEF Base, TypeOK, DeviceTypes
  <2> QED BY <1>1, <2>1 DEF EntriesInv, Sec
<1>7. NoOwnEntryMissed'
  BY <1>1 DEF EntriesInv, NoOwnEntryMissed, HasEntry, Copy, Sec, Owned, Readable,
              ChangedEntriesDelta, UpdatedEntries, CheckedItems, Empty
<1>8. OneListPerEntry => NoEntryDeletionMissed'
  BY <1>1 DEF EntriesInv, NoEntryDeletionMissed, DeletedEntriesDelta, Readable, Owned, Sec
<1> QED BY <1>2, <1>3, <1>4, <1>5, <1>6, <1>7, <1>8 DEF EntriesInv, OneListPerEntry

\* The app uploads its edits.  An edit of an entry of the Viewer's own lists that is
\* not written loses to a newer one, which the answer brings: the server's date is
\* a whole second and the edit's is not, so they never tie.
LEMMA EditsUploaded ==
  ASSUME Base, EntriesInv,
         NEW e \in edited \cap DOMAIN entries, entries[e].list \in Owned(Viewer),
         NEW upload, upload = [f \in edited |-> myEntries[f]],
         e \notin EntriesToWrite(Viewer, upload, entrySince)
  PROVE  e \in ChangedEntriesDelta(Viewer, upload, entrySince)
<1>1. /\ myEntries[e].changed \in Nat /\ myEntries[e].changed <= clock /\ clock \in Nat
      /\ entrySince \in Nat /\ myEntries[e].changed >= entrySince
      /\ Sec(myEntries[e].changed) # myEntries[e].changed
      /\ myEntries[e].list = entries[e].list
      /\ e \in DOMAIN upload /\ upload[e] = myEntries[e]
  BY DEF EntriesInv, Known, Base, TypeOK, DeviceTypes, IsTable
<1>2. /\ entries[e].changed \in Nat /\ Sec(entries[e].changed) = entries[e].changed
      /\ entries[e].updated \in Nat /\ entries[e].changed <= entries[e].updated
  BY DEF Base, DatesPast, Past, EntriesInv, UpdatedLast
<1>3. e \notin DOMAIN deleted_entry /\ MayWrite(Viewer, upload[e].list)
  BY <1>1 DEF Base, DeletionWins, MayWrite, Owned
<1>4. SUFFICES ASSUME e \notin ChangedEntriesDelta(Viewer, upload, entrySince) PROVE FALSE
  OBVIOUS
<1>5. e \in CheckedItems(Viewer, upload, entrySince)
  BY <1>1, <1>4 DEF ChangedEntriesDelta, CheckedItems
<1>6. entries[e].changed >= myEntries[e].changed
  BY <1>1, <1>2, <1>3, <1>5 DEF EntriesToWrite
<1>7. e \in UpdatedEntries(Viewer, entrySince)
  <2>1. Sec(entrySince) \in Nat /\ Sec(entrySince) <= entrySince
    BY <1>1, SecNat
  <2> QED BY <1>1, <1>2, <1>6, <2>1 DEF UpdatedEntries, Readable
<1> QED BY <1>1, <1>2, <1>5, <1>6, <1>7 DEF CheckedItems

\* After it the app has what the server has of the Viewer's own lists, but for
\* what was written within this second.
LEMMA SyncChangedKeepsEntries ==
  ASSUME Base, Base', EntriesInv, SyncChangedEntries
  PROVE  EntriesInv'
<1> DEFINE upload == [e \in edited |-> myEntries[e]]
           written == EntriesToWrite(Viewer, upload, entrySince)
           delta == ChangedEntriesDelta(Viewer, upload, entrySince)
<1>1. EntriesEvolve /\ UpdatedLast'
  BY UploadTyped, ViewerAssumption, EntryEditEvolves DEF SyncChangedEntries, Base, EntriesInv
<1>2. written \subseteq DOMAIN entries \cap edited
  <2>1. written \subseteq edited \ DOMAIN deleted_entry
    BY DEF EntriesToWrite, CheckedItems
  <2>2. edited \subseteq DOMAIN myEntries
    BY DEF Base, DeviceTypes
  <2> QED BY <2>1, <2>2 DEF EntriesInv, Known
<1>3. /\ DOMAIN entries' = DOMAIN entries
      /\ \A e \in DOMAIN entries : e \notin written => entries'[e] = entries[e]
      /\ \A e \in written : entries'[e].updated = Sec(clock)
  BY <1>2 DEF SyncChangedEntries, UpdateChangedEntries, Put
<1>4. delta \subseteq DOMAIN entries /\ \A e \in delta : entries[e].list \in Readable(Viewer)
  BY DEF ChangedEntriesDelta, UpdatedEntries
<1>5. written \cap delta = {}
  BY DEF EntriesToWrite, ChangedEntriesDelta
<1>6. /\ DOMAIN myEntries' = DOMAIN myEntries \cup delta
      /\ \A e \in delta : myEntries'[e] = Copy(entries[e])
      /\ \A e \in DOMAIN myEntries : e \notin delta => myEntries'[e] = myEntries[e]
      /\ edited' = {} /\ removed' = removed /\ entrySince' = clock
      /\ deletedEntrySince' = deletedEntrySince
  BY DEF SyncChangedEntries, Put
<1>7. UNCHANGED <<clock, lists, list_permissions, deleted_list, deleted_entry>>
  BY DEF SyncChangedEntries, UpdateChangedEntries, listTables, tombstones
<1>8. \A e \in delta : myEntries'[e].list = entries[e].list
  BY <1>6 DEF Copy
<1>9. (\A e \in DOMAIN myEntries : Known(e, myEntries[e].list))'
  <2> SUFFICES ASSUME NEW e \in DOMAIN myEntries' PROVE Known(e, myEntries[e].list)'
    OBVIOUS
  <2>1. e \in delta => entries'[e].list = entries[e].list
    BY <1>3, <1>5, <1>4
  <2>2. CASE e \in delta
    BY <1>3, <1>4, <1>8, <2>1, <2>2 DEF Known
  <2>3. CASE e \notin delta
    <3>1. e \in DOMAIN entries => entries'[e].list = entries[e].list
      BY <1>1, <1>3 DEF EntriesEvolve
    <3> QED BY <1>3, <1>6, <1>7, <2>3, <3>1 DEF EntriesInv, Known
  <2> QED BY <2>2, <2>3
<1>10. (\A e \in DOMAIN removed : Known(e, removed[e]))'
  <2>1. \A e \in DOMAIN entries : entries'[e].list = entries[e].list
    BY <1>1, <1>3 DEF EntriesEvolve
  <2> QED BY <1>3, <1>6, <1>7, <2>1 DEF EntriesInv, Known
<1>11. Readable(Viewer)' = Readable(Viewer) /\ Owned(Viewer)' = Owned(Viewer)
  BY <1>7 DEF Readable, Owned
<1>12. (\A e \in DOMAIN myEntries : myEntries[e].list \in Readable(Viewer))'
  BY <1>4, <1>6, <1>8, <1>11 DEF EntriesInv
<1>13. NoOwnEntryMissed'
  <2> SUFFICES ASSUME NEW e \in DOMAIN entries', entries'[e].list \in Owned(Viewer)'
               PROVE  HasEntry(e)' \/ e \in ChangedEntriesDelta(Viewer, Empty, entrySince)'
    BY DEF NoOwnEntryMissed
  <2>1. e \in DOMAIN entries /\ entries[e].list \in Owned(Viewer)
    BY <1>1, <1>3, EntriesKept
  <2>2. CASE e \in written
    <3>1. Sec(clock) \in Nat /\ entries'[e].updated >= Sec(entrySince)'
      BY <1>3, <1>6, <1>7, <2>2, SecNat DEF Base, TypeOK, Sec
    <3>2. entries'[e].list \in Readable(Viewer)'
      BY DEF Readable
    <3> QED BY <3>1, <3>2 DEF ChangedEntriesDelta, UpdatedEntries, CheckedItems, Empty
  <2>3. CASE e \in delta
    <3>1. entries'[e] = entries[e] /\ Sec(entries[e].changed) = entries[e].changed
      BY <1>3, <1>5, <2>1, <2>3 DEF Base, DatesPast, Past
    <3>2. Copy(entries[e]) = [Copy(entries[e]) EXCEPT !.changed = Sec(@)]
      BY <3>1 DEF Copy
    <3> QED BY <1>6, <2>3, <3>1, <3>2 DEF HasEntry, Copy, Sec
  <2>4. CASE e \notin written /\ e \notin delta
    <3>1. e \notin edited
      BY <2>1, <2>4, EditsUploaded
    <3>2. HasEntry(e) \/ e \in ChangedEntriesDelta(Viewer, Empty, entrySince)
      BY <2>1 DEF EntriesInv, NoOwnEntryMissed
    <3>3. e \notin ChangedEntriesDelta(Viewer, Empty, entrySince)
      BY <2>4, <3>1 DEF ChangedEntriesDelta, CheckedItems, Empty
    <3>4. entries'[e] = entries[e] /\ e \in DOMAIN myEntries => myEntries'[e] = myEntries[e]
      BY <1>3, <1>6, <2>1, <2>4
    <3> QED BY <1>3, <1>6, <2>1, <2>4, <3>1, <3>2, <3>3, <3>4 DEF HasEntry, Copy, Sec
  <2> QED BY <2>2, <2>3, <2>4
<1>14. OneListPerEntry => NoEntryDeletionMissed'
  <2> SUFFICES ASSUME OneListPerEntry, NEW e \in DOMAIN myEntries' \ DOMAIN entries'
               PROVE  e \in DeletedEntriesDelta(Viewer, deletedEntrySince)'
    BY DEF NoEntryDeletionMissed
  <2>1. e \in DOMAIN myEntries \ DOMAIN entries
    BY <1>3, <1>4, <1>6
  <2>2. e \in DeletedEntriesDelta(Viewer, deletedEntrySince)
    BY <2>1 DEF EntriesInv, NoEntryDeletionMissed
  <2> QED BY <1>6, <1>7, <1>11, <2>2 DEF DeletedEntriesDelta, Sec
<1> HIDE DEF upload, written, delta
<1> QED BY <1>1, <1>6, <1>7, <1>9, <1>10, <1>12, <1>13, <1>14 DEF EntriesInv, OneListPerEntry

\* Every step of EntriesSpec keeps EntriesInv.
LEMMA NextEntriesInv ==
  Base /\ EntriesInv /\ [EntriesNext]_deviceVars => EntriesInv'
<1> SUFFICES ASSUME Base, EntriesInv, [EntriesNext]_deviceVars PROVE EntriesInv'
  OBVIOUS
<1>1. Base'
  BY NextBase
<1>2. EntriesEvolve /\ UpdatedLast'
  BY NextEntriesEvolve DEF EntriesInv
<1>3. ASSUME UNCHANGED entryApp PROVE EntriesInv'
  BY <1>1, <1>2, <1>3, EntriesElsewhere
<1>4. CASE SyncDeletedEntries
  BY <1>1, <1>4, SyncDeletedKeepsEntries
<1>5. CASE SyncChangedEntries
  BY <1>1, <1>5, SyncChangedKeepsEntries
<1> QED
  BY <1>3, <1>4, <1>5, RemoveKeepsEntries, EditKeepsEntries DEF EntriesNext, Elsewhere, deviceVars

\* It holds at the start, when there are no entries, and so it always does.
LEMMA EntriesInvHolds == EntriesSpec => []EntriesInv
<1>1. Init /\ DeviceInit => EntriesInv
  BY DEF Init, SchemaInit, DeviceInit, EntriesInv, UpdatedLast, NoOwnEntryMissed,
         NoEntryDeletionMissed, Empty
<1> QED BY <1>1, NextEntriesInv, BaseHolds, PTL DEF EntriesSpec

\* The app has every entry of its user's own lists as the server has it, or has an
\* edit or a deletion of its own to upload, or is sent it by its next request.
THEOREM OwnEntryDeltaComplete == EntriesSpec => []NoOwnEntryMissed
BY EntriesInvHolds, PTL DEF EntriesInv

\* An entry of the app that someone deleted is in its next deletions, if all apps
\* name an entry under the same list: a tombstone has the list of the upload.
THEOREM EntryDeletionDeltaComplete ==
  ASSUME OneListPerEntry PROVE EntriesSpec => []NoEntryDeletionMissed
<1>1. EntriesInv => NoEntryDeletionMissed
  BY DEF EntriesInv
<1> QED BY <1>1, EntriesInvHolds, PTL
=============================================================================
