---------------------------- MODULE SafetyProofs ----------------------------
(***************************************************************************)
(* The safety invariants of Server, for every value of the constants, on top  *)
(* of the types and keys proved in ServerProofs.                               *)
(***************************************************************************)
EXTENDS ServerProofs

(* Deletion wins over change *)

\* DeletionWins is inductive: who writes entries first looks at the tombstones.
LEMMA NextDeletionWins == TypeOK /\ DeletionWins /\ [Next]_vars => DeletionWins'
<1> SUFFICES ASSUME TypeOK, DeletionWins, [Next]_vars PROVE DeletionWins'
  OBVIOUS
<1> USE DEF DeletionWins
<1>1. ASSUME UNCHANGED entryTables PROVE DeletionWins'
  BY <1>1 DEF entryTables
<1>2. ASSUME NEW STATE D, NEW STATE U, DropLists(D, U) PROVE DeletionWins'
  BY <1>2 DEF DropLists, Delete, Restrict
<1>3. ASSUME NEW u \in Users, Sync(u) PROVE DeletionWins'
  <2>1. ASSUME NEW req \in SUBSET Lists, NEW since \in Cursors, UpdateDeletedLists(u, req, since)
        PROVE  DeletionWins'
    BY <1>2, <2>1 DEF UpdateDeletedLists
  <2>2. ASSUME NEW req \in ListUploads, UpdateChangedLists(u, req) PROVE DeletionWins'
    BY <1>1, <2>2 DEF UpdateChangedLists
  <2>3. ASSUME NEW req \in EntryDeletions, NEW since \in Cursors,
               UpdateDeletedEntries(u, req, since)
        PROVE  DeletionWins'
    BY <2>3 DEF UpdateDeletedEntries, Put, Delete, Restrict
  <2>4. ASSUME NEW req \in EntryUploads, NEW since \in Cursors,
               UpdateChangedEntries(u, req, since)
        PROVE  DeletionWins'
    BY <2>4 DEF UpdateChangedEntries, EntriesToWrite, Put
  <2> QED BY <1>3, <2>1, <2>2, <2>3, <2>4 DEF Sync
<1>4. ASSUME NEW u \in Users, Edit(u) PROVE DeletionWins'
  <2>1. ASSUME NEW l \in Lists, CreateList(u, l) \/ ChangeList(u, l) PROVE DeletionWins'
    BY <1>1, <2>1 DEF CreateList, ChangeList
  <2>2. ASSUME NEW l \in Lists, DeleteList(u, l) PROVE DeletionWins'
    BY <1>2, <2>2 DEF DeleteList
  <2>3. ASSUME NEW l \in Lists, NEW e \in Entries, NEW tip \in Tips, CreateEntry(u, l, e, tip)
        PROVE  DeletionWins'
    BY <2>3 DEF CreateEntry, FreshEntry, Put
  <2>4. ASSUME NEW e \in Entries, NEW tip \in Tips, ChangeEntry(u, e, tip) PROVE DeletionWins'
    BY <2>4 DEF ChangeEntry
  <2>5. ASSUME NEW e \in Entries, DeleteEntry(u, e) PROVE DeletionWins'
    BY <2>5 DEF DeleteEntry, Put, Delete, Restrict
  <2> QED BY <1>4, <2>1, <2>2, <2>3, <2>4, <2>5 DEF Edit
<1>5. ASSUME NEW u \in Users, Share(u) PROVE DeletionWins'
  BY <1>1, <1>5 DEF Share, GenerateShareCode, UseShareCode, RemoveSharingUser
<1>6. ASSUME NEW u \in Users, Account(u) PROVE DeletionWins'
  BY <1>1, <1>2, <1>6 DEF Account, RegisterUser, DeleteUser
<1>7. CASE Tick
  BY <1>1, <1>7 DEF Tick
<1>8. CASE UNCHANGED vars
  BY <1>1, <1>8 DEF vars
<1> QED BY <1>3, <1>4, <1>5, <1>6, <1>7, <1>8 DEF Next

\* No request, in whatever order they arrive, brings a deleted entry back.
THEOREM DeletedEntriesStayDeleted == Spec => []DeletionWins
<1>1. Init => DeletionWins
  BY DEF Init, SchemaInit, DeletionWins, Empty
<1> QED BY <1>1, TypeCorrect, NextDeletionWins, PTL DEF Spec
-----------------------------------------------------------------------------
(* Owners and the tombstones of their lists *)

\* NoOwnedTombstone without the dates, which are all at least 0.
OwnerNotTold ==
  \A l \in DOMAIN lists :
    /\ l \in DOMAIN deleted_list => deleted_list[l].user # lists[l].owner
    /\ <<lists[l].owner, l>> \notin DOMAIN deleted_list_shared

\* Which lists OwnTombstones holds, counted from the beginning of time.
LEMMA TombstonesOf ==
  ASSUME TypeOK, NEW u \in Users, NEW l \in Lists
  PROVE  l \in OwnTombstones(u, 0) <=>
           \/ l \in DOMAIN deleted_list /\ deleted_list[l].user = u
           \/ <<u, l>> \in DOMAIN deleted_list_shared
<1>1. l \in DOMAIN deleted_list => deleted_list[l].created >= 0
  BY DEF TypeOK, IsTable, TombstoneRows
<1>2. <<u, l>> \in DOMAIN deleted_list_shared => deleted_list_shared[<<u, l>>] >= 0
  BY DEF TypeOK, IsTable
<1> QED BY <1>1, <1>2 DEF OwnTombstones

\* OwnerNotTold is NoOwnedTombstone, table by table.
LEMMA OwnerNotToldSame == TypeOK => (OwnerNotTold <=> NoOwnedTombstone)
<1> SUFFICES ASSUME TypeOK PROVE OwnerNotTold <=> NoOwnedTombstone
  OBVIOUS
<1>1. \A l \in DOMAIN lists : l \in Lists /\ lists[l].owner \in Users
  BY DEF TypeOK, IsTable, ListRows
<1> QED BY <1>1, TombstonesOf DEF OwnerNotTold, NoOwnedTombstone

\* OwnerNotTold is inductive: a list is never inserted past its tombstones.
LEMMA NextOwnerNotTold == TypeOK /\ OwnerNotTold /\ [Next]_vars => OwnerNotTold'
<1> SUFFICES ASSUME TypeOK, OwnerNotTold, [Next]_vars PROVE OwnerNotTold'
  OBVIOUS
<1>1. ASSUME UNCHANGED <<lists, deleted_list, deleted_list_shared>> PROVE OwnerNotTold'
  BY <1>1 DEF OwnerNotTold
<1>2. ASSUME NEW u \in Users, Sync(u) PROVE OwnerNotTold'
  <2>1. ASSUME NEW req \in SUBSET Lists, NEW since \in Cursors, UpdateDeletedLists(u, req, since)
        PROVE  OwnerNotTold'
    <3> DEFINE filtered == ListsToDelete(u, req, since)
    <3>1. /\ DOMAIN lists' = DOMAIN lists \ filtered
          /\ \A l \in DOMAIN lists' : lists'[l] = lists[l]
      BY <2>1 DEF UpdateDeletedLists, DropLists, Delete, Restrict
    <3>2. \A l \in DOMAIN deleted_list' : l \notin filtered =>
            l \in DOMAIN deleted_list /\ deleted_list'[l] = deleted_list[l]
      BY <2>1 DEF UpdateDeletedLists, InsertIgnore, Put
    <3>3. \A p \in DOMAIN deleted_list_shared' : p[2] \notin filtered =>
            p \in DOMAIN deleted_list_shared
      BY <2>1 DEF UpdateDeletedLists, Shares, Put
    <3> QED BY <3>1, <3>2, <3>3 DEF OwnerNotTold
  <2>2. ASSUME NEW req \in ListUploads, UpdateChangedLists(u, req) PROVE OwnerNotTold'
    <3> DEFINE old == ListsToUpdate(u, req)
               new == ListsToInsert(u, req)
    <3>1. /\ DOMAIN lists' = DOMAIN lists \cup new \cup old
          /\ \A l \in DOMAIN lists' :
               lists'[l].owner = IF l \in DOMAIN lists THEN lists[l].owner ELSE u
      BY <2>2 DEF UpdateChangedLists, Put
    <3>2. old \subseteq DOMAIN lists
      BY DEF ListsToUpdate
    <3>3. \A l \in new : l \in Lists /\ l \notin OwnTombstones(u, 0)
      BY DEF ListsToInsert, Considered, ListUploads, Table
    <3>4. UNCHANGED <<deleted_list, deleted_list_shared>>
      BY <2>2 DEF UpdateChangedLists, tombstones
    <3> QED BY <3>1, <3>2, <3>3, <3>4, TombstonesOf DEF OwnerNotTold
  <2>3. ASSUME NEW req \in EntryDeletions, NEW since \in Cursors,
               UpdateDeletedEntries(u, req, since)
        PROVE  OwnerNotTold'
    BY <1>1, <2>3 DEF UpdateDeletedEntries, listTables, tombstones
  <2>4. ASSUME NEW req \in EntryUploads, NEW since \in Cursors,
               UpdateChangedEntries(u, req, since)
        PROVE  OwnerNotTold'
    BY <1>1, <2>4 DEF UpdateChangedEntries, listTables, tombstones
  <2> QED BY <1>2, <2>1, <2>2, <2>3, <2>4 DEF Sync
<1>3. ASSUME NEW u \in Users, Edit(u) PROVE OwnerNotTold'
  <2> USE DEF listTables, tombstones
  <2>1. ASSUME NEW l \in Lists, CreateList(u, l) PROVE OwnerNotTold'
    BY <2>1 DEF CreateList, FreshList, Put, OwnerNotTold
  <2>2. ASSUME NEW l \in Lists, ChangeList(u, l) PROVE OwnerNotTold'
    BY <2>2 DEF ChangeList, OwnerNotTold, TypeOK, IsTable, ListRows
  <2>3. ASSUME NEW l \in Lists, DeleteList(u, l) PROVE OwnerNotTold'
    BY <2>3 DEF DeleteList, DropLists, Delete, Restrict, Put, OwnerNotTold
  <2>4. ASSUME NEW l \in Lists, NEW e \in Entries, NEW tip \in Tips, CreateEntry(u, l, e, tip)
        PROVE  OwnerNotTold'
    BY <1>1, <2>4 DEF CreateEntry
  <2>5. ASSUME NEW e \in Entries, NEW tip \in Tips, ChangeEntry(u, e, tip) PROVE OwnerNotTold'
    BY <1>1, <2>5 DEF ChangeEntry
  <2>6. ASSUME NEW e \in Entries, DeleteEntry(u, e) PROVE OwnerNotTold'
    BY <1>1, <2>6 DEF DeleteEntry
  <2> QED BY <1>3, <2>1, <2>2, <2>3, <2>4, <2>5, <2>6 DEF Edit
<1>4. ASSUME NEW u \in Users, Share(u) PROVE OwnerNotTold'
  BY <1>1, <1>4 DEF Share, GenerateShareCode, UseShareCode, RemoveSharingUser, tombstones
<1>5. ASSUME NEW u \in Users, Account(u) PROVE OwnerNotTold'
  <2>1. CASE RegisterUser(u)
    BY <1>1, <2>1 DEF RegisterUser, listTables, tombstones
  <2>2. CASE DeleteUser(u)
    <3>1. /\ DOMAIN lists' = DOMAIN lists \ Owned(u)
          /\ \A l \in DOMAIN lists' : lists'[l] = lists[l]
      BY <2>2 DEF DeleteUser, DropLists, Delete, Restrict
    <3>2. \A l \in DOMAIN deleted_list' :
            l \in DOMAIN deleted_list /\ deleted_list'[l] = deleted_list[l]
      BY <2>2 DEF DeleteUser, Delete, Restrict
    <3>3. \A p \in DOMAIN deleted_list_shared' : p[2] \notin Owned(u) =>
            p \in DOMAIN deleted_list_shared
      BY <2>2 DEF DeleteUser, Delete, Restrict, Put, SharesToBury, Shares
    <3> QED BY <3>1, <3>2, <3>3 DEF OwnerNotTold
  <2> QED BY <1>5, <2>1, <2>2 DEF Account
<1>6. CASE Tick
  BY <1>1, <1>6 DEF Tick, listTables, tombstones
<1>7. CASE UNCHANGED vars
  BY <1>1, <1>7 DEF vars, listTables, tombstones
<1> QED BY <1>2, <1>3, <1>4, <1>5, <1>6, <1>7 DEF Next

\* No user is ever told that a list is deleted which the same user owns.
THEOREM OwnersNeverToldDeleted == Spec => []NoOwnedTombstone
<1>1. Init => OwnerNotTold
  BY DEF Init, SchemaInit, OwnerNotTold, Empty
<1>2. Spec => []OwnerNotTold
  BY <1>1, TypeCorrect, NextOwnerNotTold, PTL DEF Spec
<1> QED BY <1>2, TypeCorrect, OwnerNotToldSame, PTL
-----------------------------------------------------------------------------
(* Deletions of entries do not fail *)

\* Entries are where some client says they are.
EntriesWhereNamed == \A e \in DOMAIN entries : <<e, entries[e].list>> \in EntryRefs

\* Rows that go, or keep their list, change nothing of that.
LEMMA SameLists ==
  ASSUME EntriesWhereNamed,
         \A e \in DOMAIN entries' : e \in DOMAIN entries /\ entries'[e].list = entries[e].list
  PROVE  EntriesWhereNamed'
BY DEF EntriesWhereNamed

\* EntriesWhereNamed is inductive: an entry is inserted where the client says,
\* and an update does not move it.
LEMMA NextWhereNamed == TypeOK /\ EntriesWhereNamed /\ [Next]_vars => EntriesWhereNamed'
<1> SUFFICES ASSUME TypeOK, EntriesWhereNamed, [Next]_vars PROVE EntriesWhereNamed'
  OBVIOUS
<1>1. ASSUME UNCHANGED entryTables PROVE EntriesWhereNamed'
  BY <1>1, SameLists DEF entryTables
<1>2. ASSUME NEW STATE D, NEW STATE U, DropLists(D, U) PROVE EntriesWhereNamed'
  BY <1>2, SameLists DEF DropLists, Delete, Restrict
<1>3. ASSUME NEW u \in Users, Sync(u) PROVE EntriesWhereNamed'
  <2>1. ASSUME NEW req \in SUBSET Lists, NEW since \in Cursors, UpdateDeletedLists(u, req, since)
        PROVE  EntriesWhereNamed'
    BY <1>2, <2>1 DEF UpdateDeletedLists
  <2>2. ASSUME NEW req \in ListUploads, UpdateChangedLists(u, req) PROVE EntriesWhereNamed'
    BY <1>1, <2>2 DEF UpdateChangedLists
  <2>3. ASSUME NEW req \in EntryDeletions, NEW since \in Cursors,
               UpdateDeletedEntries(u, req, since)
        PROVE  EntriesWhereNamed'
    BY <2>3, SameLists DEF UpdateDeletedEntries, Delete, Restrict
  <2>4. ASSUME NEW req \in EntryUploads, NEW since \in Cursors,
               UpdateChangedEntries(u, req, since)
        PROVE  EntriesWhereNamed'
    <3>1. \A e \in DOMAIN req : <<e, req[e].list>> \in EntryRefs
      BY DEF EntryUploads
    <3>2. EntriesToWrite(u, req, since) \subseteq DOMAIN req
      BY DEF EntriesToWrite, CheckedItems
    <3>3. \A e \in DOMAIN entries' :
            \/ e \in DOMAIN entries /\ entries'[e].list = entries[e].list
            \/ e \in DOMAIN req /\ entries'[e].list = req[e].list
      BY <2>4, <3>2 DEF UpdateChangedEntries, Put
    <3> QED BY <3>1, <3>3 DEF EntriesWhereNamed
  <2> QED BY <1>3, <2>1, <2>2, <2>3, <2>4 DEF Sync
<1>4. ASSUME NEW u \in Users, Edit(u) PROVE EntriesWhereNamed'
  <2>1. ASSUME NEW l \in Lists, CreateList(u, l) \/ ChangeList(u, l) PROVE EntriesWhereNamed'
    BY <1>1, <2>1 DEF CreateList, ChangeList
  <2>2. ASSUME NEW l \in Lists, DeleteList(u, l) PROVE EntriesWhereNamed'
    BY <1>2, <2>2 DEF DeleteList
  <2>3. ASSUME NEW l \in Lists, NEW e \in Entries, NEW tip \in Tips,
               <<e, l>> \in EntryRefs, CreateEntry(u, l, e, tip)
        PROVE  EntriesWhereNamed'
    BY <2>3 DEF CreateEntry, Put, EntriesWhereNamed
  <2>4. ASSUME NEW e \in Entries, NEW tip \in Tips, ChangeEntry(u, e, tip)
        PROVE  EntriesWhereNamed'
    <3>1. \A f \in DOMAIN entries : entries'[f].list = entries[f].list
      BY <2>4 DEF ChangeEntry, TypeOK, IsTable, EntryRows
    <3> QED BY <2>4, <3>1, SameLists DEF ChangeEntry
  <2>5. ASSUME NEW e \in Entries, DeleteEntry(u, e) PROVE EntriesWhereNamed'
    BY <2>5, SameLists DEF DeleteEntry, Delete, Restrict
  <2> QED BY <1>4, <2>1, <2>2, <2>3, <2>4, <2>5 DEF Edit
<1>5. ASSUME NEW u \in Users, Share(u) PROVE EntriesWhereNamed'
  BY <1>1, <1>5 DEF Share, GenerateShareCode, UseShareCode, RemoveSharingUser
<1>6. ASSUME NEW u \in Users, Account(u) PROVE EntriesWhereNamed'
  BY <1>1, <1>2, <1>6 DEF Account, RegisterUser, DeleteUser
<1>7. CASE Tick
  BY <1>1, <1>7 DEF Tick
<1>8. CASE UNCHANGED vars
  BY <1>1, <1>8 DEF vars
<1> QED BY <1>3, <1>4, <1>5, <1>6, <1>7, <1>8 DEF Next

LEMMA WhereNamed == Spec => []EntriesWhereNamed
<1>1. Init => EntriesWhereNamed
  BY DEF Init, SchemaInit, EntriesWhereNamed, Empty
<1> QED BY <1>1, TypeCorrect, NextWhereNamed, PTL DEF Spec

\* The tombstone of an entry that a client deletes can always be inserted.
THEOREM EntryDeletionsSucceed == Spec => []EntryDeletionsNeverFail
<1>1. TypeInv /\ DeletionWins /\ EntriesWhereNamed => EntryDeletionsNeverFail
  <2> SUFFICES ASSUME TypeInv, DeletionWins, EntriesWhereNamed, OneListPerEntry,
                      NEW u \in Users, NEW req \in EntryDeletions, NEW since \in Cursors,
                      NEW e \in EntriesToDelete(u, req, since)
               PROVE  req[e] \in DOMAIN lists /\ e \notin DOMAIN deleted_entry
    BY DEF EntryDeletionsNeverFail, UpdateDeletedEntriesFails
  <2>1. e \in DOMAIN entries /\ e \in DOMAIN req
    BY DEF EntriesToDelete
  <2>2. <<e, req[e]>> \in EntryRefs /\ <<e, entries[e].list>> \in EntryRefs
    BY <2>1 DEF EntryDeletions, EntriesWhereNamed
  <2>3. req[e] = entries[e].list
    BY <2>2 DEF OneListPerEntry
  <2> QED BY <2>1, <2>3 DEF TypeInv, ForeignKeys, DeletionWins
<1> QED BY <1>1, WhereNamed, TypesAndKeys, DeletedEntriesStayDeleted, PTL
-----------------------------------------------------------------------------
(* Dates *)

\* What the provers need to know of the remainder.
LEMMA ModFacts ==
  ASSUME NEW K \in Nat \ {0}
  PROVE  /\ \A t \in Nat : t - (t % K) = K * (t \div K) /\ t \div K \in Nat
         /\ \A q \in Nat : (K * q) % K = 0
         /\ \A s, t \in Nat : s <= t => s - (s % K) <= t - (t % K)
OBVIOUS

\* A whole second stays what it is, and cutting to seconds keeps the order.
LEMMA SecFacts ==
  ASSUME NEW t \in Nat
  PROVE  /\ Sec(t) \in Nat /\ Sec(t) <= t /\ Sec(Sec(t)) = Sec(t)
         /\ \A s \in Nat : s <= t => Sec(s) <= Sec(t)
<1> DEFINE K == TicksPerSec
<1>1. K \in Nat \ {0}
  BY SchemaAssumption
<1>2. Sec(t) = K * (t \div K) /\ t \div K \in Nat
  BY <1>1, ModFacts DEF Sec
<1>3. Sec(t) % K = 0
  BY <1>1, <1>2, ModFacts
<1>4. Sec(t) \in Nat /\ Sec(t) <= t
  BY SecNat
<1>5. Sec(Sec(t)) = Sec(t)
  BY <1>3, <1>4 DEF Sec
<1>6. \A s \in Nat : s <= t => Sec(s) <= Sec(t)
  BY <1>1, ModFacts DEF Sec
<1> QED BY <1>4, <1>5, <1>6

\* A date that a column can hold by the time now: a whole second, not later.
Past(date, now) == date \in Nat /\ date <= now /\ Sec(date) = date

\* NothingFromTheFuture, and every such date is a whole second.
DatesPast ==
  /\ clock \in Nat
  /\ \A l \in DOMAIN lists : Past(lists[l].changed, clock)
  /\ \A p \in DOMAIN list_permissions : Past(list_permissions[p].changed, clock)
  /\ \A e \in DOMAIN entries : Past(entries[e].changed, clock) /\ Past(entries[e].updated, clock)

\* A column that holds a past timestamp holds a past second.
LEMMA SecPast == \A t, now \in Nat : t <= now => Past(Sec(t), now)
BY SecFacts DEF Past

\* Rows that are deleted take no date with them.
LEMMA DropListsDates ==
  ASSUME NEW STATE D, NEW STATE U, DatesPast, DropLists(D, U), UNCHANGED clock
  PROVE  DatesPast'
BY DEF DatesPast, DropLists, Delete, Restrict

\* Uploads dated after now are refused, and the others are cut to seconds.
LEMMA SyncDates == ASSUME TypeOK, DatesPast, NEW u \in Users, Sync(u) PROVE DatesPast'
<1> USE DEF accounts, listTables, entryTables, tombstones
<1>0. Past(Sec(clock), clock)
  BY SecPast DEF DatesPast
<1>1. ASSUME NEW req \in SUBSET Lists, NEW since \in Cursors, UpdateDeletedLists(u, req, since)
      PROVE  DatesPast'
  BY <1>1, DropListsDates DEF UpdateDeletedLists
<1>2. ASSUME NEW req \in ListUploads, UpdateChangedLists(u, req) PROVE DatesPast'
  <2> DEFINE L == ListsToInsert(u, req) \cup ListsToUpdate(u, req)
  <2>1. \A l \in L : req[l] \in Nat /\ req[l] <= clock
    BY SchemaAssumption
       DEF ListUploads, Table, Stamps, ListsToInsert, ListsToUpdate, Considered
  <2>2. \A l \in L : Past(Sec(req[l]), clock)
    BY <2>1, SecPast DEF DatesPast
  <2>3. \A l \in DOMAIN lists' : lists'[l].changed =
          IF l \in L THEN Sec(req[l]) ELSE lists[l].changed
    BY <1>2 DEF UpdateChangedLists, Put
  <2>4. \A l \in DOMAIN lists' : l \in L \/ l \in DOMAIN lists
    BY <1>2 DEF UpdateChangedLists, Put
  <2>5. \A l \in DOMAIN lists' : Past(lists'[l].changed, clock)
    BY <2>2, <2>3, <2>4 DEF DatesPast
  <2> QED BY <1>2, <2>5 DEF UpdateChangedLists, DatesPast
<1>3. ASSUME NEW req \in EntryDeletions, NEW since \in Cursors,
             UpdateDeletedEntries(u, req, since)
      PROVE  DatesPast'
  BY <1>3 DEF UpdateDeletedEntries, DatesPast, Delete, Restrict
<1>4. ASSUME NEW req \in EntryUploads, NEW since \in Cursors,
             UpdateChangedEntries(u, req, since)
      PROVE  DatesPast'
  <2> DEFINE E == EntriesToWrite(u, req, since)
  <2>1. \A e \in E : req[e].changed \in Nat /\ req[e].changed <= clock
    BY SchemaAssumption DEF EntryUploads, Table, Stamps, EntriesToWrite, CheckedItems
  <2>2. \A e \in E : Past(Sec(req[e].changed), clock)
    BY <2>1, SecPast DEF DatesPast
  <2>3. \A e \in DOMAIN entries' :
          /\ entries'[e].changed = IF e \in E THEN Sec(req[e].changed) ELSE entries[e].changed
          /\ entries'[e].updated = IF e \in E THEN Sec(clock) ELSE entries[e].updated
          /\ e \in E \/ e \in DOMAIN entries
    BY <1>4 DEF UpdateChangedEntries, Put
  <2>4. \A e \in DOMAIN entries' :
          Past(entries'[e].changed, clock) /\ Past(entries'[e].updated, clock)
    BY <1>0, <2>2, <2>3 DEF DatesPast
  <2> QED BY <1>4, <2>4 DEF UpdateChangedEntries, DatesPast
<1> QED BY <1>1, <1>2, <1>3, <1>4 DEF Sync

\* An edit on the server is dated now.
LEMMA EditDates == ASSUME TypeOK, DatesPast, NEW u \in Users, Edit(u) PROVE DatesPast'
<1> USE DEF accounts, listTables, entryTables, tombstones
<1>0. Past(Sec(clock), clock)
  BY SecPast DEF DatesPast
<1>1. ASSUME NEW l \in Lists, CreateList(u, l) PROVE DatesPast'
  BY <1>0, <1>1 DEF CreateList, Put, DatesPast
<1>2. ASSUME NEW l \in Lists, ChangeList(u, l) PROVE DatesPast'
  <2>1. \A m \in DOMAIN lists' : Past(lists'[m].changed, clock)
    BY <1>0, <1>2 DEF ChangeList, DatesPast, TypeOK, IsTable, ListRows
  <2> QED BY <1>2, <2>1 DEF ChangeList, DatesPast
<1>3. ASSUME NEW l \in Lists, DeleteList(u, l) PROVE DatesPast'
  BY <1>3, DropListsDates DEF DeleteList
<1>4. ASSUME NEW l \in Lists, NEW e \in Entries, NEW tip \in Tips, CreateEntry(u, l, e, tip)
      PROVE  DatesPast'
  BY <1>0, <1>4 DEF CreateEntry, Put, DatesPast
<1>5. ASSUME NEW e \in Entries, NEW tip \in Tips, ChangeEntry(u, e, tip) PROVE DatesPast'
  <2>1. \A f \in DOMAIN entries' :
          Past(entries'[f].changed, clock) /\ Past(entries'[f].updated, clock)
    BY <1>0, <1>5 DEF ChangeEntry, DatesPast, TypeOK, IsTable, EntryRows
  <2> QED BY <1>5, <2>1 DEF ChangeEntry, DatesPast
<1>6. ASSUME NEW e \in Entries, DeleteEntry(u, e) PROVE DatesPast'
  BY <1>6 DEF DeleteEntry, Delete, Restrict, DatesPast
<1> QED BY <1>1, <1>2, <1>3, <1>4, <1>5, <1>6 DEF Edit

\* So is a share.
LEMMA ShareDates == ASSUME TypeOK, DatesPast, NEW u \in Users, Share(u) PROVE DatesPast'
<1> USE DEF accounts, listTables, entryTables, tombstones
<1>1. ASSUME NEW l \in Lists, NEW t \in Tokens, NEW deadline \in Deadlines,
             NEW write \in BOOLEAN, NEW reusable \in BOOLEAN,
             GenerateShareCode(u, l, t, deadline, write, reusable)
      PROVE  DatesPast'
  BY <1>1 DEF GenerateShareCode, DatesPast
<1>2. ASSUME NEW t \in Tokens, UseShareCode(u, t) PROVE DatesPast'
  <2>1. Past(Sec(clock), clock)
    BY SecPast DEF DatesPast
  <2>2. \A p \in DOMAIN list_permissions' : Past(list_permissions'[p].changed, clock)
    BY <1>2, <2>1 DEF UseShareCode, Put, DatesPast
  <2> QED BY <1>2, <2>2 DEF UseShareCode, DatesPast
<1>3. ASSUME NEW l \in Lists, NEW v \in Users, RemoveSharingUser(u, l, v) PROVE DatesPast'
  BY <1>3 DEF RemoveSharingUser, Delete, Restrict, DatesPast
<1> QED BY <1>1, <1>2, <1>3 DEF Share

\* DatesPast is inductive.
LEMMA NextDates == TypeOK /\ DatesPast /\ [Next]_vars => DatesPast'
<1> SUFFICES ASSUME TypeOK, DatesPast, [Next]_vars PROVE DatesPast'
  OBVIOUS
<1> USE DEF accounts, listTables, entryTables, tombstones
<1>1. CASE Tick
  <2>1. clock' \in Nat /\ clock <= clock'
    BY <1>1 DEF Tick, DatesPast
  <2>2. \A d : Past(d, clock) => Past(d, clock')
    BY <2>1 DEF Past, DatesPast
  <2> QED BY <1>1, <2>1, <2>2 DEF Tick, DatesPast
<1>2. ASSUME NEW u \in Users, Account(u) PROVE DatesPast'
  <2>1. CASE RegisterUser(u)
    BY <2>1 DEF RegisterUser, DatesPast
  <2>2. CASE DeleteUser(u)
    BY <2>2, DropListsDates DEF DeleteUser
  <2> QED BY <1>2, <2>1, <2>2 DEF Account
<1>3. CASE UNCHANGED vars
  BY <1>3 DEF vars, DatesPast
<1> QED BY <1>1, <1>2, <1>3, SyncDates, EditDates, ShareDates DEF Next

\* Every date is a whole second that has begun.
LEMMA DatesInvariant == Spec => []DatesPast
<1>1. Init => DatesPast
  BY DEF Init, SchemaInit, DatesPast, Empty
<1> QED BY <1>1, TypeCorrect, NextDates, PTL DEF Spec

\* Whatever clocks the clients have, no row is ever dated in the future.
THEOREM NoFutureDates == Spec => []NothingFromTheFuture
<1>1. DatesPast => NothingFromTheFuture
  BY DEF DatesPast, NothingFromTheFuture, Past
<1> QED BY <1>1, DatesInvariant, PTL
-----------------------------------------------------------------------------
(* What a step may never do *)

\* The order of changes is kept in one step.
OrderKept ==
  /\ \A l \in DOMAIN lists \cap DOMAIN lists' : lists'[l].changed >= lists[l].changed
  /\ \A e \in DOMAIN entries \cap DOMAIN entries' :
       /\ entries'[e].changed >= entries[e].changed
       /\ entries'[e].updated >= entries[e].updated

\* A row that is written later, or under a later date, is not dated earlier.
LEMMA LaterIsNotEarlier ==
  \A date, t, now \in Nat : Past(date, now) /\ date <= t => date <= Sec(t)
BY SecFacts DEF Past

\* No step moves the date of a row back, since every stored date is past.
LEMMA NextOrderKept == TypeOK /\ DatesPast /\ [Next]_vars => OrderKept
<1> SUFFICES ASSUME TypeOK, DatesPast, [Next]_vars PROVE OrderKept
  OBVIOUS
<1> USE DEF accounts, listTables, entryTables, tombstones
<1>1. /\ clock \in Nat
      /\ \A l \in DOMAIN lists :
           /\ lists[l].changed \in Nat /\ lists[l].changed <= clock
           /\ lists[l].changed <= Sec(clock)
      /\ \A e \in DOMAIN entries :
           /\ entries[e].changed \in Nat /\ entries[e].changed <= Sec(clock)
           /\ entries[e].updated \in Nat /\ entries[e].updated <= Sec(clock)
  BY LaterIsNotEarlier DEF DatesPast, Past
<1>2. ASSUME UNCHANGED <<lists, entries>> PROVE OrderKept
  BY <1>1, <1>2 DEF OrderKept
<1>3. ASSUME NEW STATE D, NEW STATE U, DropLists(D, U) PROVE OrderKept
  BY <1>1, <1>3 DEF OrderKept, DropLists, Delete, Restrict
<1>4. ASSUME NEW u \in Users, Sync(u) PROVE OrderKept
  <2>1. ASSUME NEW req \in SUBSET Lists, NEW since \in Cursors, UpdateDeletedLists(u, req, since)
        PROVE  OrderKept
    BY <1>3, <2>1 DEF UpdateDeletedLists
  <2>2. ASSUME NEW req \in ListUploads, UpdateChangedLists(u, req) PROVE OrderKept
    <3> DEFINE old == ListsToUpdate(u, req)
    <3>1. \A l \in old : req[l] \in Nat /\ lists[l].changed <= req[l] /\ l \in DOMAIN lists
      BY <1>1, SchemaAssumption DEF ListsToUpdate, Considered, ListUploads, Table, Stamps
    <3>2. \A l \in old : lists[l].changed <= Sec(req[l]) /\ Sec(req[l]) \in Nat
      BY <3>1, LaterIsNotEarlier, SecFacts DEF DatesPast, Past
    <3>3. \A l \in DOMAIN lists \cap DOMAIN lists' :
            lists'[l].changed = IF l \in old THEN Sec(req[l]) ELSE lists[l].changed
      BY <2>2 DEF UpdateChangedLists, ListsToInsert, Put
    <3>4. entries' = entries
      BY <2>2 DEF UpdateChangedLists
    <3> QED BY <1>1, <3>2, <3>3, <3>4 DEF OrderKept
  <2>3. ASSUME NEW req \in EntryDeletions, NEW since \in Cursors,
               UpdateDeletedEntries(u, req, since)
        PROVE  OrderKept
    BY <1>1, <2>3 DEF UpdateDeletedEntries, Delete, Restrict, OrderKept
  <2>4. ASSUME NEW req \in EntryUploads, NEW since \in Cursors,
               UpdateChangedEntries(u, req, since)
        PROVE  OrderKept
    <3> DEFINE E == EntriesToWrite(u, req, since)
    <3>1. \A e \in E \cap DOMAIN entries :
            req[e].changed \in Nat /\ entries[e].changed <= req[e].changed
      BY <1>1, SchemaAssumption DEF EntryUploads, Table, Stamps, EntriesToWrite, CheckedItems
    <3>2. \A e \in E \cap DOMAIN entries :
            entries[e].changed <= Sec(req[e].changed) /\ Sec(req[e].changed) \in Nat
      BY <3>1, LaterIsNotEarlier, SecFacts DEF DatesPast, Past
    <3>3. \A e \in DOMAIN entries \cap DOMAIN entries' :
            /\ entries'[e].changed = IF e \in E THEN Sec(req[e].changed) ELSE entries[e].changed
            /\ entries'[e].updated = IF e \in E THEN Sec(clock) ELSE entries[e].updated
      BY <2>4 DEF UpdateChangedEntries, Put
    <3>4. lists' = lists /\ Sec(clock) \in Nat
      BY <1>1, <2>4, SecFacts DEF UpdateChangedEntries
    <3> QED BY <1>1, <3>2, <3>3, <3>4 DEF OrderKept
  <2> QED BY <1>4, <2>1, <2>2, <2>3, <2>4 DEF Sync
<1>5. ASSUME NEW u \in Users, Edit(u) PROVE OrderKept
  <2>0. Sec(clock) \in Nat
    BY <1>1, SecFacts
  <2>1. ASSUME NEW l \in Lists, CreateList(u, l) PROVE OrderKept
    BY <1>1, <2>1 DEF CreateList, FreshList, Put, OrderKept
  <2>2. ASSUME NEW l \in Lists, ChangeList(u, l) PROVE OrderKept
    <3>1. \A m \in DOMAIN lists :
            lists'[m].changed = IF m = l THEN Sec(clock) ELSE lists[m].changed
      BY <2>2 DEF ChangeList, TypeOK, IsTable, ListRows
    <3> QED BY <1>1, <2>0, <2>2, <3>1 DEF ChangeList, OrderKept
  <2>3. ASSUME NEW l \in Lists, DeleteList(u, l) PROVE OrderKept
    BY <1>3, <2>3 DEF DeleteList
  <2>4. ASSUME NEW l \in Lists, NEW e \in Entries, NEW tip \in Tips, CreateEntry(u, l, e, tip)
        PROVE  OrderKept
    BY <1>1, <2>4 DEF CreateEntry, FreshEntry, Put, OrderKept
  <2>5. ASSUME NEW e \in Entries, NEW tip \in Tips, ChangeEntry(u, e, tip) PROVE OrderKept
    <3>1. \A f \in DOMAIN entries :
            /\ entries'[f].changed = IF f = e THEN Sec(clock) ELSE entries[f].changed
            /\ entries'[f].updated = entries[f].updated
      BY <2>5 DEF ChangeEntry, TypeOK, IsTable, EntryRows
    <3> QED BY <1>1, <2>0, <2>5, <3>1 DEF ChangeEntry, OrderKept
  <2>6. ASSUME NEW e \in Entries, DeleteEntry(u, e) PROVE OrderKept
    BY <1>1, <2>6 DEF DeleteEntry, Delete, Restrict, OrderKept
  <2> QED BY <1>5, <2>1, <2>2, <2>3, <2>4, <2>5, <2>6 DEF Edit
<1>6. ASSUME NEW u \in Users, Share(u) PROVE OrderKept
  BY <1>2, <1>6 DEF Share, GenerateShareCode, UseShareCode, RemoveSharingUser
<1>7. ASSUME NEW u \in Users, Account(u) PROVE OrderKept
  BY <1>2, <1>3, <1>7 DEF Account, RegisterUser, DeleteUser
<1>8. CASE Tick
  BY <1>2, <1>8 DEF Tick
<1>9. CASE UNCHANGED vars
  BY <1>2, <1>9 DEF vars
<1> QED BY <1>4, <1>5, <1>6, <1>7, <1>8, <1>9 DEF Next

\* No upload and no edit ever moves a list or an entry back in time.
THEOREM OrderOfChangesKept == Spec => ChangedNeverRegresses
<1>1. TypeOK /\ DatesPast /\ [Next]_vars => [OrderKept]_vars
  BY NextOrderKept
<1>2. Spec => [][OrderKept]_vars
  BY <1>1, TypeCorrect, DatesInvariant, PTL DEF Spec
<1> QED BY <1>2 DEF ChangedNeverRegresses, OrderKept
-----------------------------------------------------------------------------
(* What is deleted leaves a trace *)

\* One step of EntryDeletionRecorded.
EntriesBuried ==
  \A e \in DOMAIN entries \ DOMAIN entries' :
    \/ entries[e].list \notin DOMAIN lists'
    \/ /\ e \in DOMAIN deleted_entry' /\ deleted_entry'[e].created = Sec(clock)
       /\ OneListPerEntry => deleted_entry'[e].list = entries[e].list

\* Who deletes an entry, and not its list, leaves a tombstone; it is one of the
\* entry's list if that is the list that every client names.
LEMMA NextEntriesBuried == EntriesWhereNamed /\ [Next]_vars => EntriesBuried
<1> SUFFICES ASSUME EntriesWhereNamed, [Next]_vars PROVE EntriesBuried
  OBVIOUS
<1> USE DEF accounts, listTables, entryTables, tombstones
<1>1. ASSUME DOMAIN entries \subseteq DOMAIN entries' PROVE EntriesBuried
  BY <1>1 DEF EntriesBuried
<1>2. ASSUME NEW STATE D, NEW STATE U, DropLists(D, U) PROVE EntriesBuried
  BY <1>2 DEF DropLists, Delete, Restrict, EntriesBuried
<1>3. ASSUME NEW u \in Users, Sync(u) PROVE EntriesBuried
  <2>1. ASSUME NEW req \in SUBSET Lists, NEW since \in Cursors, UpdateDeletedLists(u, req, since)
        PROVE  EntriesBuried
    BY <1>2, <2>1 DEF UpdateDeletedLists
  <2>2. ASSUME NEW req \in ListUploads, UpdateChangedLists(u, req) PROVE EntriesBuried
    BY <1>1, <2>2 DEF UpdateChangedLists
  <2>3. ASSUME NEW req \in EntryDeletions, NEW since \in Cursors,
               UpdateDeletedEntries(u, req, since)
        PROVE  EntriesBuried
    <3> DEFINE gone == EntriesToDelete(u, req, since)
    <3>1. gone \subseteq DOMAIN req \cap DOMAIN entries
      BY DEF EntriesToDelete
    <3>2. \A e \in gone : <<e, req[e]>> \in EntryRefs /\ <<e, entries[e].list>> \in EntryRefs
      BY <3>1 DEF EntryDeletions, EntriesWhereNamed
    <3>3. OneListPerEntry => \A e \in gone : req[e] = entries[e].list
      BY <3>2 DEF OneListPerEntry
    <3>4. \A e \in gone : /\ e \in DOMAIN deleted_entry'
                         /\ deleted_entry'[e].list = req[e]
                         /\ deleted_entry'[e].created = Sec(clock)
      BY <2>3 DEF UpdateDeletedEntries, Put
    <3>5. \A e \in DOMAIN entries \ DOMAIN entries' : e \in gone
      BY <2>3 DEF UpdateDeletedEntries, Delete, Restrict
    <3>6. \A e \in gone : OneListPerEntry => deleted_entry'[e].list = entries[e].list
      BY <3>3, <3>4
    <3> HIDE DEF gone
    <3> QED BY <3>4, <3>5, <3>6 DEF EntriesBuried
  <2>4. ASSUME NEW req \in EntryUploads, NEW since \in Cursors,
               UpdateChangedEntries(u, req, since)
        PROVE  EntriesBuried
    BY <1>1, <2>4 DEF UpdateChangedEntries, Put
  <2> QED BY <1>3, <2>1, <2>2, <2>3, <2>4 DEF Sync
<1>4. ASSUME NEW u \in Users, Edit(u) PROVE EntriesBuried
  <2>1. ASSUME NEW l \in Lists, CreateList(u, l) \/ ChangeList(u, l) PROVE EntriesBuried
    BY <1>1, <2>1 DEF CreateList, ChangeList
  <2>2. ASSUME NEW l \in Lists, DeleteList(u, l) PROVE EntriesBuried
    BY <1>2, <2>2 DEF DeleteList
  <2>3. ASSUME NEW l \in Lists, NEW e \in Entries, NEW tip \in Tips, CreateEntry(u, l, e, tip)
        PROVE  EntriesBuried
    BY <1>1, <2>3 DEF CreateEntry, Put
  <2>4. ASSUME NEW e \in Entries, NEW tip \in Tips, ChangeEntry(u, e, tip) PROVE EntriesBuried
    BY <1>1, <2>4 DEF ChangeEntry
  <2>5. ASSUME NEW e \in Entries, DeleteEntry(u, e) PROVE EntriesBuried
    BY <2>5 DEF DeleteEntry, Delete, Restrict, Put, EntriesBuried
  <2> QED BY <1>4, <2>1, <2>2, <2>3, <2>4, <2>5 DEF Edit
<1>5. ASSUME NEW u \in Users, Share(u) PROVE EntriesBuried
  BY <1>1, <1>5 DEF Share, GenerateShareCode, UseShareCode, RemoveSharingUser
<1>6. ASSUME NEW u \in Users, Account(u) PROVE EntriesBuried
  BY <1>1, <1>2, <1>6 DEF Account, RegisterUser, DeleteUser
<1>7. CASE Tick
  BY <1>1, <1>7 DEF Tick
<1>8. CASE UNCHANGED vars
  BY <1>1, <1>8 DEF vars
<1> QED BY <1>3, <1>4, <1>5, <1>6, <1>7, <1>8 DEF Next

\* No entry is ever lost without a tombstone, which the readers of its list are
\* sent if the apps agree on which list that is.
THEOREM NoEntryLost == Spec => EntryDeletionRecorded
<1>1. Spec => [][EntriesBuried]_vars
  BY WhereNamed, NextEntriesBuried, PTL DEF Spec
<1> QED BY <1>1 DEF EntryDeletionRecorded, EntriesBuried

\* One step of SharedDeletionRecorded.
SharesBuried ==
  \A p \in DOMAIN list_permissions :
    p[2] \notin DOMAIN lists' =>
      \/ p \in DOMAIN deleted_list_shared' /\ deleted_list_shared'[p] = Sec(clock)
      \/ p[1] \notin DOMAIN users'

\* Whoever deletes a list as an app, or an account, buries its shares first.
LEMMA NextSharesBuried == TypeInv /\ [AppNext]_vars => SharesBuried
<1> SUFFICES ASSUME TypeOK, ForeignKeys, [AppNext]_vars PROVE SharesBuried
  BY DEF TypeInv
<1> USE DEF accounts, listTables, entryTables, tombstones
<1>1. ASSUME DOMAIN lists \subseteq DOMAIN lists' PROVE SharesBuried
  BY <1>1 DEF SharesBuried, ForeignKeys
<1>2. ASSUME NEW u \in Users, Sync(u) PROVE SharesBuried
  <2>1. ASSUME NEW req \in SUBSET Lists, NEW since \in Cursors, UpdateDeletedLists(u, req, since)
        PROVE  SharesBuried
    <3> DEFINE filtered == ListsToDelete(u, req, since)
    <3>1. DOMAIN lists' = DOMAIN lists \ filtered
      BY <2>1 DEF UpdateDeletedLists, DropLists, Delete, Restrict
    <3>2. \A p \in Shares(filtered) :
            p \in DOMAIN deleted_list_shared' /\ deleted_list_shared'[p] = Sec(clock)
      BY <2>1 DEF UpdateDeletedLists, Put
    <3>3. \A p \in DOMAIN list_permissions : p[2] \in filtered => p \in Shares(filtered)
      BY DEF Shares
    <3> QED BY <3>1, <3>2, <3>3 DEF SharesBuried, ForeignKeys
  <2>2. ASSUME NEW req \in ListUploads, UpdateChangedLists(u, req) PROVE SharesBuried
    BY <1>1, <2>2 DEF UpdateChangedLists, Put
  <2>3. ASSUME NEW req \in EntryDeletions, NEW since \in Cursors,
               UpdateDeletedEntries(u, req, since)
        PROVE  SharesBuried
    BY <1>1, <2>3 DEF UpdateDeletedEntries
  <2>4. ASSUME NEW req \in EntryUploads, NEW since \in Cursors,
               UpdateChangedEntries(u, req, since)
        PROVE  SharesBuried
    BY <1>1, <2>4 DEF UpdateChangedEntries
  <2> QED BY <1>2, <2>1, <2>2, <2>3, <2>4 DEF Sync
<1>3. ASSUME NEW u \in Users, Share(u) PROVE SharesBuried
  BY <1>1, <1>3 DEF Share, GenerateShareCode, UseShareCode, RemoveSharingUser
<1>4. ASSUME NEW u \in Users, Account(u) PROVE SharesBuried
  <2>1. CASE RegisterUser(u)
    BY <1>1, <2>1 DEF RegisterUser
  <2>2. CASE DeleteUser(u)
    <3>1. DOMAIN lists' = DOMAIN lists \ Owned(u)
      BY <2>2 DEF DeleteUser, DropLists, Delete, Restrict
    <3>2. \A p \in SharesToBury(u) \ ({u} \X Lists) :
            p \in DOMAIN deleted_list_shared' /\ deleted_list_shared'[p] = Sec(clock)
      BY <2>2 DEF DeleteUser, Delete, Restrict, Put
    <3>3. \A p \in DOMAIN list_permissions : p[2] \in Owned(u) => p \in SharesToBury(u)
      BY DEF SharesToBury, Shares
    <3>4. \A p \in {u} \X Lists : p[1] \notin DOMAIN users'
      BY <2>2 DEF DeleteUser, Delete, Restrict
    <3> QED BY <3>1, <3>2, <3>3, <3>4 DEF SharesBuried, ForeignKeys
  <2> QED BY <1>4, <2>1, <2>2 DEF Account
<1>5. CASE Tick
  BY <1>1, <1>5 DEF Tick
<1>6. CASE UNCHANGED vars
  BY <1>1, <1>6 DEF vars
<1> QED BY <1>2, <1>3, <1>4, <1>5, <1>6 DEF AppNext

\* While only apps delete lists, whoever shared a list learns that it is gone.
THEOREM SharedDeletionsTold == AppSpec => SharedDeletionRecorded
<1>1. [AppNext]_vars => [Next]_vars
  BY DEF AppNext, Next
<1>2. AppSpec => Spec
  BY <1>1, PTL DEF AppSpec, Spec
<1>3. AppSpec => []TypeInv
  BY <1>2, TypesAndKeys, PTL
<1>4. AppSpec => [][SharesBuried]_vars
  BY <1>3, NextSharesBuried, PTL DEF AppSpec
<1> QED BY <1>4 DEF SharedDeletionRecorded, SharesBuried
-----------------------------------------------------------------------------
(* Tombstones stay *)

\* One step of TombstonesKept, table by table.
OwnersTombstonesKept ==
  \A l \in DOMAIN deleted_list :
    \/ l \in DOMAIN deleted_list' /\ deleted_list'[l] = deleted_list[l]
    \/ deleted_list[l].user \notin DOMAIN users'
SharesTombstonesKept ==
  \A p \in DOMAIN deleted_list_shared :
    \/ p \in DOMAIN deleted_list_shared' /\ deleted_list_shared'[p] = deleted_list_shared[p]
    \/ p[1] \notin DOMAIN users'
EntriesTombstonesKept ==
  \A e \in DOMAIN deleted_entry :
    \/ e \in DOMAIN deleted_entry' /\ deleted_entry'[e] = deleted_entry[e]
    \/ deleted_entry[e].list \notin DOMAIN lists'
AllKept ==
  /\ OwnersTombstonesKept
  /\ SharesTombstonesKept
  /\ EntriesTombstonesKept

\* Each INSERT of a tombstone is one that IGNOREs, or fails on, a key that is there.
LEMMA NextTombstonesKept == [Next]_vars => AllKept
<1> SUFFICES ASSUME [Next]_vars PROVE AllKept
  OBVIOUS
<1> USE DEF accounts, listTables, entryTables, tombstones, AllKept
<1>1. UNCHANGED tombstones => OwnersTombstonesKept /\ SharesTombstonesKept
  BY DEF OwnersTombstonesKept, SharesTombstonesKept
<1>2. UNCHANGED deleted_entry => EntriesTombstonesKept
  BY DEF EntriesTombstonesKept
<1>3. ASSUME NEW STATE D, NEW STATE U, DropLists(D, U) PROVE EntriesTombstonesKept
  BY <1>3 DEF DropLists, Delete, Restrict, EntriesTombstonesKept
<1>4. ASSUME NEW u \in Users, Sync(u) PROVE AllKept
  <2>1. ASSUME NEW req \in SUBSET Lists, NEW since \in Cursors, UpdateDeletedLists(u, req, since)
        PROVE  AllKept
    <3>1. OwnersTombstonesKept
      BY <2>1 DEF UpdateDeletedLists, InsertIgnore, Put, OwnersTombstonesKept
    <3>2. SharesTombstonesKept
      BY <2>1 DEF UpdateDeletedLists, UpdateDeletedListsFails, Put, SharesTombstonesKept
    <3> QED BY <1>3, <2>1, <3>1, <3>2 DEF UpdateDeletedLists
  <2>2. ASSUME NEW req \in ListUploads, UpdateChangedLists(u, req) PROVE AllKept
    BY <1>1, <1>2, <2>2 DEF UpdateChangedLists
  <2>3. ASSUME NEW req \in EntryDeletions, NEW since \in Cursors,
               UpdateDeletedEntries(u, req, since)
        PROVE  AllKept
    <3>1. EntriesTombstonesKept
      BY <2>3 DEF UpdateDeletedEntries, UpdateDeletedEntriesFails, Put, EntriesTombstonesKept
    <3> QED BY <1>1, <2>3, <3>1 DEF UpdateDeletedEntries
  <2>4. ASSUME NEW req \in EntryUploads, NEW since \in Cursors,
               UpdateChangedEntries(u, req, since)
        PROVE  AllKept
    BY <1>1, <1>2, <2>4 DEF UpdateChangedEntries
  <2> QED BY <1>4, <2>1, <2>2, <2>3, <2>4 DEF Sync
<1>5. ASSUME NEW u \in Users, Edit(u) PROVE AllKept
  <2>1. ASSUME NEW l \in Lists, CreateList(u, l) \/ ChangeList(u, l) PROVE AllKept
    BY <1>1, <1>2, <2>1 DEF CreateList, ChangeList
  <2>2. ASSUME NEW l \in Lists, DeleteList(u, l) PROVE AllKept
    <3>1. OwnersTombstonesKept
      BY <2>2 DEF DeleteList, Put, OwnersTombstonesKept
    <3>2. SharesTombstonesKept
      BY <2>2 DEF DeleteList, SharesTombstonesKept
    <3> QED BY <1>3, <2>2, <3>1, <3>2 DEF DeleteList
  <2>3. ASSUME NEW l \in Lists, NEW e \in Entries, NEW tip \in Tips, CreateEntry(u, l, e, tip)
        PROVE  AllKept
    BY <1>1, <1>2, <2>3 DEF CreateEntry
  <2>4. ASSUME NEW e \in Entries, NEW tip \in Tips, ChangeEntry(u, e, tip) PROVE AllKept
    BY <1>1, <1>2, <2>4 DEF ChangeEntry
  <2>5. ASSUME NEW e \in Entries, DeleteEntry(u, e) PROVE AllKept
    <3>1. EntriesTombstonesKept
      BY <2>5 DEF DeleteEntry, Put, EntriesTombstonesKept
    <3> QED BY <1>1, <2>5, <3>1 DEF DeleteEntry
  <2> QED BY <1>5, <2>1, <2>2, <2>3, <2>4, <2>5 DEF Edit
<1>6. ASSUME NEW u \in Users, Share(u) PROVE AllKept
  BY <1>1, <1>2, <1>6 DEF Share, GenerateShareCode, UseShareCode, RemoveSharingUser
<1>7. ASSUME NEW u \in Users, Account(u) PROVE AllKept
  <2>1. CASE RegisterUser(u)
    BY <1>1, <1>2, <2>1 DEF RegisterUser
  <2>2. CASE DeleteUser(u)
    <3>1. OwnersTombstonesKept
      BY <2>2 DEF DeleteUser, Delete, Restrict, OwnersTombstonesKept
    <3>2. \A p \in DOMAIN deleted_list_shared : p \in {u} \X Lists => p[1] = u
      OBVIOUS
    <3>3. SharesTombstonesKept
      BY <2>2, <3>2 DEF DeleteUser, DeleteUserFails, Delete, Restrict, Put, SharesTombstonesKept
    <3> QED BY <1>3, <2>2, <3>1, <3>3 DEF DeleteUser
  <2> QED BY <1>7, <2>1, <2>2 DEF Account
<1>8. CASE Tick
  BY <1>1, <1>2, <1>8 DEF Tick
<1>9. CASE UNCHANGED vars
  BY <1>1, <1>2, <1>9 DEF vars
<1> QED BY <1>4, <1>5, <1>6, <1>7, <1>8, <1>9 DEF Next

\* A tombstone that was sent once is there, under its date, for every later
\* request: no deletion takes the place of an earlier one of the same uuid.
THEOREM TombstonesStay == Spec => TombstonesKept
<1>1. Spec => [][AllKept]_vars
  BY NextTombstonesKept, PTL DEF Spec
<1> QED BY <1>1 DEF TombstonesKept, AllKept, OwnersTombstonesKept, SharesTombstonesKept,
                    EntriesTombstonesKept
=============================================================================
