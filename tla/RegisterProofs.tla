--------------------------- MODULE RegisterProofs ---------------------------
(***************************************************************************)
(* Server implements EntryRegister, for every value of the constants.  Each     *)
(* request is one step of the register: what only touches lists, shares and     *)
(* accounts is Open, what writes entries is Write, what deletes them is Bury     *)
(* and what deletes lists is Close.                                            *)
(***************************************************************************)
EXTENDS SafetyProofs

\* Entries and their tombstones as they are, and no list gone.
LEMMA OpenStep ==
  ASSUME UNCHANGED entryTables, DOMAIN lists \subseteq DOMAIN lists'
  PROVE  Register!Open
BY DEF Register!Open, Living, Buried, entryTables

\* Entries that are new in a list, or have an edit of no earlier second than before.
LEMMA WriteStep ==
  ASSUME UNCHANGED <<lists, deleted_entry>>, OrderKept,
         DOMAIN entries \subseteq DOMAIN entries',
         \A e \in DOMAIN entries : entries'[e].list = entries[e].list,
         \A e \in DOMAIN entries' \ DOMAIN entries :
           e \notin DOMAIN deleted_entry /\ entries'[e].list \in DOMAIN lists
  PROVE  Register!Write
<1>1. /\ DOMAIN Living = DOMAIN entries /\ (DOMAIN Living)' = DOMAIN entries'
      /\ DOMAIN Buried = DOMAIN deleted_entry
      /\ UNCHANGED <<DOMAIN lists, Buried>>
  BY DEF Living, Buried
<1>2. /\ \A e \in DOMAIN entries : Living[e].list = entries[e].list
      /\ \A e \in DOMAIN entries : Living[e].changed = entries[e].changed
      /\ \A e \in DOMAIN entries' : Living'[e].list = entries'[e].list
      /\ \A e \in DOMAIN entries' : Living'[e].changed = entries'[e].changed
  BY DEF Living
<1>3. \A e \in DOMAIN entries : entries'[e].changed >= entries[e].changed
  BY DEF OrderKept
<1> QED BY <1>1, <1>2, <1>3 DEF Register!Write

\* Entries that go, each with a tombstone in a list.
LEMMA BuryStep ==
  ASSUME NEW STATE gone, NEW STATE rows,
         UNCHANGED lists, DeletionWins,
         gone \subseteq DOMAIN entries, DOMAIN rows = gone,
         \A e \in gone : rows[e].list \in DOMAIN lists,
         entries' = Delete(entries, gone), deleted_entry' = Put(deleted_entry, rows)
  PROVE  Register!Bury
<1>1. /\ DOMAIN entries' = DOMAIN entries \ gone
      /\ \A e \in DOMAIN entries' : entries'[e] = entries[e]
  BY DEF Delete, Restrict
<1>2. /\ DOMAIN deleted_entry' = DOMAIN deleted_entry \cup gone
      /\ \A e \in DOMAIN deleted_entry' :
           deleted_entry'[e] = IF e \in gone THEN rows[e] ELSE deleted_entry[e]
  BY DEF Put
<1>3. DOMAIN entries \cap DOMAIN deleted_entry = {}
  BY DEF DeletionWins
<1>4. /\ DOMAIN Living = DOMAIN entries /\ (DOMAIN Living)' = DOMAIN entries'
      /\ DOMAIN Buried = DOMAIN deleted_entry /\ (DOMAIN Buried)' = DOMAIN deleted_entry'
  BY DEF Living, Buried
<1>5. \A e \in DOMAIN entries' : Living'[e] = Living[e]
  BY <1>1 DEF Living
<1>6. \A e \in DOMAIN deleted_entry' :
        IF e \in DOMAIN deleted_entry THEN Buried'[e] = Buried[e] ELSE Buried'[e] \in DOMAIN lists
  BY <1>2, <1>3 DEF Buried
<1> QED BY <1>1, <1>2, <1>3, <1>4, <1>5, <1>6 DEF Register!Bury

\* Lists that go, with all that is in them.
LEMMA CloseStep ==
  ASSUME NEW STATE D, NEW STATE U, ForeignKeys, DropLists(D, U)
  PROVE  Register!Close
<1>1. DOMAIN lists' = DOMAIN lists \ D
  BY DEF DropLists, Delete, Restrict
<1>2. /\ DOMAIN entries' = {e \in DOMAIN entries : entries[e].list \in DOMAIN lists'}
      /\ \A e \in DOMAIN entries' : entries'[e] = entries[e]
  BY <1>1 DEF DropLists, Delete, Restrict, ForeignKeys
<1>3. /\ DOMAIN deleted_entry' = {e \in DOMAIN deleted_entry :
                                     deleted_entry[e].list \in DOMAIN lists'}
      /\ \A e \in DOMAIN deleted_entry' : deleted_entry'[e] = deleted_entry[e]
  BY <1>1 DEF DropLists, Delete, Restrict, ForeignKeys
<1>4. Living' = [e \in {f \in DOMAIN Living : Living[f].list \in DOMAIN lists'} |-> Living[e]]
  BY <1>2 DEF Living
<1>5. Buried' = [e \in {f \in DOMAIN Buried : Buried[f] \in DOMAIN lists'} |-> Buried[e]]
  BY <1>3 DEF Buried
<1> QED BY <1>1, <1>4, <1>5 DEF Register!Close
-----------------------------------------------------------------------------
\* Every request is a step of the register.
LEMMA NextRegister ==
  TypeInv /\ DeletionWins /\ DatesPast /\ [Next]_vars => [Register!Next]_Register!register
<1> SUFFICES ASSUME TypeOK, ForeignKeys, DeletionWins, DatesPast, [Next]_vars
             PROVE  Register!Next \/ UNCHANGED Register!register
  BY DEF TypeInv
<1> USE DEF listTables
<1>1. OrderKept
  BY NextOrderKept
<1>2. ASSUME UNCHANGED entryTables, DOMAIN lists \subseteq DOMAIN lists' PROVE Register!Next
  BY <1>2, OpenStep DEF Register!Next
<1>3. ASSUME NEW STATE D, NEW STATE U, DropLists(D, U) PROVE Register!Next
  BY <1>3, CloseStep DEF Register!Next
<1>4. ASSUME NEW u \in Users, Sync(u) PROVE Register!Next
  <2>1. ASSUME NEW req \in SUBSET Lists, NEW since \in Cursors, UpdateDeletedLists(u, req, since)
        PROVE  Register!Next
    BY <1>3, <2>1 DEF UpdateDeletedLists
  <2>2. ASSUME NEW req \in ListUploads, UpdateChangedLists(u, req) PROVE Register!Next
    BY <1>2, <2>2 DEF UpdateChangedLists, Put
  <2>3. ASSUME NEW req \in EntryDeletions, NEW since \in Cursors,
               UpdateDeletedEntries(u, req, since)
        PROVE  Register!Next
    <3> DEFINE gone == EntriesToDelete(u, req, since)
               rows == [e \in gone |-> [list |-> req[e], created |-> Sec(clock)]]
    <3>1. gone \subseteq DOMAIN entries
      BY DEF EntriesToDelete
    <3>2. DOMAIN rows = gone /\ \A e \in gone : rows[e].list \in DOMAIN lists
      BY <2>3 DEF UpdateDeletedEntries, UpdateDeletedEntriesFails
    <3>3. /\ UNCHANGED lists
          /\ entries' = Delete(entries, gone) /\ deleted_entry' = Put(deleted_entry, rows)
      BY <2>3 DEF UpdateDeletedEntries
    <3> HIDE DEF gone, rows
    <3>4. Register!Bury
      BY <3>1, <3>2, <3>3, BuryStep
    <3> QED BY <3>4 DEF Register!Next
  <2>4. ASSUME NEW req \in EntryUploads, NEW since \in Cursors,
               UpdateChangedEntries(u, req, since)
        PROVE  Register!Next
    <3> DEFINE E == EntriesToWrite(u, req, since)
    <3>1. \A e \in E : e \notin DOMAIN deleted_entry /\ req[e].list \in DOMAIN lists
      BY <2>4 DEF UpdateChangedEntries, UpdateChangedEntriesFails, EntriesToWrite
    <3>2. /\ UNCHANGED <<lists, deleted_entry>>
          /\ DOMAIN entries' = DOMAIN entries \cup E
          /\ \A e \in DOMAIN entries' :
               entries'[e].list = IF e \in DOMAIN entries THEN entries[e].list ELSE req[e].list
      BY <2>4 DEF UpdateChangedEntries, Put
    <3>3. Register!Write
      BY <1>1, <3>1, <3>2, WriteStep
    <3> QED BY <3>3 DEF Register!Next
  <2> QED BY <1>4, <2>1, <2>2, <2>3, <2>4 DEF Sync
<1>5. ASSUME NEW u \in Users, Edit(u) PROVE Register!Next
  <2>1. ASSUME NEW l \in Lists, CreateList(u, l) \/ ChangeList(u, l) PROVE Register!Next
    BY <1>2, <2>1 DEF CreateList, ChangeList, Put
  <2>2. ASSUME NEW l \in Lists, DeleteList(u, l) PROVE Register!Next
    BY <1>3, <2>2 DEF DeleteList
  <2>3. ASSUME NEW l \in Lists, NEW e \in Entries, NEW tip \in Tips, CreateEntry(u, l, e, tip)
        PROVE  Register!Next
    <3>1. e \notin DOMAIN entries \cup DOMAIN deleted_entry /\ l \in DOMAIN lists
      BY <2>3 DEF CreateEntry, FreshEntry, HasListPerm
    <3>2. /\ UNCHANGED <<lists, deleted_entry>>
          /\ DOMAIN entries' = DOMAIN entries \cup {e}
          /\ entries'[e].list = l
          /\ \A f \in DOMAIN entries : entries'[f] = entries[f]
      BY <2>3, <3>1 DEF CreateEntry, Put
    <3>3. Register!Write
      BY <1>1, <3>1, <3>2, WriteStep
    <3> QED BY <3>3 DEF Register!Next
  <2>4. ASSUME NEW e \in Entries, NEW tip \in Tips, ChangeEntry(u, e, tip) PROVE Register!Next
    <3>1. \A f \in DOMAIN entries : entries'[f].list = entries[f].list
      BY <2>4 DEF ChangeEntry, TypeOK, IsTable, EntryRows
    <3>2. UNCHANGED <<lists, deleted_entry>> /\ DOMAIN entries' = DOMAIN entries
      BY <2>4 DEF ChangeEntry
    <3>3. Register!Write
      BY <1>1, <3>1, <3>2, WriteStep
    <3> QED BY <3>3 DEF Register!Next
  <2>5. ASSUME NEW e \in Entries, DeleteEntry(u, e) PROVE Register!Next
    <3> DEFINE rows == [f \in {e} |-> [list |-> entries[e].list, created |-> Sec(clock)]]
    <3>1. {e} \subseteq DOMAIN entries
      BY <2>5 DEF DeleteEntry
    <3>2. DOMAIN rows = {e} /\ \A f \in {e} : rows[f].list \in DOMAIN lists
      BY <3>1 DEF ForeignKeys
    <3>3. /\ UNCHANGED lists
          /\ entries' = Delete(entries, {e}) /\ deleted_entry' = Put(deleted_entry, rows)
      BY <2>5 DEF DeleteEntry
    <3> HIDE DEF rows
    <3>4. Register!Bury
      BY <3>1, <3>2, <3>3, BuryStep
    <3> QED BY <3>4 DEF Register!Next
  <2> QED BY <1>5, <2>1, <2>2, <2>3, <2>4, <2>5 DEF Edit
<1>6. ASSUME NEW u \in Users, Share(u) PROVE Register!Next
  BY <1>2, <1>6 DEF Share, GenerateShareCode, UseShareCode, RemoveSharingUser
<1>7. ASSUME NEW u \in Users, Account(u) PROVE Register!Next
  BY <1>2, <1>3, <1>7 DEF Account, RegisterUser, DeleteUser
<1>8. CASE Tick
  BY <1>2, <1>8 DEF Tick
<1>9. CASE UNCHANGED vars
  BY <1>9 DEF vars, entryTables, Register!register, Living, Buried
<1> QED BY <1>4, <1>5, <1>6, <1>7, <1>8, <1>9 DEF Next

\* The server keeps what the register promises: whatever the order of requests, no
\* edit takes the place of one that was made in a later second (within a second it
\* may), nothing brings a deleted entry back while its list lives, and entries and
\* their tombstones go only as the register says.
THEOREM ServerImplementsRegister == Spec => ImplementsRegister
<1>1. Init => Register!Init
  BY DEF Init, SchemaInit, Empty, Register!Init, Living, Buried
<1>2. Spec => Register!Init /\ [][Register!Next]_Register!register
  BY <1>1, TypesAndKeys, DeletedEntriesStayDeleted, DatesInvariant, NextRegister, PTL DEF Spec
<1> QED BY <1>2 DEF ImplementsRegister, Register!Spec
=============================================================================
