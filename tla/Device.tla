------------------------------- MODULE Device -------------------------------
(***************************************************************************)
(* One app of one user, the Viewer: what it keeps is what the deltas told it    *)
(* and, of entries, what it edited itself since then.  The time a response      *)
(* carries is the "since" of its next request (src/sync/models.rs).  The app is  *)
(* external code, known from the requests and responses.  Deltas are complete if *)
(* the app, whenever it last asked, either has what the server has or will be     *)
(* sent it next time.                                                          *)
(***************************************************************************)
EXTENDS Server

CONSTANT Viewer
ASSUME ViewerAssumption == Viewer \in Users

VARIABLES
  listSince, deletedListSince, entrySince, deletedEntrySince,
  myLists,   \* list -> changed
  myEntries, \* entry -> [list, changed, tip]
  edited,    \* the entries edited in the app since the last upload
  removed    \* entry -> list: those deleted in the app since the last upload

listApp == <<listSince, deletedListSince, myLists>>
entryApp == <<entrySince, deletedEntrySince, myEntries, edited, removed>>
deviceVars == <<vars, listApp, entryApp>>

DeviceInit ==
  /\ listSince = 0 /\ deletedListSince = 0 /\ entrySince = 0 /\ deletedEntrySince = 0
  /\ myLists = Empty /\ myEntries = Empty
  /\ edited = {} /\ removed = Empty

\* What the app keeps of a row.
Copy(row) == [list |-> row.list, changed |-> row.changed, tip |-> row.tip]

PullDeletedLists ==
  /\ UpdateDeletedLists(Viewer, {}, deletedListSince)
  /\ myLists' = Delete(myLists, DeletedListsDelta(Viewer, {}, deletedListSince))
  /\ deletedListSince' = clock
  /\ UNCHANGED <<listSince, entryApp>>

PullChangedLists ==
  /\ UpdateChangedLists(Viewer, Empty)
  /\ myLists' = Put(myLists, [l \in ChangedListsDelta(Viewer, listSince) |-> lists[l].changed])
  /\ listSince' = clock
  /\ UNCHANGED <<deletedListSince, entryApp>>

\* The upload has what was deleted in the app, which no longer wants it.
SyncDeletedEntries ==
  LET gone == DOMAIN removed \cup DeletedEntriesDelta(Viewer, deletedEntrySince)
  IN  /\ UpdateDeletedEntries(Viewer, removed, deletedEntrySince)
      /\ myEntries' = Delete(myEntries, gone)
      /\ edited' = edited \ gone
      /\ removed' = Empty
      /\ deletedEntrySince' = clock
      /\ UNCHANGED <<entrySince, listApp>>

\* The upload has what was edited in the app.
SyncChangedEntries ==
  LET upload == [e \in edited |-> myEntries[e]]
  IN  /\ UpdateChangedEntries(Viewer, upload, entrySince)
      /\ myEntries' = Put(myEntries, [e \in ChangedEntriesDelta(Viewer, upload, entrySince) |->
                                        Copy(entries[e])])
      /\ edited' = {}
      /\ entrySince' = clock
      /\ UNCHANGED <<deletedEntrySince, removed, listApp>>

\* The app's clock is right, and has a fraction: an edit dated as the stored one
\* is would be ignored without an answer (see README).
EditOffline(e, tip) ==
  /\ e \in DOMAIN myEntries /\ clock # Sec(clock)
  /\ myEntries' = Put(myEntries, [f \in {e} |->
       [list |-> myEntries[e].list, changed |-> clock, tip |-> tip]])
  /\ edited' = edited \cup {e}
  /\ UNCHANGED <<vars, entrySince, deletedEntrySince, removed, listApp>>

RemoveOffline(e) ==
  /\ e \in DOMAIN myEntries
  /\ myEntries' = Delete(myEntries, {e})
  /\ edited' = edited \ {e}
  /\ removed' = Put(removed, [f \in {e} |-> myEntries[e].list])
  /\ UNCHANGED <<vars, entrySince, deletedEntrySince, listApp>>

\* A step of the server that this app has no part in.
Elsewhere(A) == A /\ UNCHANGED <<listApp, entryApp>>
-----------------------------------------------------------------------------
Sharing(u) ==
  \/ \E l \in Lists, t \in Tokens, deadline \in Deadlines, write \in BOOLEAN :
       GenerateShareCode(u, l, t, deadline, write, FALSE)
  \/ \E t \in Tokens : UseShareCode(u, t)

\* Lists made and renamed on the server, shared, and deleted by apps or
\* with the accounts of others.
ListWork(u) ==
  \/ RegisterUser(u)
  \/ \E l \in Lists : CreateList(u, l)
  \/ \E l \in Lists : ChangeList(u, l)
  \/ \E req \in SUBSET Lists : UpdateDeletedLists(u, req, 0)
  \/ u # Viewer /\ DeleteUser(u)
  \/ Sharing(u)

\* Lists that stay, and apps that write and delete their entries (what is
\* written does not depend on the since of an upload).
EntryWork(u) ==
  \/ RegisterUser(u)
  \/ \E l \in Lists : CreateList(u, l)
  \/ Sharing(u)
  \/ \E req \in EntryDeletions : UpdateDeletedEntries(u, req, 0)
  \/ \E req \in EntryUploads : UpdateChangedEntries(u, req, 0)

ListsNext ==
  \/ Elsewhere(Tick)
  \/ \E u \in Users : Elsewhere(ListWork(u))
  \/ PullDeletedLists
  \/ PullChangedLists
ListsSpec == Init /\ DeviceInit /\ [][ListsNext]_deviceVars

EntriesNext ==
  \/ Elsewhere(Tick)
  \/ \E u \in Users : Elsewhere(EntryWork(u))
  \/ SyncDeletedEntries
  \/ SyncChangedEntries
  \/ \E e \in Entries : RemoveOffline(e) \/ \E tip \in Tips : EditOffline(e, tip)
EntriesSpec == Init /\ DeviceInit /\ [][EntriesNext]_deviceVars

\* The same with lists that apps made offline and upload later.
UploadedListsSpec ==
  Init /\ DeviceInit /\
  [][ListsNext \/ \E u \in Users, req \in ListUploads :
                    Elsewhere(UpdateChangedLists(u, req))]_deviceVars

-----------------------------------------------------------------------------
\* The app has e as the server stores it, or has a version of its own to upload.
HasEntry(e) ==
  \/ e \in edited \cup DOMAIN removed
  \/ /\ e \in DOMAIN myEntries
     /\ [myEntries[e] EXCEPT !.changed = Sec(@)] = Copy(entries[e])

\* Whatever list the Viewer can read is in the app as it is on the server, or
\* will be sent next time.
NoListMissed ==
  \A l \in Readable(Viewer) :
    \/ l \in DOMAIN myLists /\ myLists[l] = lists[l].changed
    \/ l \in ChangedListsDelta(Viewer, listSince)

\* A list of the app that is gone from the server is in the next deletions.
NoListDeletionMissed ==
  \A l \in DOMAIN myLists \ Readable(Viewer) :
    l \in DeletedListsDelta(Viewer, {}, deletedListSince)

\* Every entry of the Viewer's own lists is in the app as it is on the server,
\* or will be sent next time, even if it changed within the second of the request
\* and whoever wins when the app and others edit it.
NoOwnEntryMissed ==
  \A e \in DOMAIN entries :
    entries[e].list \in Owned(Viewer) =>
      HasEntry(e) \/ e \in ChangedEntriesDelta(Viewer, Empty, entrySince)

\* The same for every list the Viewer can read.
NoReadableEntryMissed ==
  \A e \in DOMAIN entries :
    entries[e].list \in Readable(Viewer) =>
      HasEntry(e) \/ e \in ChangedEntriesDelta(Viewer, Empty, entrySince)

\* An entry of the app that was deleted on the server is in the next deletions.
NoEntryDeletionMissed ==
  \A e \in DOMAIN myEntries \ DOMAIN entries :
    myEntries[e].list \in Readable(Viewer) =>
      e \in DeletedEntriesDelta(Viewer, deletedEntrySince)
=============================================================================
