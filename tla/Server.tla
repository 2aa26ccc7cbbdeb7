------------------------------- MODULE Server -------------------------------
(***************************************************************************)
(* All requests of all users against one database, one transaction after      *)
(* another.  A request that fails is rolled back and changes nothing, so it     *)
(* is no step here; the operators named ...Fails say which ones do.            *)
(***************************************************************************)
EXTENDS SyncLists, SyncEntries, ListsApi, Accounts

\* Uploads are tables too: one item per uuid.
Table(Keys, Rows) == UNION {[K -> Rows] : K \in SUBSET Keys}
ListUploads == Table(Lists, Stamps)
EntryUploads ==
  {req \in Table(Entries, [list: Lists, changed: Stamps, tip: Tips]) :
     \A e \in DOMAIN req : <<e, req[e].list>> \in EntryRefs}
EntryDeletions ==
  {req \in Table(Entries, Lists) : \A e \in DOMAIN req : <<e, req[e]>> \in EntryRefs}

\* The app: uploads made offline, under the change dates of its own clock.
Sync(u) ==
  \/ \E req \in SUBSET Lists, since \in Cursors : UpdateDeletedLists(u, req, since)
  \/ \E req \in ListUploads : UpdateChangedLists(u, req)
  \/ \E req \in EntryDeletions, since \in Cursors : UpdateDeletedEntries(u, req, since)
  \/ \E req \in EntryUploads, since \in Cursors : UpdateChangedEntries(u, req, since)

\* The web client.
Edit(u) ==
  \/ \E l \in Lists : CreateList(u, l)
  \/ \E l \in Lists : ChangeList(u, l)
  \/ \E l \in Lists : DeleteList(u, l)
  \/ \E l \in Lists, e \in Entries, tip \in Tips :
       <<e, l>> \in EntryRefs /\ CreateEntry(u, l, e, tip)
  \/ \E e \in Entries, tip \in Tips : ChangeEntry(u, e, tip)
  \/ \E e \in Entries : DeleteEntry(u, e)

Share(u) ==
  \/ \E l \in Lists, t \in Tokens, deadline \in Deadlines, write, reusable \in BOOLEAN :
       GenerateShareCode(u, l, t, deadline, write, reusable)
  \/ \E t \in Tokens : UseShareCode(u, t)
  \/ \E l \in Lists, v \in Users : RemoveSharingUser(u, l, v)

Account(u) == RegisterUser(u) \/ DeleteUser(u)

Init == SchemaInit
Next == Tick \/ \E u \in Users : Sync(u) \/ Edit(u) \/ Share(u) \/ Account(u)
Spec == Init /\ [][Next]_vars

\* Without the web client's editing, as when everyone uses the app.
AppNext == Tick \/ \E u \in Users : Sync(u) \/ Share(u) \/ Account(u)
AppSpec == Init /\ [][AppNext]_vars
-----------------------------------------------------------------------------
(* Safety *)

\* The tables hold rows of their types, and no row points to one that is gone.
TypeInv == TypeOK /\ ForeignKeys

\* Nobody owns a list that the server tells them is deleted: sync never sends
\* a device the tombstone of a list the same user could still be editing.
NoOwnedTombstone ==
  \A l \in DOMAIN lists : l \notin OwnTombstones(lists[l].owner, 0)

\* An entry is never both alive and deleted, whatever order uploads of its
\* change and of its deletion arrive in: deletion wins.
DeletionWins == DOMAIN entries \cap DOMAIN deleted_entry = {}

\* No row is dated after now: a client whose clock runs ahead cannot place a
\* change or a share in the future, where it would win against every later one.
NothingFromTheFuture ==
  /\ \A l \in DOMAIN lists : lists[l].changed <= clock
  /\ \A p \in DOMAIN list_permissions : list_permissions[p].changed <= clock
  /\ \A e \in DOMAIN entries : entries[e].changed <= clock /\ entries[e].updated <= clock

\* While a list or an entry lives, its stored change date never goes back: no late
\* upload of an edit of an earlier second, and no edit on the server, undoes the order.
\* (Stored dates are whole seconds: of edits within one second it says nothing.)
ChangedNeverRegresses ==
  [][/\ \A l \in DOMAIN lists \cap DOMAIN lists' : lists'[l].changed >= lists[l].changed
     /\ \A e \in DOMAIN entries \cap DOMAIN entries' :
          /\ entries'[e].changed >= entries[e].changed
          /\ entries'[e].updated >= entries[e].updated]_vars

\* Every app that names an entry keeps it in the same list.
OneListPerEntry == \A r, s \in EntryRefs : r[1] = s[1] => r[2] = s[2]

\* An entry disappears only together with its list, or with a tombstone dated now.
\* If apps keep entries in their lists it is one of the entry's list, which the
\* readers of that list are sent; else it is one of the list that the upload names,
\* and they are not (see README).
EntryDeletionRecorded ==
  [][\A e \in DOMAIN entries \ DOMAIN entries' :
       \/ entries[e].list \notin DOMAIN lists'
       \/ /\ e \in DOMAIN deleted_entry' /\ deleted_entry'[e].created = Sec(clock)
          /\ OneListPerEntry => deleted_entry'[e].list = entries[e].list]_vars

\* When a list goes, by deletion or with its owner's account, each user it was
\* shared with (and who still has an account) gets a tombstone dated now.
SharedDeletionRecorded ==
  [][\A p \in DOMAIN list_permissions :
       p[2] \notin DOMAIN lists' =>
         \/ p \in DOMAIN deleted_list_shared' /\ deleted_list_shared'[p] = Sec(clock)
         \/ p[1] \notin DOMAIN users']_vars

\* Once somebody is told that a list or an entry is gone, every request is told so,
\* under the same date: no later deletion, also of a list that was uploaded again
\* by someone else, replaces or drops a tombstone while those it is for are there.
TombstonesKept ==
  [][/\ \A l \in DOMAIN deleted_list :
          \/ l \in DOMAIN deleted_list' /\ deleted_list'[l] = deleted_list[l]
          \/ deleted_list[l].user \notin DOMAIN users'
     /\ \A p \in DOMAIN deleted_list_shared :
          \/ p \in DOMAIN deleted_list_shared' /\ deleted_list_shared'[p] = deleted_list_shared[p]
          \/ p[1] \notin DOMAIN users'
     /\ \A e \in DOMAIN deleted_entry :
          \/ e \in DOMAIN deleted_entry' /\ deleted_entry'[e] = deleted_entry[e]
          \/ deleted_entry[e].list \notin DOMAIN lists']_vars

\* If entries stay in their lists, an upload of deleted entries is never answered
\* with an error: its tombstones have their list and are the first ones.
EntryDeletionsNeverFail ==
  OneListPerEntry =>
    \A u \in Users, req \in EntryDeletions, since \in Cursors :
      ~UpdateDeletedEntriesFails(u, req, since)
-----------------------------------------------------------------------------
(* The tables of entries implement a register whose edits are ordered by seconds *)

Living == [e \in DOMAIN entries |-> [list |-> entries[e].list,
                                     changed |-> entries[e].changed, tip |-> entries[e].tip]]
Buried == [e \in DOMAIN deleted_entry |-> deleted_entry[e].list]

Register == INSTANCE EntryRegister WITH open <- DOMAIN lists, alive <- Living, dead <- Buried

\* Each request, of the app, of the web client or about an account, does to the
\* entries what one step of the register may do, or nothing.
ImplementsRegister == Register!Spec
=============================================================================
