--------------------------- MODULE EntryRequests ----------------------------
(***************************************************************************)
(* The requests on entries, statement by statement: uploads of changes and of  *)
(* deletions (src/sync/dao.rs), the deletion and the edit of one entry by the     *)
(* web client (src/lists/dao.rs).  A tick of the clock is a second here, so the DATETIME   *)
(* columns lose nothing of a date.                                            *)
(***************************************************************************)
EXTENDS Transactions

CONSTANT Sinces  \* the dates that devices ask from

ASSUME EntryRequestsAssumption == Sinces \subseteq 0 .. MaxClock

\* Devices download with an upload that has no items.
Uploads == {q \in [kind: {"upload"}, user: Users, items: SUBSET Entries,
                   changed: 0 .. MaxClock, since: Sinces] : q.items = {} => q.changed = 0}
Deletions == [kind: {"delete"}, user: Users, items: SUBSET Entries \ {{}}, since: Sinces]
WebDeletions == [kind: {"web_delete"}, user: Users, items: {{e} : e \in Entries}]
WebEdits == [kind: {"web_change"}, user: Users, items: {{e} : e \in Entries}]

\* What the plain SELECTs tell of rights.
IsOwner(u, l) == db[ListKey(l)] # NoRow /\ db[ListKey(l)].owner = u
Shared(u, l) == db[PermKey(u, l)] # NoRow
MayWrite(u, l) == IsOwner(u, l) \/ (Shared(u, l) /\ db[PermKey(u, l)].write)
MayRead(u, l) == IsOwner(u, l) \/ Shared(u, l)

\* What the statements wish to lock.
EntryLock(e) == {<<EntryKey(e), "update">>}
\* An INSERT locks the row that its foreign key names, too.
InsertLocks(e) == {<<EntryKey(e), "insert">>, <<ListKey(Home[e]), "share">>}
TombLocks(e) == {<<EntryTomb(e), "insert">>, <<ListKey(Home[e]), "share">>}

Look(r) == /\ pc[r] = <<"select">>
           /\ seen' = [seen EXCEPT ![r] = [e \in Entries |-> db[EntryKey(e)]]]
           /\ UNCHANGED <<clock, db, written, locks, req, time>>

\* Items of an upload that are not from the future and not older than the delta.
Checked(r) ==
  {e \in req[r].items :
     LET row == db[EntryKey(e)]
     IN  /\ req[r].changed <= time[r]
         /\ (row # NoRow /\ MayRead(req[r].user, Home[e]) /\ row.updated >= req[r].since)
              => row.changed <= req[r].changed}

\* The owner of a list that is gone is an error for the whole upload.
SelectUpload(r) ==
  /\ req[r].kind = "upload"
  /\ Look(r)
  /\ IF \E e \in Checked(r) : db[ListKey(Home[e])] = NoRow
     THEN Go(r, <<"fail">>)
     ELSE Proceed(r, {e \in Checked(r) : /\ MayWrite(req[r].user, Home[e])
                                         /\ db[EntryTomb(e)] = NoRow}, "lock")

EntryRow(r, e) == [k \in {EntryKey(e)} |-> [changed |-> req[r].changed, updated |-> time[r]]]

\* Faulty: SELECT without FOR UPDATE, the date to compare with is from the snapshot.
LockUnread(r, e) ==
  LET row == seen[r][e]
  IN  /\ Statement(r, <<"lock", e>>, EntryLock(e))
      /\ \/ row = NoRow /\ WriteNothing /\ Go(r, <<"insert", e>>)
         \/ /\ row # NoRow
            /\ IF row.changed < req[r].changed /\ Exists(r, EntryKey(e))
               THEN Write(r, EntryRow(r, e)) ELSE WriteNothing
            /\ Proceed(r, todo[r], "lock")

\* SELECT changed ... FOR UPDATE, and UPDATE of a row that is older.
LockEntry(r, e) ==
  LET row == Now(r)[EntryKey(e)]
  IN  /\ Statement(r, <<"lock", e>>, EntryLock(e))
      /\ \/ row = NoRow /\ WriteNothing /\ Go(r, <<"insert", e>>)
         \/ /\ row # NoRow /\ row.changed >= req[r].changed
            /\ WriteNothing /\ Proceed(r, todo[r], "lock")
         \/ /\ row # NoRow /\ row.changed < req[r].changed
            /\ Write(r, EntryRow(r, e))
            /\ Proceed(r, todo[r], "lock")

InsertEntry(r, e) ==
  /\ Statement(r, <<"insert", e>>, InsertLocks(e))
  /\ IF Exists(r, EntryKey(e)) \/ ~Exists(r, ListKey(Home[e])) THEN Fail(r)
     ELSE /\ Write(r, EntryRow(r, e))
          /\ Proceed(r, todo[r], "lock")
-----------------------------------------------------------------------------
\* Items of an upload of deletions that are news, of a list that is not deleted
\* and that the user may write to, if it is known.
SelectDeletion(r) ==
  /\ req[r].kind = "delete"
  /\ Look(r)
  /\ Proceed(r, {e \in req[r].items :
       LET tomb == db[EntryTomb(e)]
           u == req[r].user
       IN  /\ ~(tomb # NoRow /\ MayRead(u, Home[e]) /\ tomb.created >= req[r].since)
           /\ db[ListTomb(Home[e])] = NoRow
           /\ db[ListKey(Home[e])] # NoRow => MayWrite(u, Home[e])}, "remove")

\* The right to write is looked for in a column that does not exist: only the
\* owner gets on.
SelectWebDeletion(r) ==
  /\ req[r].kind = "web_delete"
  /\ Look(r)
  /\ \E e \in req[r].items :
       IF db[EntryKey(e)] # NoRow /\ IsOwner(req[r].user, Home[e])
       THEN Go(r, <<"bury", e>>) ELSE Go(r, <<"fail">>)

\* Faulty: the snapshot says whether there is an entry to delete.
RemoveUncounted(r, e) ==
  /\ Statement(r, <<"remove", e>>, EntryLock(e))
  /\ IF Exists(r, EntryKey(e))
     THEN Write(r, [k \in {EntryKey(e)} |-> NoRow]) ELSE WriteNothing
  /\ \/ req[r].kind = "web_delete" /\ Go(r, <<"commit">>)
     \/ req[r].kind = "delete" /\ seen[r][e] # NoRow /\ Go(r, <<"bury", e>>)
     \/ req[r].kind = "delete" /\ seen[r][e] = NoRow /\ Proceed(r, todo[r], "remove")

\* The number of rows that DELETE affects says whether a tombstone is due.
RemoveEntry(r, e) ==
  /\ Statement(r, <<"remove", e>>, EntryLock(e))
  /\ IF Exists(r, EntryKey(e))
     THEN Write(r, [k \in {EntryKey(e)} |-> NoRow]) ELSE WriteNothing
  /\ \/ req[r].kind = "web_delete" /\ Go(r, <<"commit">>)
     \/ req[r].kind = "delete" /\ Exists(r, EntryKey(e)) /\ Go(r, <<"bury", e>>)
     \/ req[r].kind = "delete" /\ ~Exists(r, EntryKey(e)) /\ Proceed(r, todo[r], "remove")

\* The tombstone needs its list and must be the first one.
BuryEntry(r, e) ==
  /\ Statement(r, <<"bury", e>>, TombLocks(e))
  /\ IF Exists(r, EntryTomb(e)) \/ ~Exists(r, ListKey(Home[e])) THEN Fail(r)
     ELSE /\ Write(r, [k \in {EntryTomb(e)} |-> [created |-> time[r]]])
          /\ IF req[r].kind = "delete" THEN Proceed(r, todo[r], "remove")
             ELSE Go(r, <<"remove", e>>)
-----------------------------------------------------------------------------
\* As for a deletion, only the owner gets on.
SelectWebEdit(r) ==
  /\ req[r].kind = "web_change"
  /\ Look(r)
  /\ \E e \in req[r].items :
       Go(r, IF db[EntryKey(e)] # NoRow /\ IsOwner(req[r].user, Home[e])
             THEN <<"change", e>> ELSE <<"fail">>)

\* The date of the row is not looked at.  An entry that has gone is an error if
\* the edit has meanings, which need their entry, and else goes unnoticed.
ChangeEntry(r, e) ==
  LET row == Now(r)[EntryKey(e)]
  IN  /\ Statement(r, <<"change", e>>, EntryLock(e))
      /\ \/ /\ row # NoRow /\ Go(r, <<"commit">>)
            /\ Write(r, [k \in {EntryKey(e)} |-> [changed |-> time[r], updated |-> row.updated]])
         \/ row = NoRow /\ WriteNothing /\ (Go(r, <<"fail">>) \/ Go(r, <<"commit">>))
-----------------------------------------------------------------------------
BeginEntries(r) ==
  \E q \in Uploads \cup Deletions \cup WebDeletions \cup WebEdits : Begin(r, q, <<"select">>)

EntryStep(r) ==
  \/ SelectUpload(r) \/ SelectDeletion(r) \/ SelectWebDeletion(r) \/ SelectWebEdit(r)
  \/ \E e \in Entries : LockEntry(r, e) \/ InsertEntry(r, e)
                        \/ RemoveEntry(r, e) \/ BuryEntry(r, e) \/ ChangeEntry(r, e)

\* What the statement that r has come to wishes to lock.
EntryWishes(r) ==
  UNION {CASE pc[r] \in {<<"lock", e>>, <<"remove", e>>, <<"change", e>>} -> EntryLock(e)
           [] pc[r] = <<"insert", e>> -> InsertLocks(e)
           [] pc[r] = <<"bury", e>> -> TombLocks(e)
           [] OTHER -> {} : e \in Entries}
=============================================================================
