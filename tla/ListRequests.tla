---------------------------- MODULE ListRequests ----------------------------
(***************************************************************************)
(* The requests on lists and shares, statement by statement: uploads of lists  *)
(* and of deleted lists (src/sync/dao.rs), the deletion of a list by the web     *)
(* client and the use of a share code (src/lists/dao.rs).                       *)
(***************************************************************************)
EXTENDS EntryRequests

ListUploads == [kind: {"list_upload"}, user: Users, list: Lists, changed: 0 .. MaxClock]
ListDeletions == [kind: {"list_delete", "web_list_delete"}, user: Users, list: Lists]
CodeUses == [kind: {"use_code"}, user: Users, code: Tokens]

\* Rows that point to list l, which go with it.
Dependents(r, l) ==
  {PermKey(v, l) : v \in Users}
  \cup {TokenKey(t) : t \in {s \in Tokens : Exists(r, TokenKey(s)) /\ Now(r)[TokenKey(s)].list = l}}
  \cup UNION {{EntryKey(e), EntryTomb(e)} : e \in {f \in Entries : Home[f] = l}}
SharedWith(r, l) == {v \in Users : Exists(r, PermKey(v, l))}

ListLock(l) == {<<ListKey(l), "update">>}
InsertListLocks(u, l) ==
  {<<ListKey(l), "insert">>, <<ListsOf(u), "enter">>, <<UserKey(u), "share">>}
ListTombLocks(u, l) == {<<ListTomb(l), "insert">>, <<UserKey(u), "share">>}

\* Faulty: the rows that go with the list are not locked.
DropAlone(r, l) == ListLock(l)
DropLocks(r, l) == ListLock(l) \cup {<<k, "update">> : k \in Dependents(r, l)}
GrantLocks(u, l) ==
  {<<PermKey(u, l), "insert">>, <<ListKey(l), "share">>, <<UserKey(u), "share">>}

\* Faulty: the shares are copied without locking them.
ShareTombLocks(r, l) ==
  UNION {{<<ShareTomb(v, l), "insert">>, <<UserKey(v), "share">>} : v \in SharedWith(r, l)}

\* INSERT ... SELECT locks what it reads, rows and gaps, and what it inserts.
BuryLocks(r, l) == {<<PermKey(v, l), "share">> : v \in Users}
  \cup UNION {{<<ShareTomb(v, l), "insert">>, <<UserKey(v), "share">>} : v \in SharedWith(r, l)}
-----------------------------------------------------------------------------
\* UPDATE users SET last_seen: the first statement of an upload of deletions.
Touch(r) ==
  /\ Statement(r, <<"touch">>, {<<UserKey(req[r].user), "update">>})
  /\ WriteNothing /\ Go(r, <<"select">>)

SelectListDeletion(r) ==
  LET l == req[r].list
      u == req[r].user
      known == (db[ListTomb(l)] # NoRow /\ db[ListTomb(l)].owner = u) \/ db[ShareTomb(u, l)] # NoRow
  IN  /\ req[r].kind = "list_delete"
      /\ Look(r)
      /\ Go(r, IF ~known /\ IsOwner(u, l) THEN <<"tombstone", l>> ELSE <<"commit">>)

SelectWebListDeletion(r) ==
  LET l == req[r].list
  IN  /\ req[r].kind = "web_list_delete"
      /\ Look(r)
      /\ Go(r, IF IsOwner(req[r].user, l) THEN <<"tombstone", l>> ELSE <<"fail">>)

\* The app ignores that there is a tombstone, or no account any more (INSERT
\* IGNORE); the web client does not.
BuryList(r, l) ==
  LET row == [k \in {ListTomb(l)} |-> [owner |-> req[r].user]]
      refused == Exists(r, ListTomb(l)) \/ ~Exists(r, UserKey(req[r].user))
  IN  /\ Statement(r, <<"tombstone", l>>, ListTombLocks(req[r].user, l))
      /\ \/ /\ req[r].kind = "list_delete" /\ Go(r, <<"bury_shares", l>>)
            /\ IF refused THEN WriteNothing ELSE Write(r, row)
         \/ /\ req[r].kind = "web_list_delete" /\ ~refused
            /\ Write(r, row) /\ Go(r, <<"drop", l>>)
         \/ req[r].kind = "web_list_delete" /\ refused /\ Fail(r)

BuryShares(r, l) ==
  /\ Statement(r, <<"bury_shares", l>>, BuryLocks(r, l))
  /\ IF \E v \in SharedWith(r, l) : Exists(r, ShareTomb(v, l)) THEN Fail(r)
     ELSE /\ Write(r, [k \in {ShareTomb(v, l) : v \in SharedWith(r, l)} |-> [list |-> l]])
          /\ Go(r, <<"drop", l>>)

\* Only the web client takes it for an error that the list has gone.
DropList(r, l) ==
  /\ Statement(r, <<"drop", l>>, DropLocks(r, l))
  /\ \/ /\ Exists(r, ListKey(l)) /\ Now(r)[ListKey(l)].owner = req[r].user
        /\ Write(r, [k \in {ListKey(l)} \cup Dependents(r, l) |-> NoRow])
        /\ Go(r, <<"commit">>)
     \/ /\ ~(Exists(r, ListKey(l)) /\ Now(r)[ListKey(l)].owner = req[r].user)
        /\ WriteNothing
        /\ Go(r, IF req[r].kind = "list_delete" THEN <<"commit">> ELSE <<"fail">>)
-----------------------------------------------------------------------------
\* An upload of a list that is not from the future nor deleted for the user.
SelectListUpload(r) ==
  LET l == req[r].list
      u == req[r].user
      deleted == (db[ListTomb(l)] # NoRow /\ db[ListTomb(l)].owner = u) \/ db[ShareTomb(u, l)] # NoRow
  IN  /\ req[r].kind = "list_upload"
      /\ Look(r)
      /\ Go(r, IF req[r].changed <= time[r] /\ ~deleted THEN <<"lock_list", l>> ELSE <<"commit">>)

\* Without the right to write, or with an older date, nothing is done; the
\* UPDATE of a list names a column that the table does not have.
LockList(r, l) ==
  LET row == Now(r)[ListKey(l)]
  IN  /\ Statement(r, <<"lock_list", l>>, ListLock(l))
      /\ WriteNothing
      /\ Go(r, IF row = NoRow THEN <<"insert_list", l>>
               ELSE IF row.owner = req[r].user /\ row.changed < req[r].changed THEN <<"fail">>
               ELSE <<"commit">>)

InsertList(r, l) ==
  LET u == req[r].user
  IN  /\ Statement(r, <<"insert_list", l>>, InsertListLocks(u, l))
      /\ IF Exists(r, ListKey(l)) \/ ~Exists(r, UserKey(u)) THEN Fail(r)
         ELSE /\ Write(r, [k \in {ListKey(l)} |-> [owner |-> u, changed |-> req[r].changed]])
              /\ Go(r, <<"commit">>)
-----------------------------------------------------------------------------
\* The code is read without a lock.
SelectCode(r) ==
  LET row == db[TokenKey(req[r].code)]
  IN  /\ req[r].kind = "use_code"
      /\ Look(r)
      /\ Go(r, IF row # NoRow THEN <<"grant", row>> ELSE <<"fail">>)

\* A share that exists, and a list that has gone, are taken for a duplicate:
\* the request is answered as if the list were shared now.
GrantShare(r) ==
  LET row == pc[r][2]
      u == req[r].user
  IN  /\ pc[r][1] = "grant"
      /\ Statement(r, pc[r], GrantLocks(u, row.list))
      /\ IF Exists(r, PermKey(u, row.list)) \/ ~Exists(r, ListKey(row.list)) \/ ~Exists(r, UserKey(u))
         THEN WriteNothing /\ Go(r, <<"commit">>)
         ELSE /\ Write(r, [k \in {PermKey(u, row.list)} |-> [write |-> TRUE]])
              /\ Go(r, IF row.reusable THEN <<"commit">> ELSE <<"spend">>)

\* How many rows the DELETE of the code affects is not looked at.
SpendCode(r) ==
  LET k == TokenKey(req[r].code)
  IN  /\ Statement(r, <<"spend">>, {<<k, "update">>})
      /\ Write(r, [x \in {k} |-> NoRow])
      /\ Go(r, <<"commit">>)
-----------------------------------------------------------------------------
\* An upload of deleted lists writes before it reads.
BeginLists(r) ==
  \E q \in ListUploads \cup ListDeletions \cup CodeUses :
    Begin(r, q, IF q.kind = "list_delete" THEN <<"touch">> ELSE <<"select">>)

ListStep(r) ==
  \/ Touch(r) \/ SelectListDeletion(r) \/ SelectWebListDeletion(r) \/ SelectListUpload(r)
  \/ SelectCode(r) \/ GrantShare(r) \/ SpendCode(r)
  \/ \E l \in Lists : BuryList(r, l) \/ BuryShares(r, l) \/ DropList(r, l)
                      \/ LockList(r, l) \/ InsertList(r, l)

ListWishes(r) ==
  LET u == req[r].user
  IN  CASE pc[r] = <<"touch">> -> {<<UserKey(u), "update">>}
        [] pc[r][1] = "tombstone" -> ListTombLocks(u, pc[r][2])
        [] pc[r][1] = "bury_shares" -> BuryLocks(r, pc[r][2])
        [] pc[r][1] = "drop" -> DropLocks(r, pc[r][2])
        [] pc[r][1] = "lock_list" -> ListLock(pc[r][2])
        [] pc[r][1] = "insert_list" -> InsertListLocks(u, pc[r][2])
        [] pc[r][1] = "grant" -> GrantLocks(u, pc[r][2].list)
        [] pc[r] = <<"spend">> -> {<<TokenKey(req[r].code), "update">>}
        [] OTHER -> {}
=============================================================================
