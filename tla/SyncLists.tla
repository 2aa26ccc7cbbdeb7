----------------------------- MODULE SyncLists ------------------------------
(***************************************************************************)
(* POST /api/v1/sync/lists/deleted and /changed (src/sync/dao.rs): the app   *)
(* uploads what it did to its lists since it was last online, and asks for    *)
(* what others did.  A request is one transaction; since = None is since = 0. *)
(***************************************************************************)
EXTENDS Schema

\* Faulty: what was deleted within the second of the last request is left out.
TombstonesAfter(u, since) ==
  {l \in DOMAIN deleted_list : deleted_list[l].user = u /\ deleted_list[l].created > since}
  \cup {l \in Lists : /\ <<u, l>> \in DOMAIN deleted_list_shared
                      /\ deleted_list_shared[<<u, l>>] > since}

\* Lists deleted for u: those u owned and those once shared with u.
OwnTombstones(u, since) ==
  {l \in DOMAIN deleted_list : deleted_list[l].user = u /\ deleted_list[l].created >= since}
  \cup {l \in Lists : /\ <<u, l>> \in DOMAIN deleted_list_shared
                      /\ deleted_list_shared[<<u, l>>] >= since}

DeletedListsDelta(u, req, since) == OwnTombstones(u, Sec(since)) \ req

\* The part of the upload that is deleted: known, alive and owned by u.
ListsToDelete(u, req, since) == (req \ OwnTombstones(u, Sec(since))) \cap Owned(u)

\* INSERT without IGNORE: a share that already has a tombstone is an error.
UpdateDeletedListsFails(u, req, since) ==
  Shares(ListsToDelete(u, req, since)) \cap DOMAIN deleted_list_shared # {}

TouchLastSeen(u) ==
  users' = Put(users, [v \in {u} \cap DOMAIN users |-> Sec(clock)])

\* Faulty: REPLACE INTO, which overwrites the tombstone of an earlier owner.
ReplaceTombstones(u, req, since) ==
  LET filtered == ListsToDelete(u, req, since)
  IN  /\ ~UpdateDeletedListsFails(u, req, since)
      /\ TouchLastSeen(u)
      /\ deleted_list' = Put(deleted_list,
                           [l \in filtered |-> [user |-> u, created |-> Sec(clock)]])
      /\ deleted_list_shared' = Put(deleted_list_shared,
                                    [p \in Shares(filtered) |-> Sec(clock)])
      /\ DropLists(filtered, {})
      /\ UNCHANGED <<clock, deleted_user>>

UpdateDeletedLists(u, req, since) ==
  LET filtered == ListsToDelete(u, req, since)
  IN  /\ ~UpdateDeletedListsFails(u, req, since)
      /\ TouchLastSeen(u)
      /\ deleted_list' = InsertIgnore(deleted_list,
                           [l \in filtered |-> [user |-> u, created |-> Sec(clock)]])
      /\ deleted_list_shared' = Put(deleted_list_shared,
                                    [p \in Shares(filtered) |-> Sec(clock)])
      /\ DropLists(filtered, {})
      /\ UNCHANGED <<clock, deleted_user>>
-----------------------------------------------------------------------------
\* Faulty: only changes of the list count, not new shares.
ListsChangedSince(u, since) ==
  {l \in DOMAIN lists : /\ lists[l].owner = u \/ <<u, l>> \in DOMAIN list_permissions
                        /\ lists[l].changed >= Sec(since)}

\* What u is sent of the lists: those changed, or shared with u, since then.
ChangedListsDelta(u, since) ==
  {l \in Owned(u) : lists[l].changed >= Sec(since)}
  \cup {l \in DOMAIN lists : /\ <<u, l>> \in DOMAIN list_permissions
                             /\ \/ lists[l].changed >= Sec(since)
                                \/ list_permissions[<<u, l>>].changed >= Sec(since)}

\* "WHERE list = ? AND list = ?", bound to the list and to the user
ForeignPerm(u, l) ==
  \E p \in DOMAIN list_permissions :
    p[2] = l /\ p[2] = u /\ list_permissions[p].write

\* Faulty: tombstones, or dates, are not looked at.
ItemsOfAnyList(u, req) == {l \in DOMAIN req : req[l] <= clock}
ItemsOfAnyDate(u, req) == DOMAIN req \ OwnTombstones(u, 0)

\* An item that is not from the future and not of a list deleted for u.
Considered(u, req) == {l \in DOMAIN req : req[l] <= clock} \ OwnTombstones(u, 0)

ListsToInsert(u, req) == Considered(u, req) \ DOMAIN lists
ListsToUpdate(u, req) ==
  {l \in Considered(u, req) \cap DOMAIN lists :
     /\ lists[l].owner = u \/ ForeignPerm(u, l)
     /\ req[l] > lists[l].changed}

\* The UPDATE statement, as it is written, and the owner's foreign key.
UpdateChangedListsFails(u, req) ==
  \/ /\ ListsToUpdate(u, req) # {}
     /\ ~Prepares("lists", {"name", "name_a", "name_b", "changed", "list"})
  \/ ListsToInsert(u, req) # {} /\ u \notin DOMAIN users

\* req maps the lists of the upload to their client-side change date.
UpdateChangedLists(u, req) ==
  /\ ~UpdateChangedListsFails(u, req)
  /\ lists' = Put(lists, [l \in ListsToInsert(u, req) \cup ListsToUpdate(u, req) |->
                [owner |-> IF l \in DOMAIN lists THEN lists[l].owner ELSE u,
                 changed |-> Sec(req[l])]])
  /\ UNCHANGED <<clock, accounts, list_permissions, share_token, entryTables, tombstones>>
=============================================================================
