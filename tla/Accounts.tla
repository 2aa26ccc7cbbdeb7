------------------------------ MODULE Accounts ------------------------------
(***************************************************************************)
(* Creating and deleting an account (src/users/dao.rs).  Keys and passwords   *)
(* are rows that come and go with the user's own and are left out.            *)
(***************************************************************************)
EXTENDS Schema

\* The tombstone of an earlier account of u is not looked at.
RegisterUser(u) ==
  /\ u \notin DOMAIN users
  /\ users' = Put(users, [v \in {u} |-> Sec(clock)])
  /\ UNCHANGED <<clock, deleted_user, listTables, entryTables, tombstones>>

\* Faulty: the shares u was given instead of those u gave.
SharesGivenTo(u) == {p \in DOMAIN list_permissions : p[1] = u}

\* Who gets a tombstone when u goes: those u shared lists with.
SharesToBury(u) == Shares(Owned(u))

DeleteUserFails(u) ==
  \/ u \notin DOMAIN users
  \/ u \in deleted_user
  \/ SharesToBury(u) \cap DOMAIN deleted_list_shared # {}

DeleteUser(u) ==
  /\ ~DeleteUserFails(u)
  /\ deleted_user' = deleted_user \cup {u}
  /\ users' = Delete(users, {u})
  /\ deleted_list' = Delete(deleted_list, {l \in DOMAIN deleted_list : deleted_list[l].user = u})
  /\ deleted_list_shared' =
       Delete(Put(deleted_list_shared, [p \in SharesToBury(u) |-> Sec(clock)]), {u} \X Lists)
  /\ DropLists(Owned(u), {u})
  /\ UNCHANGED clock
=============================================================================
