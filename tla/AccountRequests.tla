-------------------------- MODULE AccountRequests --------------------------
(***************************************************************************)
(* The deletion of an account, statement by statement (src/users/dao.rs).  Its   *)
(* lists go with it, and what else refers to the user.                          *)
(***************************************************************************)
EXTENDS ListRequests

AccountDeletions == [kind: {"delete_account"}, user: Users]

OwnedNow(r, u) == {l \in Lists : Exists(r, ListKey(l)) /\ Now(r)[ListKey(l)].owner = u}
\* Rows that go with user u by foreign keys.
Belongings(r, u) ==
  {PermKey(u, l) : l \in Lists} \cup {ShareTomb(u, l) : l \in Lists}
  \cup (UNION {{ListKey(l)} \cup Dependents(r, l) : l \in OwnedNow(r, u)})
  \cup {ListTomb(l) : l \in {m \in Lists : Exists(r, ListTomb(m)) /\ Now(r)[ListTomb(m)].owner = u}}

UserTombLocks(u) == {<<UserTomb(u), "insert">>}
\* INSERT ... SELECT of a join locks what it reads of both tables.
BuryOwnedLocks(r, u) ==
  {<<ListsOf(u), "scan">>} \cup UNION {{<<ListKey(l), "share">>} \cup BuryLocks(r, l) : l \in OwnedNow(r, u)}
DropUserLocks(r, u) == {<<k, "update">> : k \in {UserKey(u)} \cup Belongings(r, u)}

SelectAccount(r) ==
  /\ req[r].kind = "delete_account"
  /\ Look(r)
  /\ Go(r, IF db[UserKey(req[r].user)] # NoRow THEN <<"tomb_user">> ELSE <<"fail">>)

BuryUser(r) ==
  LET u == req[r].user
  IN  /\ Statement(r, <<"tomb_user">>, UserTombLocks(u))
      /\ IF Exists(r, UserTomb(u)) THEN Fail(r)
         ELSE /\ Write(r, [k \in {UserTomb(u)} |-> [created |-> time[r]]])
              /\ Go(r, <<"bury_owned">>)

\* Those who have a share of one of the user's lists get their tombstones.
BuryOwned(r) ==
  LET u == req[r].user
      shares == {p \in Users \X OwnedNow(r, u) : p[1] \in SharedWith(r, p[2])}
  IN  /\ Statement(r, <<"bury_owned">>, BuryOwnedLocks(r, u))
      /\ IF \E p \in shares : Exists(r, ShareTomb(p[1], p[2])) THEN Fail(r)
         ELSE /\ Write(r, [k \in {ShareTomb(p[1], p[2]) : p \in shares} |-> [list |-> k[2][2]]])
              /\ Go(r, <<"drop_user">>)

DropUser(r) ==
  LET u == req[r].user
  IN  /\ Statement(r, <<"drop_user">>, DropUserLocks(r, u))
      /\ Write(r, [k \in {UserKey(u)} \cup Belongings(r, u) |-> NoRow])
      /\ Go(r, <<"commit">>)
-----------------------------------------------------------------------------
BeginAccounts(r) == \E q \in AccountDeletions : Begin(r, q, <<"select">>)
AccountStep(r) == SelectAccount(r) \/ BuryUser(r) \/ BuryOwned(r) \/ DropUser(r)

AccountWishes(r) ==
  LET u == req[r].user
  IN  CASE pc[r] = <<"tomb_user">> -> UserTombLocks(u)
        [] pc[r] = <<"bury_owned">> -> BuryOwnedLocks(r, u)
        [] pc[r] = <<"drop_user">> -> DropUserLocks(r, u)
        [] OTHER -> {}
=============================================================================
