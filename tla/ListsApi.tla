------------------------------ MODULE ListsApi ------------------------------
(***************************************************************************)
(* The /api/v1/lists and /api/v1/entries handlers of the web client           *)
(* (src/lists/dao.rs): editing on the server itself, and sharing.  Uuids and    *)
(* tokens are random, so a new one is one the database has never held.       *)
(***************************************************************************)
EXTENDS Schema

\* A list that does not exist, and a query the database rejects, are errors;
\* the right to write is looked for in a column "change".
HasListPerm(u, l, perm) ==
  /\ l \in DOMAIN lists
  /\ \/ lists[l].owner = u
     \/ /\ <<u, l>> \in DOMAIN list_permissions
        /\ \/ perm = "READ"
           \/ /\ perm = "WRITE"
              /\ Prepares("list_permissions", {"change", "list", "user"})
              /\ list_permissions[<<u, l>>].write

FreshList(l) == /\ l \notin DOMAIN lists \cup DOMAIN deleted_list
                /\ \A u \in Users : <<u, l>> \notin DOMAIN deleted_list_shared
FreshEntry(e) == e \notin DOMAIN entries \cup DOMAIN deleted_entry

CreateList(u, l) ==
  /\ FreshList(l)
  /\ u \in DOMAIN users
  /\ lists' = Put(lists, [m \in {l} |-> [owner |-> u, changed |-> Sec(clock)]])
  /\ UNCHANGED <<clock, accounts, list_permissions, share_token, entryTables, tombstones>>

ChangeList(u, l) ==
  /\ HasListPerm(u, l, "WRITE")
  /\ lists' = [lists EXCEPT ![l].changed = Sec(clock)]
  /\ UNCHANGED <<clock, accounts, list_permissions, share_token, entryTables, tombstones>>

\* A tombstone for the owner only; a second one for the same list is an error.
DeleteList(u, l) ==
  /\ HasListPerm(u, l, "OWNER")
  /\ l \notin DOMAIN deleted_list
  /\ deleted_list' = Put(deleted_list, [m \in {l} |-> [user |-> u, created |-> Sec(clock)]])
  /\ DropLists({l}, {})
  /\ UNCHANGED <<clock, accounts, deleted_list_shared>>

CreateEntry(u, l, e, tip) ==
  /\ HasListPerm(u, l, "WRITE")
  /\ FreshEntry(e)
  /\ entries' = Put(entries, [f \in {e} |->
       [list |-> l, changed |-> Sec(clock), updated |-> Sec(clock), tip |-> tip]])
  /\ UNCHANGED <<clock, accounts, listTables, deleted_entry, tombstones>>

\* "updated" keeps its value.
ChangeEntry(u, e, tip) ==
  /\ e \in DOMAIN entries
  /\ HasListPerm(u, entries[e].list, "WRITE")
  /\ entries' = [entries EXCEPT ![e].changed = Sec(clock), ![e].tip = tip]
  /\ UNCHANGED <<clock, accounts, listTables, deleted_entry, tombstones>>

\* Faulty: no tombstone.
ForgetEntry(u, e) ==
  /\ e \in DOMAIN entries \ DOMAIN deleted_entry
  /\ HasListPerm(u, entries[e].list, "WRITE")
  /\ entries' = Delete(entries, {e})
  /\ UNCHANGED <<clock, accounts, listTables, deleted_entry, tombstones>>

DeleteEntry(u, e) ==
  /\ e \in DOMAIN entries \ DOMAIN deleted_entry
  /\ HasListPerm(u, entries[e].list, "WRITE")
  /\ deleted_entry' = Put(deleted_entry, [f \in {e} |->
       [list |-> entries[e].list, created |-> Sec(clock)]])
  /\ entries' = Delete(entries, {e})
  /\ UNCHANGED <<clock, accounts, listTables, tombstones>>
-----------------------------------------------------------------------------
GenerateShareCode(u, l, t, deadline, write, reusable) ==
  /\ HasListPerm(u, l, "OWNER")
  /\ t \notin DOMAIN share_token
  /\ share_token' = Put(share_token, [s \in {t} |->
       [list |-> l, deadline |-> Sec(deadline), write |-> write, reusable |-> reusable]])
  /\ UNCHANGED <<clock, accounts, lists, list_permissions, entryTables, tombstones>>

\* Whoever shows a code and its secret in time gets the list.  A user who has
\* the list already (or no account any more) gets nothing, and keeps the code
\* valid: check_duplicate takes both constraint errors for a duplicate.
UseShareCode(u, t) ==
  /\ t \in DOMAIN share_token
  /\ clock <= share_token[t].deadline
  /\ u \in DOMAIN users
  /\ <<u, share_token[t].list>> \notin DOMAIN list_permissions
  /\ list_permissions' = Put(list_permissions, [p \in {<<u, share_token[t].list>>} |->
       [write |-> share_token[t].write, changed |-> Sec(clock)]])
  /\ share_token' = IF share_token[t].reusable THEN share_token ELSE Delete(share_token, {t})
  /\ UNCHANGED <<clock, accounts, lists, entryTables, tombstones>>

\* The statement is "DELETE FROM list_permissions p WHERE p.list = ? ...".
RemoveSharingUser(u, l, v) ==
  /\ HasListPerm(u, l, "OWNER")
  /\ AliasInDelete
  /\ list_permissions' = Delete(list_permissions, {<<v, l>>})
  /\ UNCHANGED <<clock, accounts, lists, share_token, entryTables, tombstones>>

\* "UPDATE list_permissions SET ... WHERE p.list = ? AND p.user = ?": the
\* statement decides, so this handler never changes a row.
SetSharePermissionsFails(u, l) ==
  \/ ~HasListPerm(u, l, "OWNER")
  \/ ~Prepares("list_permissions", {"write", "reshare", "p.list", "p.user"})
=============================================================================
