------------------------------ MODULE MCServer ------------------------------
EXTENDS Server, TLC
\* There are two lists, and all clients know which of them the entries are in.
HomeList == CHOOSE l \in Lists : TRUE
HomeRefs == Entries \X {HomeList}
\* To keep the run small: a second list only as long as nothing is shared, and
\* codes, which no handler of entries looks at, only as long as there are no entries.
Bound ==
  /\ \/ DOMAIN lists \cup DOMAIN deleted_list \subseteq {HomeList}
     \/ DOMAIN share_token \cup DOMAIN list_permissions \cup DOMAIN deleted_list_shared = {}
  /\ DOMAIN share_token = {} \/ DOMAIN entries \cup DOMAIN deleted_entry = {}
UserSymmetry == Permutations(Users)
=============================================================================
