--------------------------- MODULE EntryRegister ----------------------------
(***************************************************************************)
(* What the server promises of entries.  Whatever order edits arrive in, none    *)
(* takes the place of one that was made in a later second; within a second an     *)
(* older one may, for a stored date is cut to seconds.  A deletion is the last     *)
(* word until the list that it was stored under goes.                          *)
(***************************************************************************)
EXTENDS Naturals

VARIABLES
  open,   \* the lists there are
  alive,  \* entry -> [list, the second it was changed in, tip]
  dead    \* deleted entry -> list

register == <<open, alive, dead>>

Init == open = {} /\ DOMAIN alive = {} /\ DOMAIN dead = {}

Open == open \subseteq open' /\ UNCHANGED <<alive, dead>>

\* Entries that are new in an open list, and edits that are not of an earlier second.
Write ==
  /\ DOMAIN alive \subseteq DOMAIN alive'
  /\ \A e \in DOMAIN alive' \ DOMAIN alive : e \notin DOMAIN dead /\ alive'[e].list \in open
  /\ \A e \in DOMAIN alive : /\ alive'[e].list = alive[e].list
                             /\ alive'[e].changed >= alive[e].changed
  /\ UNCHANGED <<open, dead>>

\* Entries are deleted, each with a tombstone in an open list.
Bury ==
  /\ DOMAIN alive = DOMAIN alive' \cup (DOMAIN dead' \ DOMAIN dead)
  /\ \A e \in DOMAIN alive' : alive'[e] = alive[e]
  /\ DOMAIN dead \subseteq DOMAIN dead' /\ DOMAIN alive' \cap DOMAIN dead' = {}
  /\ \A e \in DOMAIN dead' : IF e \in DOMAIN dead THEN dead'[e] = dead[e] ELSE dead'[e] \in open
  /\ UNCHANGED open

\* Lists go, with their entries and the tombstones of these.
Close ==
  /\ open' \subseteq open
  /\ alive' = [e \in {f \in DOMAIN alive : alive[f].list \in open'} |-> alive[e]]
  /\ dead' = [e \in {f \in DOMAIN dead : dead[f] \in open'} |-> dead[e]]

Next == Open \/ Write \/ Bury \/ Close
Spec == Init /\ [][Next]_register
=============================================================================
