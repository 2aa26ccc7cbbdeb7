---------------------------- MODULE Concurrency -----------------------------
(***************************************************************************)
(* Requests that run at the same time: the order of their statements is any,    *)
(* each may lose its connection at any moment, and the database breaks cycles   *)
(* of waiting.  A request is answered when it has ended.                        *)
(***************************************************************************)
EXTENDS AccountRequests

CONSTANTS Kinds,      \* the kinds of requests that are sent
          Owners,     \* who owns each list at the start
          StartClock  \* the rows of the start are from before, of date 0

ASSUME ConcurrencyAssumption == Owners \in [Lists -> Users] /\ StartClock \in 0 .. MaxClock

\* Tables that earlier requests may have left: lists with some shares and codes,
\* and each entry alive, deleted or not yet made.
Tables(there, living, dead, shared, codes) ==
  [k \in Keys |->
     CASE k[1] = "users" -> [uuid |-> k[2]]
       [] k[1] = "lists" /\ k[2] \in there -> [owner |-> Owners[k[2]], changed |-> 0]
       [] k[1] = "entries" /\ k[2] \in living -> [changed |-> 0, updated |-> 0]
       [] k[1] = "deleted_entry" /\ k[2] \in dead -> [created |-> 0]
       [] k[1] = "list_permissions" /\ k[2] \in shared -> [write |-> TRUE]
       [] k[1] = "share_token" /\ codes[k[2]] # NoRow -> codes[k[2]]
       [] OTHER -> NoRow]

Init ==
  /\ clock = StartClock
  /\ \E there \in SUBSET Lists :
       LET within == {e \in Entries : Home[e] \in there}
       IN  \E living \in SUBSET within :
           \E dead \in SUBSET (within \ living),
              shared \in SUBSET {p \in Users \X there : Owners[p[2]] # p[1]},
              codes \in [Tokens -> [list : there, reusable : BOOLEAN] \cup {NoRow}] :
             db = Tables(there, living, dead, shared, codes)
  /\ written = [r \in Requests |-> Nothing]
  /\ locks = {}
  /\ pc = [r \in Requests |-> <<"new">>]
  /\ req = [r \in Requests |-> NoRequest]
  /\ time = [r \in Requests |-> 0]
  /\ todo = [r \in Requests |-> {}]
  /\ seen = [r \in Requests |-> NotSeen]

Arrive(r) == (BeginEntries(r) \/ BeginLists(r) \/ BeginAccounts(r)) /\ req'[r].kind \in Kinds
Step(r) == EntryStep(r) \/ ListStep(r) \/ AccountStep(r)
Wishes == [r \in Requests |-> IF Active(r) THEN EntryWishes(r) \cup ListWishes(r) \cup AccountWishes(r) ELSE {}]
Serve(r) == \/ Step(r) \/ Wait(r, Wishes[r]) \/ DeadlockVictim(r, Wishes)
            \/ Commit(r) \/ Rollback(r)

Next == \/ \E r \in Requests : Arrive(r) \/ Serve(r) \/ Abandon(r)
        \/ Passing

Spec == Init /\ [][Next]_tvars

\* The executor polls every request again, the database runs its statement as
\* soon as its locks are free and breaks cycles; nothing says that a request
\* arrives or is abandoned.
FairSpec == Spec /\ \A r \in Requests : WF_tvars(Serve(r))
-----------------------------------------------------------------------------
Modes == {"S", "X", "gap", "enter"}

\* A row locked X is locked by nobody else, what changes a row is locked X, and
\* committed rows refer to rows that exist.
TypeInv ==
  /\ clock \in 0 .. MaxClock /\ time \in [Requests -> 0 .. MaxClock]
  /\ locks \subseteq Requests \X (Keys \cup Ranges) \X Modes
  /\ \A held, other \in locks :
       held[1] # other[1] /\ held[2] = other[2] => other[3] \notin Excluded(held[3])
  /\ \A r \in Requests : \A k \in DOMAIN written[r] :
       db[k] # written[r][k] => <<r, k, "X">> \in locks
  /\ \A e \in Entries : /\ db[EntryKey(e)] # NoRow => db[ListKey(Home[e])] # NoRow
                        /\ db[EntryTomb(e)] # NoRow => db[ListKey(Home[e])] # NoRow
  /\ \A l \in Lists : /\ db[ListKey(l)] # NoRow => db[UserKey(db[ListKey(l)].owner)] # NoRow
                      /\ db[ListTomb(l)] # NoRow => db[UserKey(db[ListTomb(l)].owner)] # NoRow
  /\ \A u \in Users, l \in Lists :
       /\ db[PermKey(u, l)] # NoRow => db[ListKey(l)] # NoRow /\ db[UserKey(u)] # NoRow
       /\ db[ShareTomb(u, l)] # NoRow => db[UserKey(u)] # NoRow

\* No upload moves the date of a living entry back, whoever else is writing it: the
\* row is compared with the upload after it is locked (SELECT ... FOR UPDATE).
\* The web client's edit does not compare (see README).
OrderKept ==
  [][\A e \in Entries :
       LET k == EntryKey(e)
       IN  (/\ db[k] # NoRow /\ db'[k] # NoRow
            /\ \A r \in Requests : pc'[r] # pc[r] => req[r].kind # "web_change")
              => db'[k].changed >= db[k].changed]_<<db, pc>>

\* An entry vanishes only with a tombstone or with its list, also when two
\* requests delete it at the same time.
EntryDeletionRecorded ==
  [][\A e \in Entries :
       db[EntryKey(e)] # NoRow /\ db'[EntryKey(e)] = NoRow
         => db'[EntryTomb(e)] # NoRow \/ db'[ListKey(Home[e])] = NoRow]_db

\* When the app deletes a list, or an account goes with its lists, everyone who has
\* a share of it at that moment and keeps an account gets a tombstone, also those
\* who are using a share code meanwhile.
SharesTold ==
  [][\A u \in Users, l \in Lists :
       (/\ db[PermKey(u, l)] # NoRow /\ db'[PermKey(u, l)] = NoRow
        /\ db'[UserKey(u)] # NoRow
        /\ \A r \in Requests : pc'[r] # pc[r] => req[r].kind \in {"list_delete", "delete_account"})
         => db'[ShareTomb(u, l)] # NoRow]_<<db, pc>>

\* Every request ends, whatever the others lock.
EveryRequestAnswered == \A r \in Requests : Active(r) ~> Ended(r)
-----------------------------------------------------------------------------
\* A deleted entry is not alive again ("check entry isn't deleted").
DeletionWins == \A e \in Entries : db[EntryKey(e)] = NoRow \/ db[EntryTomb(e)] = NoRow

\* What an upload did not see when it was answered has a date of the answer or
\* later, so that the next request, which asks from there on, gets it.
AnswersComplete ==
  \A r \in Requests, e \in Entries :
    (/\ pc[r] = <<"done">> /\ req[r].kind = "upload"
     /\ db[EntryKey(e)] # NoRow /\ MayRead(req[r].user, Home[e]))
      => db[EntryKey(e)] = seen[r][e] \/ db[EntryKey(e)].updated >= time[r]

\* A code that is not reusable lets one user in: nobody gets a share by it after
\* it is gone.
CodesUsedOnce ==
  [][\A r \in Requests :
       (/\ pc[r] = <<"commit">> /\ pc'[r] = <<"done">> /\ req[r].kind = "use_code"
        /\ \E u \in Users, l \in Lists : db[PermKey(u, l)] = NoRow /\ db'[PermKey(u, l)] # NoRow)
         => db[TokenKey(req[r].code)] # NoRow]_<<db, pc>>
=============================================================================
