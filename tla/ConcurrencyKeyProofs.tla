------------------------ MODULE ConcurrencyKeyProofs -------------------------
(***************************************************************************)
(* Any number of requests, statement by statement: no foreign key is left       *)
(* dangling and everyone who had a share is told that the list has gone,         *)
(* because of what an INSERT locks of its parents, a cascade of the children,     *)
(* and an INSERT ... SELECT of what it reads.                                   *)
(***************************************************************************)
EXTENDS ConcurrencyProofs

(* Where requests are *)

AllRequests == Uploads \cup Deletions \cup WebDeletions \cup WebEdits
               \cup ListUploads \cup ListDeletions \cup CodeUses \cup AccountDeletions

\* Those that tell others of a list that goes.
Tells == {"list_delete", "delete_account"}

\* What r carries, by the statement that it has come to.
Placed(r) ==
  LET s == pc[r][1]
      kind == req[r].kind
  IN  /\ s = "new" => DOMAIN written[r] = {}
      /\ s \notin {"new", "failed"} => req[r] \in AllRequests
      /\ s \in {"lock", "insert", "remove", "bury", "change"} => kind \notin Tells
      /\ s \in {"touch", "bury_shares"} => kind = "list_delete"
      /\ s \in {"tombstone", "drop"} => kind \in {"list_delete", "web_list_delete"}
      /\ s \in {"lock_list", "insert_list"} => kind = "list_upload"
      /\ s \in {"tombstone", "bury_shares", "drop", "lock_list", "insert_list"} =>
           pc[r][2] = req[r].list
      /\ s = "grant" => kind = "use_code" /\ pc[r][2].list \in Lists
      /\ s = "spend" => kind = "use_code"
      /\ s \in {"tomb_user", "bury_owned", "drop_user"} => kind = "delete_account"

\* Codes are not made here, nor users.
Given ==
  /\ \A t \in Tokens : db[TokenKey(t)] # NoRow => db[TokenKey(t)].list \in Lists
  /\ \A r \in Requests :
       /\ \A t \in Tokens : ~Stores(r, TokenKey(t))
       /\ \A u \in Users : ~Stores(r, UserKey(u))

Places == Given /\ \A r \in Requests : Placed(r)

(* What is locked, and what refers to what *)

\* Locks are on rows or ranges, and exclude each other.
LocksInv ==
  /\ locks \subseteq Requests \X (Keys \cup Ranges) \X Modes
  /\ \A held, other \in locks :
       held[1] # other[1] /\ held[2] = other[2] => other[3] \notin Excluded(held[3])

Holds(r, k) == \E m \in Modes : <<r, k, m>> \in locks

\* Every foreign key of table t has its row.
Sound(t) ==
  /\ \A e \in Entries : /\ t[EntryKey(e)] # NoRow => t[ListKey(Home[e])] # NoRow
                        /\ t[EntryTomb(e)] # NoRow => t[ListKey(Home[e])] # NoRow
  /\ \A l \in Lists :
       /\ t[ListKey(l)] # NoRow => /\ t[ListKey(l)].owner \in Users
                                   /\ t[UserKey(t[ListKey(l)].owner)] # NoRow
       /\ t[ListTomb(l)] # NoRow => /\ t[ListTomb(l)].owner \in Users
                                    /\ t[UserKey(t[ListTomb(l)].owner)] # NoRow
  /\ \A u \in Users, l \in Lists :
       /\ t[PermKey(u, l)] # NoRow => t[ListKey(l)] # NoRow /\ t[UserKey(u)] # NoRow
       /\ t[ShareTomb(u, l)] # NoRow => t[UserKey(u)] # NoRow

\* What r writes is locked X, and so are, in some mode, the parents of rows that
\* no cascade knows by their key; what r removes it removes with all children.
Secured(r) ==
  /\ DOMAIN written[r] \subseteq Keys
  /\ \A k \in DOMAIN written[r] : Stores(r, k) => <<r, k, "X">> \in locks
  /\ \A l \in Lists :
       /\ Stores(r, ListKey(l)) => /\ written[r][ListKey(l)].owner \in Users
                                   /\ Holds(r, UserKey(written[r][ListKey(l)].owner))
                                   /\ <<r, ListsOf(written[r][ListKey(l)].owner), "enter">> \in locks
       /\ Stores(r, ListTomb(l)) => /\ written[r][ListTomb(l)].owner \in Users
                                    /\ Holds(r, UserKey(written[r][ListTomb(l)].owner))
       /\ Removes(r, ListKey(l)) =>
            /\ \A u \in Users : Removes(r, PermKey(u, l))
            /\ \A e \in Entries : Home[e] = l =>
                 Removes(r, EntryKey(e)) /\ Removes(r, EntryTomb(e))
  /\ \A u \in Users : Removes(r, UserKey(u)) =>
       pc[r][1] = "commit" /\ \A l \in Lists : Removes(r, PermKey(u, l)) /\ Removes(r, ShareTomb(u, l))

KeysInv == Sound(db) /\ \A r \in Requests : Sound(Now(r)) /\ Secured(r)

(* Who is told of a list that goes *)

\* Nobody else gives u a share of l or takes it, and if u has one r has told u.
Told(r, u, l) ==
  /\ Holds(r, PermKey(u, l))
  /\ db[PermKey(u, l)] # NoRow => Stores(r, ShareTomb(u, l))

SharesOf(r) ==
  /\ pc[r][1] # "commit" => \A u \in Users, l \in Lists :
       PermKey(u, l) \notin DOMAIN written[r] /\ ListKey(l) \notin DOMAIN written[r]
  /\ pc[r][1] = "drop" => \A u \in Users : Told(r, u, pc[r][2])
  /\ pc[r][1] = "drop_user" =>
       /\ <<r, ListsOf(req[r].user), "gap">> \in locks
       /\ \A l \in Lists : db[ListKey(l)] # NoRow /\ db[ListKey(l)].owner = req[r].user =>
            Holds(r, ListKey(l)) /\ \A u \in Users : Told(r, u, l)
  /\ \A u \in Users, l \in Lists :
       Removes(r, PermKey(u, l)) => Removes(r, UserKey(u)) \/ Told(r, u, l)

SharesInv == \A r \in Requests : req[r].kind \in Tells => SharesOf(r)

KInv == Places /\ LocksInv /\ KeysInv /\ SharesInv
-----------------------------------------------------------------------------
\* The names of rows tell their table and their primary key.
LEMMA Names ==
  /\ \A e : EntryKey(e)[1] = "entries" /\ EntryKey(e)[2] = e
  /\ \A e : EntryTomb(e)[1] = "deleted_entry" /\ EntryTomb(e)[2] = e
  /\ \A u : UserKey(u)[1] = "users" /\ UserKey(u)[2] = u
  /\ \A u : UserTomb(u)[1] = "deleted_user" /\ UserTomb(u)[2] = u
  /\ \A l : ListKey(l)[1] = "lists" /\ ListKey(l)[2] = l
  /\ \A l : ListTomb(l)[1] = "deleted_list" /\ ListTomb(l)[2] = l
  /\ \A t : TokenKey(t)[1] = "share_token" /\ TokenKey(t)[2] = t
  /\ \A u, l : /\ PermKey(u, l)[1] = "list_permissions"
               /\ PermKey(u, l)[2][1] = u /\ PermKey(u, l)[2][2] = l
  /\ \A u, l : /\ ShareTomb(u, l)[1] = "deleted_list_shared"
               /\ ShareTomb(u, l)[2][1] = u /\ ShareTomb(u, l)[2][2] = l
  /\ \A u : ListsOf(u)[1] = "lists.owner" /\ ListsOf(u)[2] = u
BY DEF EntryKey, EntryTomb, UserKey, UserTomb, ListKey, ListTomb, TokenKey, PermKey,
       ShareTomb, ListsOf

\* All of them are there, and ranges are no rows.
LEMMA NamesAreKeys ==
  /\ \A e \in Entries : EntryKey(e) \in Keys /\ EntryTomb(e) \in Keys
  /\ \A u \in Users : UserKey(u) \in Keys /\ UserTomb(u) \in Keys /\ ListsOf(u) \in Ranges
  /\ \A l \in Lists : ListKey(l) \in Keys /\ ListTomb(l) \in Keys
  /\ \A t \in Tokens : TokenKey(t) \in Keys
  /\ \A u \in Users, l \in Lists : PermKey(u, l) \in Keys /\ ShareTomb(u, l) \in Keys
BY DEF EntryKey, EntryTomb, UserKey, UserTomb, ListKey, ListTomb, TokenKey, PermKey,
       ShareTomb, ListsOf, Keys, Ranges

\* What a request carries, in its parts.
LEMMA RequestFacts ==
  ASSUME NEW q \in AllRequests
  PROVE  /\ q.user \in Users
         /\ q.kind \in {"list_upload", "list_delete", "web_list_delete"} => q.list \in Lists
         /\ q.kind = "use_code" => q.code \in Tokens
BY DEF AllRequests, Uploads, Deletions, WebDeletions, WebEdits, ListUploads, ListDeletions,
       CodeUses, AccountDeletions

\* What statements wish to lock is there to be locked.
Lockable(wishes) == \A w \in wishes : w[1] \in Keys \cup Ranges

\* The statements on a single row, and what an INSERT looks up of the rows it refers to,
\* ask for locks of rows that the tables have.
LEMMA LockableRows ==
  /\ \A e \in Entries : Lockable(EntryLock(e)) /\ Lockable(InsertLocks(e)) /\ Lockable(TombLocks(e))
  /\ \A u \in Users : Lockable(UserTombLocks(u)) /\ Lockable({<<UserKey(u), "update">>})
  /\ \A u \in Users, l \in Lists :
       /\ Lockable(ListLock(l)) /\ Lockable(InsertListLocks(u, l))
       /\ Lockable(ListTombLocks(u, l)) /\ Lockable(GrantLocks(u, l))
  /\ \A t \in Tokens : Lockable({<<TokenKey(t), "update">>})
<1> USE NamesAreKeys, TransactionsAssumption
<1>1. \A e \in Entries : /\ Lockable(EntryLock(e)) /\ Lockable(InsertLocks(e))
                         /\ Lockable(TombLocks(e))
  BY DEF Lockable, EntryLock, InsertLocks, TombLocks
<1>2. \A u \in Users : Lockable(UserTombLocks(u)) /\ Lockable({<<UserKey(u), "update">>})
  BY DEF Lockable, UserTombLocks
<1>3. \A u \in Users, l \in Lists :
       /\ Lockable(ListLock(l)) /\ Lockable(InsertListLocks(u, l))
       /\ Lockable(ListTombLocks(u, l)) /\ Lockable(GrantLocks(u, l))
  BY DEF Lockable, ListLock, InsertListLocks, ListTombLocks, GrantLocks
<1>4. \A t \in Tokens : Lockable({<<TokenKey(t), "update">>})
  BY DEF Lockable
<1> QED BY <1>1, <1>2, <1>3, <1>4

\* What depends on a list, key by key.
LEMMA DependentsFacts ==
  ASSUME NEW r, NEW l \in Lists
  PROVE  /\ Dependents(r, l) \subseteq Keys
         /\ \A v \in Users : PermKey(v, l) \in Dependents(r, l)
         /\ \A e \in Entries : Home[e] = l =>
              EntryKey(e) \in Dependents(r, l) /\ EntryTomb(e) \in Dependents(r, l)
         /\ \A k \in Dependents(r, l) :
              \/ \E v \in Users : k = PermKey(v, l)
              \/ \E e \in Entries : Home[e] = l /\ (k = EntryKey(e) \/ k = EntryTomb(e))
              \/ \E t \in Tokens : k = TokenKey(t)
<1>1. \A k \in Dependents(r, l) :
              \/ \E v \in Users : k = PermKey(v, l)
              \/ \E e \in Entries : Home[e] = l /\ (k = EntryKey(e) \/ k = EntryTomb(e))
              \/ \E t \in Tokens : k = TokenKey(t)
  BY DEF Dependents
<1>2. Dependents(r, l) \subseteq Keys
  BY <1>1, NamesAreKeys
<1>3. /\ \A v \in Users : PermKey(v, l) \in Dependents(r, l)
      /\ \A e \in Entries : Home[e] = l =>
              EntryKey(e) \in Dependents(r, l) /\ EntryTomb(e) \in Dependents(r, l)
  BY DEF Dependents
<1> QED BY <1>1, <1>2, <1>3

\* What belongs to a user, key by key.
LEMMA BelongingsFacts ==
  ASSUME NEW r, NEW u \in Users
  PROVE  /\ Belongings(r, u) \subseteq Keys
         /\ \A l \in Lists : PermKey(u, l) \in Belongings(r, u) /\ ShareTomb(u, l) \in Belongings(r, u)
         /\ \A l \in OwnedNow(r, u) :
              ListKey(l) \in Belongings(r, u) /\ Dependents(r, l) \subseteq Belongings(r, u)
         /\ \A l \in Lists : Exists(r, ListTomb(l)) /\ Now(r)[ListTomb(l)].owner = u =>
              ListTomb(l) \in Belongings(r, u)
         /\ \A k \in Belongings(r, u) :
              \/ \E l \in Lists : k \in {PermKey(u, l), ShareTomb(u, l), ListTomb(l)}
              \/ \E l \in OwnedNow(r, u) : k = ListKey(l) \/ k \in Dependents(r, l)
<1>1. \A k \in Belongings(r, u) :
              \/ \E l \in Lists : k \in {PermKey(u, l), ShareTomb(u, l), ListTomb(l)}
              \/ \E l \in OwnedNow(r, u) : k = ListKey(l) \/ k \in Dependents(r, l)
  BY DEF Belongings
<1>2. Belongings(r, u) \subseteq Keys
  BY <1>1, NamesAreKeys, DependentsFacts DEF OwnedNow
<1>3. \A l \in Lists : PermKey(u, l) \in Belongings(r, u) /\ ShareTomb(u, l) \in Belongings(r, u)
  BY DEF Belongings
<1>4. \A l \in OwnedNow(r, u) :
              ListKey(l) \in Belongings(r, u) /\ Dependents(r, l) \subseteq Belongings(r, u)
  BY DEF Belongings
<1>5. \A l \in Lists : Exists(r, ListTomb(l)) /\ Now(r)[ListTomb(l)].owner = u =>
              ListTomb(l) \in Belongings(r, u)
  BY DEF Belongings
<1> QED BY <1>1, <1>2, <1>3, <1>4, <1>5

\* So do the statements that take several rows: a cascade and a copy of shares.
LEMMA LockableLists ==
  ASSUME NEW r
  PROVE  /\ \A l \in Lists : Lockable(DropLocks(r, l)) /\ Lockable(BuryLocks(r, l))
         /\ \A u \in Users : Lockable(BuryOwnedLocks(r, u)) /\ Lockable(DropUserLocks(r, u))
<1>1. ASSUME NEW l \in Lists PROVE Lockable(DropLocks(r, l))
  BY NamesAreKeys, DependentsFacts DEF Lockable, DropLocks, ListLock
<1>2. ASSUME NEW l \in Lists PROVE Lockable(BuryLocks(r, l))
  BY NamesAreKeys DEF Lockable, BuryLocks, SharedWith
<1>3. ASSUME NEW u \in Users PROVE Lockable(BuryOwnedLocks(r, u))
  BY NamesAreKeys, <1>2 DEF Lockable, BuryOwnedLocks, OwnedNow
<1>4. ASSUME NEW u \in Users PROVE Lockable(DropUserLocks(r, u))
  BY NamesAreKeys, BelongingsFacts DEF Lockable, DropUserLocks
<1> QED BY <1>1, <1>2, <1>3, <1>4

\* All that a request may wait for, too.
LEMMA LockableWishes ==
  ASSUME NEW r \in Requests, Placed(r)
  PROVE  Lockable(Wishes[r])
<1> SUFFICES ASSUME Active(r) PROVE Lockable(Wishes[r])
  BY DEF Wishes, Lockable
<1>1. pc[r] \notin {<<"new">>, <<"done">>, <<"failed">>}
  BY DEF Active, Waiting, Ended
<1>2. Lockable(EntryWishes(r))
  BY LockableRows DEF EntryWishes, Lockable
<1>3. CASE pc[r][1] \notin {"new", "failed"}
  <2>1. req[r].user \in Users
    BY <1>3, RequestFacts DEF Placed
  <2>2. Lockable(ListWishes(r))
    <3>1. pc[r] = <<"touch">> => Lockable({<<UserKey(req[r].user), "update">>})
      BY <2>1, LockableRows
    <3>2. pc[r] = <<"spend">> => Lockable({<<TokenKey(req[r].code), "update">>})
      BY <1>3, RequestFacts, LockableRows DEF Placed
    <3>3. pc[r][1] \in {"tombstone", "bury_shares", "drop", "lock_list", "insert_list"} =>
            pc[r][2] \in Lists
      BY <1>3, RequestFacts DEF Placed
    <3>4. pc[r][1] = "grant" => pc[r][2].list \in Lists
      BY DEF Placed
    <3>5. Lockable({})
      BY DEF Lockable
    <3> QED BY <2>1, <3>1, <3>2, <3>3, <3>4, <3>5, LockableRows, LockableLists DEF ListWishes
  <2>3. Lockable(AccountWishes(r))
    <3>1. Lockable({})
      BY DEF Lockable
    <3> QED BY <2>1, <3>1, LockableRows, LockableLists DEF AccountWishes
  <2> QED BY <1>2, <2>2, <2>3 DEF Wishes, Lockable
<1>4. CASE pc[r][1] \in {"new", "failed"}
  <2>1. ListWishes(r) = {}
    BY <1>4 DEF ListWishes
  <2>2. AccountWishes(r) = {}
    BY <1>4 DEF AccountWishes
  <2> QED BY <1>2, <2>1, <2>2 DEF Wishes, Lockable
<1> QED BY <1>3, <1>4
-----------------------------------------------------------------------------
\* Locks that are granted exclude no lock that another request holds.
LEMMA GrantKeepsLocks ==
  ASSUME LocksInv, NEW r \in Requests, NEW wishes, Lockable(wishes),
         WaitsFor(r, wishes) = {}, locks' = locks \cup LocksFor(r, wishes)
  PROVE  LocksInv'
<1>1. \A w \in wishes : Mode(r, w[1], w[2]) \in Modes
  BY DEF Mode, Modes
<1>2. \A w \in wishes : Blockers(r, w[1], w[2]) = {}
  BY DEF WaitsFor
<1>3. locks' \subseteq Requests \X (Keys \cup Ranges) \X Modes
  BY <1>1 DEF LocksInv, LocksFor, Lockable
<1>4. \A m, n \in Modes : n \in Excluded(m) <=> m \in Excluded(n)
  BY DEF Modes, Excluded
<1>5. ASSUME NEW a \in locks, NEW w \in wishes, a[1] # r, a[2] = w[1]
      PROVE  /\ a[3] \notin Excluded(Mode(r, w[1], w[2]))
             /\ Mode(r, w[1], w[2]) \notin Excluded(a[3])
  <2>1. a = <<a[1], a[2], a[3]>> /\ a[1] \in Requests /\ a[3] \in Modes
    BY DEF LocksInv
  <2>2. \A m \in Excluded(Mode(r, w[1], w[2])) : <<a[1], w[1], m>> \notin locks
    BY <1>2, <1>5, <2>1 DEF Blockers
  <2>3. a[3] \notin Excluded(Mode(r, w[1], w[2]))
    BY <1>5, <2>1, <2>2
  <2> QED BY <1>1, <1>4, <2>1, <2>3
<1>6. ASSUME NEW a \in locks', NEW b \in locks', a[1] # b[1], a[2] = b[2]
      PROVE  b[3] \notin Excluded(a[3])
  <2>1. CASE a \in locks /\ b \in locks
    BY <1>6, <2>1 DEF LocksInv
  <2>2. CASE a \in locks /\ b \notin locks
    <3>1. PICK w \in wishes : b = <<r, w[1], Mode(r, w[1], w[2])>>
      BY <2>2 DEF LocksFor
    <3> QED BY <1>5, <1>6, <2>2, <3>1
  <2>3. CASE a \notin locks /\ b \in locks
    <3>1. PICK w \in wishes : a = <<r, w[1], Mode(r, w[1], w[2])>>
      BY <2>3 DEF LocksFor
    <3> QED BY <1>5, <1>6, <2>3, <3>1
  <2>4. CASE a \notin locks /\ b \notin locks
    BY <1>6, <2>4 DEF LocksFor
  <2> QED BY <2>1, <2>2, <2>3, <2>4
<1> QED BY <1>3, <1>6 DEF LocksInv

\* What others have done and hold is as it was, after a step of r that is no commit.
LEMMA OthersKeep ==
  ASSUME KInv, NEW r \in Requests, UNCHANGED db, NEW t \in Requests \ {r},
         written'[t] = written[t], pc'[t] = pc[t], req'[t] = req[t],
         \A l \in locks : l[1] = t => l \in locks'
  PROVE  /\ Placed(t)' /\ Sound(Now(t))' /\ Secured(t)'
         /\ req'[t].kind \in Tells => SharesOf(t)'
         /\ \A k : Stores(t, k)' => Stores(t, k)
<1>1. Placed(t)'
  BY DEF KInv, Places, Placed
<1>2. Now(t)' = Now(t)
  BY DEF Now
<1>3. Sound(Now(t))'
  BY <1>2 DEF KInv, KeysInv, Sound
<1>4. /\ \A k : Stores(t, k)' <=> Stores(t, k)
      /\ \A k : Removes(t, k)' <=> Removes(t, k)
      /\ \A k : Holds(t, k) => Holds(t, k)'
  BY DEF Stores, Removes, Holds
<1>5. Secured(t)'
  <2>1. Secured(t)
    BY DEF KInv, KeysInv
  <2> QED BY <1>4, <2>1 DEF Secured
<1>6. \A u, l : Told(t, u, l) => Told(t, u, l)'
  BY <1>4 DEF Told
<1>7. req'[t].kind \in Tells => SharesOf(t)'
  BY <1>4, <1>6 DEF KInv, SharesInv, SharesOf
<1> QED BY <1>1, <1>3, <1>4, <1>5, <1>7

\* The rest of what holds after such a step is about r.
LEMMA StepKeeps ==
  ASSUME KInv, NEW r \in Requests, UNCHANGED db, LocksInv',
         \A t \in Requests \ {r} :
           written'[t] = written[t] /\ pc'[t] = pc[t] /\ req'[t] = req[t],
         \A l \in locks : l[1] # r => l \in locks',
         Placed(r)', Sound(Now(r))', Secured(r)',
         \A t \in Tokens : ~Stores(r, TokenKey(t))', \A u \in Users : ~Stores(r, UserKey(u))',
         req'[r].kind \in Tells => SharesOf(r)'
  PROVE  KInv'
<1>1. \A t \in Requests \ {r} : /\ Placed(t)' /\ Sound(Now(t))' /\ Secured(t)'
                                /\ req'[t].kind \in Tells => SharesOf(t)'
                                /\ \A k : Stores(t, k)' => Stores(t, k)
  <2> TAKE t \in Requests \ {r}
  <2>1. \A l \in locks : l[1] = t => l \in locks'
    OBVIOUS
  <2> QED BY <2>1, OthersKeep
<1>2. Given'
  BY <1>1 DEF KInv, Places, Given
<1>3. Places'
  BY <1>1, <1>2 DEF Places
<1>4. Sound(db)'
  BY DEF KInv, KeysInv, Sound
<1>5. KeysInv'
  BY <1>1, <1>4 DEF KeysInv
<1>6. SharesInv'
  BY <1>1 DEF SharesInv
<1> QED BY <1>3, <1>5, <1>6 DEF KInv

\* A step that writes nothing and lets no lock go.
LEMMA QuietKeeps ==
  ASSUME IInv, KInv, NEW r \in Requests, UNCHANGED <<db, written>>, LocksInv', locks \subseteq locks',
         \A t \in Requests \ {r} : pc'[t] = pc[t] /\ req'[t] = req[t],
         pc[r][1] # "commit", Placed(r)', req'[r].kind \in Tells => SharesOf(r)'
  PROVE  KInv'
<1>1. Now(r)' = Now(r)
  BY DEF Now
<1>2. Sound(Now(r))'
  BY <1>1 DEF KInv, KeysInv, Sound
<1>3. /\ \A k : Stores(r, k)' <=> Stores(r, k)
      /\ \A k : Removes(r, k)' <=> Removes(r, k)
      /\ \A k : Holds(r, k) => Holds(r, k)'
  BY DEF Stores, Removes, Holds
<1>4. Secured(r) /\ Given
  BY DEF KInv, KeysInv, Places
<1>5. Secured(r)'
  BY <1>3, <1>4 DEF Secured
<1>6. /\ \A t \in Tokens : ~Stores(r, TokenKey(t))'
      /\ \A u \in Users : ~Stores(r, UserKey(u))'
  BY <1>3, <1>4 DEF Given
<1> QED BY <1>2, <1>5, <1>6, StepKeeps

\* What r finds in the tables after it has written some rows.
LEMMA NowAfterWrite ==
  ASSUME DOMAIN written = Requests, NEW r \in Requests, NEW rows, Write(r, rows), UNCHANGED db
  PROVE  \A k \in Keys : Now(r)'[k] = IF k \in DOMAIN rows THEN rows[k] ELSE Now(r)[k]
<1>1. /\ DOMAIN written'[r] = DOMAIN written[r] \cup DOMAIN rows
      /\ \A k \in DOMAIN rows : written'[r][k] = rows[k]
      /\ \A k \in DOMAIN written[r] \ DOMAIN rows : written'[r][k] = written[r][k]
  BY WriteFacts
<1> QED BY <1>1 DEF Now

\* A statement that inserts, changes or removes rows: each row that it stores is
\* locked X, a list that it removes goes with its dependents.
LEMMA WriteKeeps ==
  ASSUME IInv, KInv, NEW r \in Requests, NEW s, NEW wishes, NEW rows,
         Statement(r, s, wishes), Lockable(wishes), Write(r, rows),
         s[1] # "commit", \A t \in Requests \ {r} : pc'[t] = pc[t],
         DOMAIN rows \subseteq Keys,
         \A k \in DOMAIN rows : rows[k] # NoRow =>
           /\ \E w \in wishes : w[1] = k /\ Mode(r, k, w[2]) = "X"
           /\ k[1] \notin {"users", "share_token"},
         \A l \in Lists : ListKey(l) \in DOMAIN rows =>
           \/ /\ rows[ListKey(l)] # NoRow /\ rows[ListKey(l)].owner \in Users
              /\ \E m \in Modes : <<r, UserKey(rows[ListKey(l)].owner), m>> \in locks'
              /\ <<r, ListsOf(rows[ListKey(l)].owner), "enter">> \in locks'
           \/ /\ Dependents(r, l) \subseteq DOMAIN rows
              /\ rows[ListKey(l)] = NoRow /\ \A k \in Dependents(r, l) : rows[k] = NoRow,
         \A l \in Lists : ListTomb(l) \in DOMAIN rows =>
           \/ /\ rows[ListTomb(l)].owner \in Users
              /\ \E m \in Modes : <<r, UserKey(rows[ListTomb(l)].owner), m>> \in locks'
           \/ rows[ListTomb(l)] = NoRow,
         \A u \in Users : UserKey(u) \in DOMAIN rows =>
           /\ pc'[r][1] = "commit"
           /\ \A l \in Lists : /\ {PermKey(u, l), ShareTomb(u, l)} \subseteq DOMAIN rows
                               /\ rows[PermKey(u, l)] = NoRow /\ rows[ShareTomb(u, l)] = NoRow,
         Sound(Now(r))', Placed(r)', req[r].kind \in Tells => SharesOf(r)'
  PROVE  KInv'
<1>1. /\ pc[r] = s /\ UNCHANGED <<db, req>> /\ locks \subseteq locks'
      /\ locks' = locks \cup LocksFor(r, wishes) /\ WaitsFor(r, wishes) = {}
  BY DEF Statement, requestVars
<1>2. LocksInv'
  BY <1>1, GrantKeepsLocks DEF KInv
<1>3. /\ DOMAIN written'[r] = DOMAIN written[r] \cup DOMAIN rows
      /\ \A k \in DOMAIN rows : written'[r][k] = rows[k]
      /\ \A k \in DOMAIN written[r] \ DOMAIN rows : written'[r][k] = written[r][k]
      /\ \A t \in Requests \ {r} : written'[t] = written[t]
  BY WriteFacts DEF IInv, Locking, Shape
<1>4. /\ Secured(r) /\ Given /\ \A l \in Lists : ~Removes(r, ListKey(l))
      /\ \A u \in Users : ~Removes(r, UserKey(u))
  BY <1>1 DEF KInv, KeysInv, Places, Secured, IInv, RemovalsOf
<1>5. \A k : Stores(r, k)' => \/ k \in DOMAIN rows /\ rows[k] # NoRow /\ written'[r][k] = rows[k]
                              \/ Stores(r, k) /\ written'[r][k] = written[r][k]
  BY <1>3 DEF Stores
<1>6. \A k : Removes(r, k)' => \/ k \in DOMAIN rows /\ rows[k] = NoRow
                               \/ Removes(r, k)
  BY <1>3 DEF Removes
<1>7. \A k \in DOMAIN rows : rows[k] = NoRow => Removes(r, k)'
  BY <1>3 DEF Removes
<1>8. \A k : Holds(r, k) => Holds(r, k)'
  BY <1>1 DEF Holds
<1>9. Secured(r)'
  <2>1. (DOMAIN written[r] \subseteq Keys)'
    BY <1>3, <1>4 DEF Secured
  <2>2. ASSUME NEW k \in DOMAIN written'[r], Stores(r, k)' PROVE <<r, k, "X">> \in locks'
    <3>1. CASE Stores(r, k)
      BY <1>1, <1>4, <3>1 DEF Secured, Stores
    <3>2. CASE k \in DOMAIN rows /\ rows[k] # NoRow
      <4>1. PICK w \in wishes : w[1] = k /\ Mode(r, k, w[2]) = "X"
        BY <3>2
      <4> QED BY <1>1, <4>1 DEF LocksFor
    <3> QED BY <1>5, <2>2, <3>1, <3>2
  <2>3. ASSUME NEW l \in Lists, Stores(r, ListKey(l))'
        PROVE  /\ written'[r][ListKey(l)].owner \in Users
               /\ Holds(r, UserKey(written[r][ListKey(l)].owner))'
               /\ <<r, ListsOf(written'[r][ListKey(l)].owner), "enter">> \in locks'
    <3>1. CASE ListKey(l) \in DOMAIN rows /\ rows[ListKey(l)] # NoRow
                /\ written'[r][ListKey(l)] = rows[ListKey(l)]
      BY <3>1 DEF Holds
    <3>2. CASE Stores(r, ListKey(l)) /\ written'[r][ListKey(l)] = written[r][ListKey(l)]
      BY <1>1, <1>4, <3>2 DEF Secured, Holds
    <3> QED BY <1>5, <2>3, <3>1, <3>2
  <2>4. ASSUME NEW l \in Lists, Stores(r, ListTomb(l))'
        PROVE  /\ written'[r][ListTomb(l)].owner \in Users
               /\ Holds(r, UserKey(written[r][ListTomb(l)].owner))'
    <3>1. CASE ListTomb(l) \in DOMAIN rows /\ rows[ListTomb(l)] # NoRow
                /\ written'[r][ListTomb(l)] = rows[ListTomb(l)]
      BY <3>1 DEF Holds
    <3>2. CASE Stores(r, ListTomb(l)) /\ written'[r][ListTomb(l)] = written[r][ListTomb(l)]
      BY <1>1, <1>4, <3>2 DEF Secured, Holds
    <3> QED BY <1>5, <2>4, <3>1, <3>2
  <2>5. ASSUME NEW l \in Lists, Removes(r, ListKey(l))'
        PROVE  /\ \A u \in Users : Removes(r, PermKey(u, l))'
               /\ \A e \in Entries : Home[e] = l =>
                    Removes(r, EntryKey(e))' /\ Removes(r, EntryTomb(e))'
    <3>1. ListKey(l) \in DOMAIN rows /\ rows[ListKey(l)] = NoRow
      BY <1>4, <1>6, <2>5
    <3>2. \A k \in Dependents(r, l) : Removes(r, k)'
      BY <1>7, <3>1
    <3> QED BY <3>2, DependentsFacts
  <2>6. ASSUME NEW u \in Users, Removes(r, UserKey(u))'
        PROVE  /\ pc'[r][1] = "commit"
               /\ \A l \in Lists : Removes(r, PermKey(u, l))' /\ Removes(r, ShareTomb(u, l))'
    BY <1>4, <1>6, <1>7, <2>6
  <2> QED BY <2>1, <2>2, <2>3, <2>4, <2>5, <2>6 DEF Secured
<1>10. /\ \A t \in Tokens : ~Stores(r, TokenKey(t))'
       /\ \A u \in Users : ~Stores(r, UserKey(u))'
  BY <1>4, <1>5, Names DEF Given
<1> QED BY <1>1, <1>2, <1>3, <1>9, <1>10, StepKeeps

\* One that has nothing to do with lists, their tombstones and users.
LEMMA PlainWriteKeeps ==
  ASSUME IInv, KInv, NEW r \in Requests, NEW s, NEW wishes, NEW rows,
         Statement(r, s, wishes), Lockable(wishes), Write(r, rows),
         s[1] # "commit", \A t \in Requests \ {r} : pc'[t] = pc[t],
         DOMAIN rows \subseteq Keys,
         \A k \in DOMAIN rows :
           /\ k[1] \notin {"users", "lists", "deleted_list"}
           /\ rows[k] # NoRow => /\ \E w \in wishes : w[1] = k /\ Mode(r, k, w[2]) = "X"
                                 /\ k[1] # "share_token",
         Sound(Now(r))', Placed(r)', req[r].kind \in Tells => SharesOf(r)'
  PROVE  KInv'
<1>1. /\ \A l : ListKey(l) \notin DOMAIN rows /\ ListTomb(l) \notin DOMAIN rows
      /\ \A u : UserKey(u) \notin DOMAIN rows
  BY Names
<1> QED BY <1>1, WriteKeeps
-----------------------------------------------------------------------------
(* Requests that come, wait, read and end *)

\* A request that has not begun has written nothing that its end must answer for.
LEMMA ArriveKeepsK == ASSUME IInv, KInv, NEW r \in Requests, Arrive(r) PROVE KInv'
<1>1. PICK q \in AllRequests, s \in {<<"select">>, <<"touch">>} :
        Begin(r, q, s) /\ (s = <<"touch">> => q.kind = "list_delete")
  <2>1. CASE BeginEntries(r)
    BY <2>1 DEF BeginEntries, AllRequests
  <2>2. CASE BeginLists(r)
    BY <2>2 DEF BeginLists, AllRequests
  <2>3. CASE BeginAccounts(r)
    BY <2>3 DEF BeginAccounts, AllRequests
  <2> QED BY <2>1, <2>2, <2>3 DEF Arrive
<1>2. /\ pc[r] = <<"new">> /\ Go(r, s) /\ UNCHANGED <<db, written, locks>>
      /\ req' = [req EXCEPT ![r] = q]
  BY <1>1 DEF Begin, Waiting
<1>3. /\ pc'[r] = s /\ \A t \in Requests \ {r} : pc'[t] = pc[t]
  BY <1>2, GoFacts DEF IInv, Locking, Shape
<1>4. /\ req'[r] = q /\ \A t \in Requests \ {r} : req'[t] = req[t]
  BY <1>2 DEF IInv, Locking, Shape
<1>5. LocksInv'
  BY <1>2 DEF KInv, LocksInv
<1>6. pc[r][1] = "new" /\ pc'[r][1] \in {"select", "touch"}
      /\ (pc'[r][1] = "touch" => q.kind = "list_delete")
  BY <1>1, <1>2, <1>3
<1>7. Placed(r)'
  BY <1>1, <1>4, <1>6 DEF Placed
<1>8. SharesOf(r)'
  <2>1. DOMAIN written[r] = {}
    BY <1>2 DEF KInv, Places, Placed
  <2> QED BY <1>2, <1>6, <2>1 DEF SharesOf, Removes
<1> QED BY <1>2, <1>3, <1>4, <1>5, <1>6, <1>7, <1>8, QuietKeeps

\* The plain SELECTs send a request on to the statements of its kind.
LEMMA LookKeepsK ==
  ASSUME IInv, KInv, NEW r \in Requests, Look(r),
         \A t \in Requests \ {r} : pc'[t] = pc[t],
         \/ pc'[r][1] \in {"commit", "fail"}
         \/ pc'[r][1] \in {"lock", "insert", "remove", "bury", "change"} /\ req[r].kind \notin Tells
         \/ pc'[r] = <<"tombstone", req[r].list>> /\ req[r].kind \in {"list_delete", "web_list_delete"}
         \/ pc'[r] = <<"lock_list", req[r].list>> /\ req[r].kind = "list_upload"
         \/ pc'[r][1] = "grant" /\ req[r].kind = "use_code" /\ pc'[r][2].list \in Lists
         \/ pc'[r] = <<"tomb_user">> /\ req[r].kind = "delete_account"
  PROVE  KInv'
<1>1. pc[r] = <<"select">> /\ UNCHANGED <<db, written, locks, req>>
  BY DEF Look
<1>2. pc[r][1] = "select"
  BY <1>1
<1>3. LocksInv'
  BY <1>1 DEF KInv, LocksInv
<1>4. pc'[r][1] \in {"commit", "fail", "lock", "insert", "remove", "bury", "change", "tombstone",
                     "lock_list", "grant", "tomb_user"}
  OBVIOUS
<1>5. Placed(r)'
  <2>1. req[r] \in AllRequests
    BY <1>2 DEF KInv, Places, Placed
  <2> QED BY <1>1, <1>4, <2>1 DEF Placed, Tells
<1>6. req[r].kind \in Tells => SharesOf(r)'
  <2> SUFFICES ASSUME req[r].kind \in Tells PROVE SharesOf(r)'
    OBVIOUS
  <2>1. SharesOf(r)
    BY DEF KInv, SharesInv
  <2>2. \A u \in Users, l \in Lists : PermKey(u, l) \notin DOMAIN written[r]
                                      /\ ListKey(l) \notin DOMAIN written[r]
    BY <1>2, <2>1 DEF SharesOf
  <2> QED BY <1>1, <1>4, <2>2 DEF SharesOf, Removes
<1> QED BY <1>1, <1>2, <1>3, <1>5, <1>6, QuietKeeps

\* The plain SELECTs neither lock nor write: keys and shares stay as they are.
LEMMA LooksKeepK ==
  ASSUME IInv, KInv, NEW r \in Requests,
         SelectUpload(r) \/ SelectDeletion(r) \/ SelectWebDeletion(r) \/ SelectListDeletion(r)
         \/ SelectWebListDeletion(r) \/ SelectListUpload(r) \/ SelectCode(r)
         \/ SelectWebEdit(r) \/ SelectAccount(r)
  PROVE  KInv'
<1> USE DEF IInv, Locking, Shape
<1>0. Look(r)
  BY DEF SelectUpload, SelectDeletion, SelectWebDeletion, SelectListDeletion,
         SelectWebListDeletion, SelectListUpload, SelectCode, SelectWebEdit, SelectAccount
<1>1. CASE SelectUpload(r)
  <2>1. /\ req[r].kind \notin Tells /\ pc'[r][1] \in {"commit", "fail", "lock"}
        /\ \A t \in Requests \ {r} : pc'[t] = pc[t]
    BY <1>1, GoFacts, ProceedFacts DEF SelectUpload, Tells
  <2> HIDE DEF IInv
  <2> QED BY <1>0, <2>1, LookKeepsK
<1>2. CASE SelectDeletion(r)
  <2>1. /\ req[r].kind \notin Tells /\ pc'[r][1] \in {"commit", "remove"}
        /\ \A t \in Requests \ {r} : pc'[t] = pc[t]
    BY <1>2, ProceedFacts DEF SelectDeletion, Tells
  <2> HIDE DEF IInv
  <2> QED BY <1>0, <2>1, LookKeepsK
<1>3. CASE SelectWebDeletion(r)
  <2>1. /\ req[r].kind \notin Tells /\ pc'[r][1] \in {"bury", "fail"}
        /\ \A t \in Requests \ {r} : pc'[t] = pc[t]
    BY <1>3, GoFacts DEF SelectWebDeletion, Tells
  <2> HIDE DEF IInv
  <2> QED BY <1>0, <2>1, LookKeepsK
<1>4. CASE SelectWebEdit(r)
  <2>1. /\ req[r].kind \notin Tells /\ pc'[r][1] \in {"change", "fail"}
        /\ \A t \in Requests \ {r} : pc'[t] = pc[t]
    BY <1>4, GoFacts DEF SelectWebEdit, Tells
  <2> HIDE DEF IInv
  <2> QED BY <1>0, <2>1, LookKeepsK
<1>5. CASE SelectListDeletion(r)
  <2>1. /\ req[r].kind = "list_delete" /\ \A t \in Requests \ {r} : pc'[t] = pc[t]
        /\ pc'[r] = <<"tombstone", req[r].list>> \/ pc'[r][1] = "commit"
    BY <1>5, GoFacts DEF SelectListDeletion
  <2> HIDE DEF IInv
  <2> QED BY <1>0, <2>1, LookKeepsK
<1>6. CASE SelectWebListDeletion(r)
  <2>1. /\ req[r].kind = "web_list_delete" /\ \A t \in Requests \ {r} : pc'[t] = pc[t]
        /\ pc'[r] = <<"tombstone", req[r].list>> \/ pc'[r][1] = "fail"
    BY <1>6, GoFacts DEF SelectWebListDeletion
  <2> HIDE DEF IInv
  <2> QED BY <1>0, <2>1, LookKeepsK
<1>7. CASE SelectListUpload(r)
  <2>1. /\ req[r].kind = "list_upload" /\ \A t \in Requests \ {r} : pc'[t] = pc[t]
        /\ pc'[r] = <<"lock_list", req[r].list>> \/ pc'[r][1] = "commit"
    BY <1>7, GoFacts DEF SelectListUpload
  <2> HIDE DEF IInv
  <2> QED BY <1>0, <2>1, LookKeepsK
<1>8. CASE SelectCode(r)
  <2>1. req[r] \in AllRequests /\ req[r].kind = "use_code"
    BY <1>8 DEF SelectCode, Look, KInv, Places, Placed
  <2>2. req[r].code \in Tokens
    BY <2>1, RequestFacts
  <2>3. \A t \in Requests \ {r} : pc'[t] = pc[t]
    BY <1>8, GoFacts DEF SelectCode
  <2>4. \/ pc'[r][1] = "grant" /\ pc'[r][2].list \in Lists
        \/ pc'[r][1] = "fail"
    <3>1. CASE db[TokenKey(req[r].code)] # NoRow
      <4>1. db[TokenKey(req[r].code)].list \in Lists
        BY <2>2, <3>1 DEF KInv, Places, Given
      <4>2. pc'[r] = <<"grant", db[TokenKey(req[r].code)]>>
        BY <1>8, <3>1, GoFacts DEF SelectCode
      <4> QED BY <4>1, <4>2
    <3>2. CASE db[TokenKey(req[r].code)] = NoRow
      BY <1>8, <3>2, GoFacts DEF SelectCode
    <3> QED BY <3>1, <3>2
  <2> HIDE DEF IInv
  <2> QED BY <1>0, <2>1, <2>3, <2>4, LookKeepsK
<1>9. CASE SelectAccount(r)
  <2>1. /\ req[r].kind = "delete_account" /\ \A t \in Requests \ {r} : pc'[t] = pc[t]
        /\ pc'[r] = <<"tomb_user">> \/ pc'[r][1] = "fail"
    BY <1>9, GoFacts DEF SelectAccount
  <2> HIDE DEF IInv
  <2> QED BY <1>0, <2>1, LookKeepsK
<1> QED BY <1>1, <1>2, <1>3, <1>4, <1>5, <1>6, <1>7, <1>8, <1>9

\* Waiting with some of the locks.
LEMMA WaitKeepsK == ASSUME IInv, KInv, NEW r \in Requests, Wait(r, Wishes[r]) PROVE KInv'
<1>1. PICK w \in Wishes[r] : Blockers(r, w[1], w[2]) = {} /\ locks' = locks \cup LocksFor(r, {w})
  BY DEF Wait
<1>2. UNCHANGED <<db, written, pc, req>>
  BY DEF Wait, requestVars
<1>3. WaitsFor(r, {w}) = {} /\ Lockable({w})
  BY <1>1, LockableWishes DEF WaitsFor, Lockable, KInv, Places
<1>4. LocksInv' /\ locks \subseteq locks'
  BY <1>1, <1>3, GrantKeepsLocks DEF KInv
<1>5. Placed(r)'
  BY <1>2 DEF KInv, Places, Placed
<1>6. /\ \A k : Stores(r, k)' <=> Stores(r, k)
      /\ \A k : Removes(r, k)' <=> Removes(r, k)
      /\ \A k : Holds(r, k) => Holds(r, k)'
  BY <1>2, <1>4 DEF Stores, Removes, Holds
<1>7. req[r].kind \in Tells => SharesOf(r)'
  <2>1. \A u, l : Told(r, u, l) => Told(r, u, l)'
    BY <1>2, <1>6 DEF Told
  <2> QED BY <1>2, <1>4, <1>6, <2>1 DEF KInv, SharesInv, SharesOf
<1>8. pc[r][1] # "commit"
  <2>1. Wishes[r] # {}
    BY <1>1
  <2>2. pc[r][1] = "commit" => EntryWishes(r) = {}
    BY DEF EntryWishes
  <2>3. pc[r][1] = "commit" => ListWishes(r) = {}
    BY DEF ListWishes
  <2>4. pc[r][1] = "commit" => AccountWishes(r) = {}
    BY DEF AccountWishes
  <2> QED BY <2>1, <2>2, <2>3, <2>4 DEF Wishes
<1> QED BY <1>2, <1>4, <1>5, <1>7, <1>8, QuietKeeps

\* A request that is undone leaves the tables and the others as they are.
LEMMA UndoKeepsK == ASSUME IInv, KInv, NEW r \in Requests, Undo(r) PROVE KInv'
<1>1. Release(r, <<"failed">>) /\ UNCHANGED db
  BY DEF Undo
<1>2. /\ req'[r] = NoRequest /\ \A t \in Requests \ {r} : req'[t] = req[t]
      /\ pc'[r][1] = "failed"
  BY <1>1, ReleaseFacts DEF Undo, IInv, Locking, Shape
<1>3. /\ DOMAIN written'[r] = {} /\ locks' = {l \in locks : l[1] # r}
      /\ \A t \in Requests \ {r} : written'[t] = written[t] /\ pc'[t] = pc[t]
  BY <1>1, ReleaseFacts DEF IInv, Release
<1>4. LocksInv'
  BY <1>3 DEF KInv, LocksInv
<1>5. Placed(r)' /\ ~(req'[r].kind \in Tells)
  BY <1>2 DEF Placed, Tells, NoRequest
<1>6. Sound(Now(r))'
  <2>1. \A k \in Keys : Now(r)'[k] = db[k]
    BY <1>1, <1>3 DEF Now
  <2> QED BY <2>1, NamesAreKeys, TransactionsAssumption DEF KInv, KeysInv, Sound
<1>7. (\A k : ~Stores(r, k) /\ ~Removes(r, k))'
  BY <1>3 DEF Stores, Removes
<1>8. Secured(r)'
  BY <1>3, <1>7 DEF Secured
<1> QED BY <1>1, <1>2, <1>3, <1>4, <1>5, <1>6, <1>7, <1>8, StepKeeps
-----------------------------------------------------------------------------
(* Statements on entries *)

\* A table stays sound with rows that find their parents in it, as long as no
\* list and no user is removed.
LEMMA SoundRows ==
  ASSUME NEW t, NEW t2, NEW rows, Sound(t),
         \A k \in Keys : t2[k] = IF k \in DOMAIN rows THEN rows[k] ELSE t[k],
         \A k \in DOMAIN rows : k[1] \in {"users", "lists"} => rows[k] # NoRow,
         \A e \in Entries : \A k \in {EntryKey(e), EntryTomb(e)} :
           k \in DOMAIN rows /\ rows[k] # NoRow => t[ListKey(Home[e])] # NoRow,
         \A l \in Lists : \A k \in {ListKey(l), ListTomb(l)} :
           k \in DOMAIN rows /\ rows[k] # NoRow =>
             rows[k].owner \in Users /\ t[UserKey(rows[k].owner)] # NoRow,
         \A u \in Users, l \in Lists :
           /\ PermKey(u, l) \in DOMAIN rows /\ rows[PermKey(u, l)] # NoRow =>
                t[ListKey(l)] # NoRow /\ t[UserKey(u)] # NoRow
           /\ ShareTomb(u, l) \in DOMAIN rows /\ rows[ShareTomb(u, l)] # NoRow =>
                t[UserKey(u)] # NoRow
  PROVE  Sound(t2)
<1>1. \A l \in Lists : t[ListKey(l)] # NoRow => t2[ListKey(l)] # NoRow
  BY Names, NamesAreKeys
<1>2. \A u \in Users : t[UserKey(u)] # NoRow => t2[UserKey(u)] # NoRow
  BY Names, NamesAreKeys
<1>3. ASSUME NEW e \in Entries, NEW k \in {EntryKey(e), EntryTomb(e)}, t2[k] # NoRow
      PROVE  t2[ListKey(Home[e])] # NoRow
  BY <1>1, <1>3, NamesAreKeys, TransactionsAssumption DEF Sound
<1>4. ASSUME NEW l \in Lists, NEW k \in {ListKey(l), ListTomb(l)}, t2[k] # NoRow
      PROVE  t2[k].owner \in Users /\ t2[UserKey(t2[k].owner)] # NoRow
  BY <1>2, <1>4, NamesAreKeys DEF Sound
<1>5. ASSUME NEW u \in Users, NEW l \in Lists
      PROVE  /\ t2[PermKey(u, l)] # NoRow => t2[ListKey(l)] # NoRow /\ t2[UserKey(u)] # NoRow
             /\ t2[ShareTomb(u, l)] # NoRow => t2[UserKey(u)] # NoRow
  BY <1>1, <1>2, NamesAreKeys DEF Sound
<1> QED BY <1>3, <1>4, <1>5 DEF Sound

\* A statement that writes nothing.
LEMMA NothingKeepsK ==
  ASSUME IInv, KInv, NEW r \in Requests, NEW s, NEW wishes,
         Statement(r, s, wishes), Lockable(wishes), WriteNothing, s[1] # "commit",
         \A t \in Requests \ {r} : pc'[t] = pc[t], Placed(r)',
         req[r].kind \in Tells => pc'[r][1] \notin {"drop", "drop_user"}
  PROVE  KInv'
<1>1. /\ pc[r] = s /\ UNCHANGED <<db, req, written>>
      /\ locks' = locks \cup LocksFor(r, wishes) /\ WaitsFor(r, wishes) = {}
  BY DEF Statement, requestVars, WriteNothing
<1>2. LocksInv' /\ locks \subseteq locks'
  BY <1>1, GrantKeepsLocks DEF KInv
<1>3. req[r].kind \in Tells => SharesOf(r)'
  <2> SUFFICES ASSUME req[r].kind \in Tells PROVE SharesOf(r)'
    OBVIOUS
  <2>1. \A u \in Users, l \in Lists : PermKey(u, l) \notin DOMAIN written[r]
                                      /\ ListKey(l) \notin DOMAIN written[r]
    BY <1>1 DEF KInv, SharesInv, SharesOf
  <2> QED BY <1>1, <2>1 DEF SharesOf, Removes
<1> QED BY <1>1, <1>2, <1>3, QuietKeeps

\* Where statements on entries lead to, what a request carries goes with it.
LEMMA EntryPlaced ==
  ASSUME IInv, KInv, NEW r \in Requests, NEW s, NEW wishes, Statement(r, s, wishes),
         s[1] \in {"lock", "insert", "remove", "bury", "change"},
         pc'[r][1] \in {"lock", "insert", "remove", "bury", "change", "commit", "fail"}
  PROVE  Placed(r)' /\ req[r].kind \notin Tells
<1>1. pc[r] = s /\ UNCHANGED req
  BY DEF Statement, requestVars
<1>2. req[r].kind \notin Tells /\ req[r] \in AllRequests
  BY <1>1 DEF KInv, Places, Placed
<1> QED BY <1>1, <1>2 DEF Placed

\* A statement that writes one entry or the tombstone of one.
LEMMA EntryWriteKeepsK ==
  ASSUME IInv, KInv, NEW r \in Requests, NEW e \in Entries, NEW s, NEW wishes,
         Statement(r, s, wishes), Lockable(wishes), s[1] # "commit",
         Placed(r)', req[r].kind \notin Tells,
         \A t \in Requests \ {r} : pc'[t] = pc[t],
         NEW k \in {EntryKey(e), EntryTomb(e)}, NEW rows, DOMAIN rows = {k}, Write(r, rows),
         rows[k] # NoRow => Exists(r, k) \/ Exists(r, ListKey(Home[e])),
         rows[k] # NoRow => \E w \in wishes : w[1] = k /\ Mode(r, k, w[2]) = "X"
  PROVE  KInv'
<1>1. UNCHANGED <<db, req>>
  BY DEF Statement, requestVars
<1>2. k \in Keys
      /\ k[1] \notin {"users", "lists", "deleted_list", "share_token",
                      "list_permissions", "deleted_list_shared"}
  BY NamesAreKeys, Names
<1>3. Sound(Now(r))
  BY DEF KInv, KeysInv
<1>4. rows[k] # NoRow => Now(r)[ListKey(Home[e])] # NoRow
  BY <1>3 DEF Sound, Exists
<1>5. \A f \in Entries : k \in {EntryKey(f), EntryTomb(f)} => f = e
  BY Names
<1>6. \A x \in Keys : Now(r)'[x] = IF x \in DOMAIN rows THEN rows[x] ELSE Now(r)[x]
  BY <1>1, NowAfterWrite DEF IInv, Locking, Shape
<1>7. /\ \A l \in Lists : ListKey(l) # k /\ ListTomb(l) # k
      /\ \A u \in Users, l \in Lists : PermKey(u, l) # k /\ ShareTomb(u, l) # k
  BY <1>2, Names
<1>8. Sound(Now(r)')
  BY <1>2, <1>3, <1>4, <1>5, <1>6, <1>7, SoundRows
<1>9. Sound(Now(r))'
  BY <1>8 DEF Sound
<1> QED BY <1>2, <1>9, PlainWriteKeeps

\* What the statements on entries do, in those terms.
LEMMA LockEntryKeepsK ==
  ASSUME IInv, KInv, NEW r \in Requests, NEW e \in Entries, LockEntry(r, e) PROVE KInv'
<1> DEFINE k == EntryKey(e)
<1>1. Statement(r, <<"lock", e>>, EntryLock(e)) /\ <<"lock", e>>[1] = "lock"
  BY DEF LockEntry
<1>2. \/ WriteNothing /\ (Go(r, <<"insert", e>>) \/ Proceed(r, todo[r], "lock"))
      \/ Exists(r, k) /\ Write(r, EntryRow(r, e)) /\ Proceed(r, todo[r], "lock")
  BY DEF LockEntry, Exists
<1>3. /\ \A t \in Requests \ {r} : pc'[t] = pc[t]
      /\ pc'[r][1] \in {"insert", "lock", "commit"}
  BY <1>2, GoFacts, ProceedFacts DEF IInv, Locking, Shape
<1>4. Lockable(EntryLock(e)) /\ Placed(r)' /\ req[r].kind \notin Tells
  BY <1>1, <1>3, LockableRows, EntryPlaced
<1>5. CASE WriteNothing
  BY <1>1, <1>3, <1>4, <1>5, NothingKeepsK
<1>6. CASE Exists(r, k) /\ Write(r, EntryRow(r, e))
  <2>1. \E w \in EntryLock(e) : w[1] = k /\ Mode(r, k, w[2]) = "X"
    BY <1>6 DEF EntryLock, Mode
  <2>2. DOMAIN EntryRow(r, e) = {k}
    BY DEF EntryRow
  <2> QED BY <1>1, <1>3, <1>4, <1>6, <2>1, <2>2, EntryWriteKeepsK
<1> QED BY <1>2, <1>5, <1>6

\* INSERT INTO entries: the S lock of the list keeps it there until the commit.
LEMMA InsertEntryKeepsK ==
  ASSUME IInv, KInv, NEW r \in Requests, NEW e \in Entries, InsertEntry(r, e) PROVE KInv'
<1> DEFINE k == EntryKey(e)
<1>1. Statement(r, <<"insert", e>>, InsertLocks(e)) /\ <<"insert", e>>[1] = "insert"
  BY DEF InsertEntry
<1>2. \/ WriteNothing /\ Go(r, <<"fail">>)
      \/ /\ ~Exists(r, k) /\ Exists(r, ListKey(Home[e]))
         /\ Write(r, EntryRow(r, e)) /\ Proceed(r, todo[r], "lock")
  BY DEF InsertEntry, Fail
<1>3. /\ \A t \in Requests \ {r} : pc'[t] = pc[t]
      /\ pc'[r][1] \in {"fail", "lock", "commit"}
  BY <1>2, GoFacts, ProceedFacts DEF IInv, Locking, Shape
<1>4. Lockable(InsertLocks(e)) /\ Placed(r)' /\ req[r].kind \notin Tells
  BY <1>1, <1>3, LockableRows, EntryPlaced
<1>5. CASE WriteNothing
  BY <1>1, <1>3, <1>4, <1>5, NothingKeepsK
<1>6. CASE ~Exists(r, k) /\ Exists(r, ListKey(Home[e])) /\ Write(r, EntryRow(r, e))
  <2>1. \E w \in InsertLocks(e) : w[1] = k /\ Mode(r, k, w[2]) = "X"
    BY <1>6 DEF InsertLocks, Mode
  <2>2. DOMAIN EntryRow(r, e) = {k}
    BY DEF EntryRow
  <2> QED BY <1>1, <1>3, <1>4, <1>6, <2>1, <2>2, EntryWriteKeepsK
<1> QED BY <1>2, <1>5, <1>6

\* DELETE FROM entries: nothing refers to an entry.
LEMMA RemoveEntryKeepsK ==
  ASSUME IInv, KInv, NEW r \in Requests, NEW e \in Entries, RemoveEntry(r, e) PROVE KInv'
<1> DEFINE k == EntryKey(e)
           rows == [x \in {k} |-> NoRow]
<1>1. Statement(r, <<"remove", e>>, EntryLock(e)) /\ <<"remove", e>>[1] = "remove"
  BY DEF RemoveEntry
<1>2. /\ WriteNothing \/ Write(r, rows)
      /\ Go(r, <<"commit">>) \/ Go(r, <<"bury", e>>) \/ Proceed(r, todo[r], "remove")
  BY DEF RemoveEntry
<1>3. /\ \A t \in Requests \ {r} : pc'[t] = pc[t]
      /\ pc'[r][1] \in {"bury", "remove", "commit"}
  BY <1>2, GoFacts, ProceedFacts DEF IInv, Locking, Shape
<1>4. Lockable(EntryLock(e)) /\ Placed(r)' /\ req[r].kind \notin Tells
  BY <1>1, <1>3, LockableRows, EntryPlaced
<1>5. CASE WriteNothing
  BY <1>1, <1>3, <1>4, <1>5, NothingKeepsK
<1>6. CASE Write(r, rows)
  <2>1. DOMAIN rows = {k} /\ rows[k] = NoRow
    OBVIOUS
  <2> HIDE DEF rows
  <2> QED BY <1>1, <1>3, <1>4, <1>6, <2>1, EntryWriteKeepsK
<1> QED BY <1>2, <1>5, <1>6

\* INSERT INTO deleted_entry: like an entry, it needs its list.
LEMMA BuryEntryKeepsK ==
  ASSUME IInv, KInv, NEW r \in Requests, NEW e \in Entries, BuryEntry(r, e) PROVE KInv'
<1> DEFINE k == EntryTomb(e)
           rows == [x \in {k} |-> [created |-> time[r]]]
<1>1. Statement(r, <<"bury", e>>, TombLocks(e)) /\ <<"bury", e>>[1] = "bury"
  BY DEF BuryEntry
<1>2. /\ \/ WriteNothing
         \/ ~Exists(r, k) /\ Exists(r, ListKey(Home[e])) /\ Write(r, rows)
      /\ Go(r, <<"fail">>) \/ Go(r, <<"remove", e>>) \/ Proceed(r, todo[r], "remove")
  BY DEF BuryEntry, Fail
<1>3. /\ \A t \in Requests \ {r} : pc'[t] = pc[t]
      /\ pc'[r][1] \in {"fail", "remove", "commit"}
  BY <1>2, GoFacts, ProceedFacts DEF IInv, Locking, Shape
<1>4. Lockable(TombLocks(e)) /\ Placed(r)' /\ req[r].kind \notin Tells
  BY <1>1, <1>3, LockableRows, EntryPlaced
<1>5. CASE WriteNothing
  BY <1>1, <1>3, <1>4, <1>5, NothingKeepsK
<1>6. CASE ~Exists(r, k) /\ Exists(r, ListKey(Home[e])) /\ Write(r, rows)
  <2>1. \E w \in TombLocks(e) : w[1] = k /\ Mode(r, k, w[2]) = "X"
    BY <1>6 DEF TombLocks, Mode
  <2>2. DOMAIN rows = {k}
    OBVIOUS
  <2> HIDE DEF rows
  <2> QED BY <1>1, <1>3, <1>4, <1>6, <2>1, <2>2, EntryWriteKeepsK
<1> QED BY <1>2, <1>5, <1>6

\* UPDATE entries SET changed: the row was there and stays in its list.
LEMMA ChangeEntryKeepsK ==
  ASSUME IInv, KInv, NEW r \in Requests, NEW e \in Entries, ChangeEntry(r, e) PROVE KInv'
<1> DEFINE k == EntryKey(e)
           rows == [x \in {k} |-> [changed |-> time[r], updated |-> Now(r)[k].updated]]
<1>1. Statement(r, <<"change", e>>, EntryLock(e)) /\ <<"change", e>>[1] = "change"
  BY DEF ChangeEntry
<1>2. /\ WriteNothing \/ (Exists(r, k) /\ Write(r, rows))
      /\ Go(r, <<"fail">>) \/ Go(r, <<"commit">>)
  BY DEF ChangeEntry, Exists
<1>3. /\ \A t \in Requests \ {r} : pc'[t] = pc[t]
      /\ pc'[r][1] \in {"fail", "commit"}
  BY <1>2, GoFacts DEF IInv, Locking, Shape
<1>4. Lockable(EntryLock(e)) /\ Placed(r)' /\ req[r].kind \notin Tells
  BY <1>1, <1>3, LockableRows, EntryPlaced
<1>5. CASE WriteNothing
  BY <1>1, <1>3, <1>4, <1>5, NothingKeepsK
<1>6. CASE Exists(r, k) /\ Write(r, rows)
  <2>1. \E w \in EntryLock(e) : w[1] = k /\ Mode(r, k, w[2]) = "X"
    BY <1>6 DEF EntryLock, Mode
  <2>2. DOMAIN rows = {k}
    OBVIOUS
  <2> HIDE DEF rows
  <2> QED BY <1>1, <1>3, <1>4, <1>6, <2>1, <2>2, EntryWriteKeepsK
<1> QED BY <1>2, <1>5, <1>6
-----------------------------------------------------------------------------
(* Statements on lists, shares and accounts *)

\* One that writes nothing about shares, lists and users, of a request that may
\* have to tell, and that does not come to the removal of a list by it.
LEMMA BesideSharesKeep ==
  ASSUME KInv, NEW r \in Requests, NEW rows, Write(r, rows), DOMAIN written = Requests,
         UNCHANGED <<db, req>>, locks \subseteq locks', pc[r][1] # "commit",
         pc'[r][1] \notin {"drop", "drop_user"}, req[r].kind \in Tells,
         \A k \in DOMAIN rows : k[1] \notin {"list_permissions", "lists"}
  PROVE  SharesOf(r)'
<1>1. DOMAIN written'[r] = DOMAIN written[r] \cup DOMAIN rows
  BY WriteFacts
<1>2. \A u \in Users, l \in Lists : PermKey(u, l) \notin DOMAIN written[r]
                                    /\ ListKey(l) \notin DOMAIN written[r]
  BY DEF KInv, SharesInv, SharesOf
<1>3. \A u \in Users, l \in Lists : PermKey(u, l) \notin DOMAIN written'[r]
                                    /\ ListKey(l) \notin DOMAIN written'[r]
  BY <1>1, <1>2, Names
<1> QED BY <1>3 DEF SharesOf, Removes

\* UPDATE users SET last_seen locks a row and writes nothing that is modelled.
LEMMA TouchKeepsK == ASSUME IInv, KInv, NEW r \in Requests, Touch(r) PROVE KInv'
<1>1. /\ Statement(r, <<"touch">>, {<<UserKey(req[r].user), "update">>})
      /\ WriteNothing /\ Go(r, <<"select">>) /\ <<"touch">>[1] = "touch"
  BY DEF Touch
<1>2. /\ \A t \in Requests \ {r} : pc'[t] = pc[t]
      /\ pc'[r][1] = "select"
  BY <1>1, GoFacts DEF IInv, Locking, Shape
<1>3. pc[r][1] = "touch" /\ UNCHANGED req
  BY <1>1 DEF Statement, requestVars
<1>4. req[r] \in AllRequests
  BY <1>3 DEF KInv, Places, Placed
<1>5. Placed(r)'
  BY <1>2, <1>3, <1>4 DEF Placed
<1>6. Lockable({<<UserKey(req[r].user), "update">>})
  BY <1>4, RequestFacts, LockableRows
<1> QED BY <1>1, <1>2, <1>5, <1>6, NothingKeepsK

\* SELECT ... FOR UPDATE of a list: a lock, and the branch to take.
LEMMA LockListKeepsK ==
  ASSUME IInv, KInv, NEW r \in Requests, NEW l \in Lists, LockList(r, l) PROVE KInv'
<1>1. /\ Statement(r, <<"lock_list", l>>, ListLock(l)) /\ <<"lock_list", l>>[1] = "lock_list"
      /\ WriteNothing /\ (Go(r, <<"insert_list", l>>) \/ Go(r, <<"fail">>) \/ Go(r, <<"commit">>))
  BY DEF LockList
<1>2. /\ \A t \in Requests \ {r} : pc'[t] = pc[t]
      /\ pc'[r] = <<"insert_list", l>> \/ pc'[r][1] \in {"fail", "commit"}
  BY <1>1, GoFacts DEF IInv, Locking, Shape
<1>3. pc[r][1] = "lock_list" /\ pc[r][2] = l /\ UNCHANGED req
  BY <1>1 DEF Statement, requestVars
<1>4. req[r] \in AllRequests /\ req[r].kind = "list_upload" /\ req[r].list = l
  BY <1>3 DEF KInv, Places, Placed
<1>5. Placed(r)'
  BY <1>2, <1>3, <1>4 DEF Placed, Tells
<1>6. Lockable(ListLock(l)) /\ req[r].kind \notin Tells
  BY <1>4, RequestFacts, LockableRows DEF Tells
<1> QED BY <1>1, <1>2, <1>5, <1>6, NothingKeepsK

\* The new list finds its owner, and enters the range of the owner's lists.
LEMMA InsertListKeepsK ==
  ASSUME IInv, KInv, NEW r \in Requests, NEW l \in Lists, InsertList(r, l) PROVE KInv'
<1> DEFINE u == req[r].user
           k == ListKey(l)
           row == [owner |-> u, changed |-> req[r].changed]
           rows == [x \in {k} |-> row]
           wishes == InsertListLocks(u, l)
<1>1. Statement(r, <<"insert_list", l>>, wishes) /\ <<"insert_list", l>>[1] = "insert_list"
  BY DEF InsertList
<1>2. \/ WriteNothing /\ Go(r, <<"fail">>)
      \/ /\ ~Exists(r, k) /\ Exists(r, UserKey(u))
         /\ Write(r, rows) /\ Go(r, <<"commit">>)
  BY DEF InsertList, Fail
<1>3. /\ \A t \in Requests \ {r} : pc'[t] = pc[t]
      /\ pc'[r][1] \in {"fail", "commit"}
  BY <1>2, GoFacts DEF IInv, Locking, Shape
<1>4. pc[r][1] = "insert_list" /\ UNCHANGED <<db, req>> /\ locks' = locks \cup LocksFor(r, wishes)
  BY <1>1 DEF Statement, requestVars
<1>5. req[r] \in AllRequests /\ req[r].kind = "list_upload"
  BY <1>4 DEF KInv, Places, Placed
<1>6. /\ u \in Users /\ Lockable(wishes) /\ req[r].kind \notin Tells /\ Placed(r)'
  BY <1>3, <1>4, <1>5, RequestFacts, LockableRows DEF Tells, Placed
<1>7. CASE WriteNothing
  BY <1>1, <1>3, <1>6, <1>7, NothingKeepsK
<1>8. CASE ~Exists(r, k) /\ Exists(r, UserKey(u)) /\ Write(r, rows)
  <2>1. DOMAIN rows = {k} /\ rows[k] # NoRow /\ rows[k].owner = u /\ k \in Keys
        /\ k[1] = "lists" /\ k[2] = l
    BY NamesAreKeys, Names, RowsAreRows
  <2>2. \E w \in wishes : w[1] = k /\ Mode(r, k, w[2]) = "X"
    BY <1>8 DEF InsertListLocks, Mode
  <2>3. <<r, ListsOf(u), "enter">> \in locks'
    <3>1. <<ListsOf(u), "enter">> \in wishes /\ Mode(r, ListsOf(u), "enter") = "enter"
      BY DEF InsertListLocks, Mode
    <3> QED BY <1>4, <3>1 DEF LocksFor
  <2>4. \E m \in Modes : <<r, UserKey(u), m>> \in locks'
    <3>1. <<UserKey(u), "share">> \in wishes /\ Mode(r, UserKey(u), "share") \in Modes
      BY DEF InsertListLocks, Mode, Modes
    <3>2. <<r, UserKey(u), Mode(r, UserKey(u), "share")>> \in locks'
      BY <1>4, <3>1 DEF LocksFor
    <3> QED BY <3>1, <3>2
  <2> HIDE DEF rows, row
  <2>5. \A x \in Keys : Now(r)'[x] = IF x \in DOMAIN rows THEN rows[x] ELSE Now(r)[x]
    BY <1>4, <1>8, NowAfterWrite DEF IInv, Locking, Shape
  <2>6. /\ \A m \in Lists : ListKey(m) = k => m = l
        /\ \A m \in Lists : ListTomb(m) # k
        /\ \A v : UserKey(v) # k
        /\ \A v, m : PermKey(v, m) # k /\ ShareTomb(v, m) # k
        /\ \A e : EntryKey(e) # k /\ EntryTomb(e) # k
    BY <2>1, Names
  <2>7. Sound(Now(r)')
    <3>1. Sound(Now(r)) /\ Now(r)[UserKey(u)] # NoRow
      BY <1>8 DEF KInv, KeysInv, Exists
    <3> QED BY <1>6, <2>1, <2>5, <2>6, <3>1, SoundRows
  <2>8. Sound(Now(r))'
    BY <2>7 DEF Sound
  <2>9. \A m \in Lists : ListKey(m) \in DOMAIN rows =>
          /\ rows[ListKey(m)] # NoRow /\ rows[ListKey(m)].owner = u
    BY <2>1, <2>6
  <2>10. /\ \A m \in Lists : ListTomb(m) \notin DOMAIN rows
         /\ \A v \in Users : UserKey(v) \notin DOMAIN rows
         /\ DOMAIN rows \subseteq Keys
    BY <2>1, <2>6
  <2>11. \A x \in DOMAIN rows : rows[x] # NoRow =>
           (\E w \in wishes : w[1] = x /\ Mode(r, x, w[2]) = "X")
           /\ x[1] \notin {"users", "share_token"}
    BY <2>1, <2>2
  <2>12. \A m \in Lists : ListKey(m) \in DOMAIN rows =>
          /\ rows[ListKey(m)] # NoRow /\ rows[ListKey(m)].owner \in Users
          /\ \E x \in Modes : <<r, UserKey(rows[ListKey(m)].owner), x>> \in locks'
          /\ <<r, ListsOf(rows[ListKey(m)].owner), "enter">> \in locks'
    <3> TAKE m \in Lists
    <3> HAVE ListKey(m) \in DOMAIN rows
    <3>1. rows[ListKey(m)].owner = u /\ rows[ListKey(m)] # NoRow
      BY <2>9
    <3> QED BY <1>6, <2>3, <2>4, <3>1
  <2> HIDE DEF wishes
  <2> QED BY <1>1, <1>3, <1>6, <1>8, <2>8, <2>10, <2>11, <2>12, WriteKeeps
<1> QED BY <1>2, <1>7, <1>8

\* The tombstone of a list finds its user.
LEMMA BuryListKeepsK ==
  ASSUME IInv, KInv, NEW r \in Requests, NEW l \in Lists, BuryList(r, l) PROVE KInv'
<1> DEFINE u == req[r].user
           k == ListTomb(l)
           rows == [x \in {k} |-> [owner |-> u]]
           wishes == ListTombLocks(u, l)
<1>1. Statement(r, <<"tombstone", l>>, wishes) /\ <<"tombstone", l>>[1] = "tombstone"
      /\ <<"tombstone", l>>[2] = l
  BY DEF BuryList
<1>2. /\ \/ WriteNothing
         \/ ~Exists(r, k) /\ Exists(r, UserKey(u)) /\ Write(r, rows)
      /\ \/ req[r].kind = "list_delete" /\ Go(r, <<"bury_shares", l>>)
         \/ req[r].kind = "web_list_delete" /\ (Go(r, <<"drop", l>>) \/ Go(r, <<"fail">>))
  BY DEF BuryList, Fail
<1>3. /\ \A t \in Requests \ {r} : pc'[t] = pc[t]
      /\ \/ req[r].kind = "list_delete" /\ pc'[r] = <<"bury_shares", l>>
         \/ req[r].kind = "web_list_delete" /\ (pc'[r] = <<"drop", l>> \/ pc'[r] = <<"fail">>)
  BY <1>2, GoFacts DEF IInv, Locking, Shape
<1>4. pc[r][1] = "tombstone" /\ pc[r][2] = l /\ UNCHANGED <<db, req>>
      /\ locks' = locks \cup LocksFor(r, wishes)
  BY <1>1 DEF Statement, requestVars
<1>5. req[r] \in AllRequests /\ req[r].list = l
  BY <1>4 DEF KInv, Places, Placed
<1>6. u \in Users /\ Lockable(wishes) /\ Placed(r)'
  BY <1>3, <1>4, <1>5, RequestFacts, LockableRows DEF Tells, Placed
<1>7. req[r].kind \in Tells => pc'[r][1] = "bury_shares"
  BY <1>3 DEF Tells
<1>8. CASE WriteNothing
  BY <1>1, <1>3, <1>6, <1>7, <1>8, NothingKeepsK
<1>9. CASE ~Exists(r, k) /\ Exists(r, UserKey(u)) /\ Write(r, rows)
  <2>1. DOMAIN rows = {k} /\ rows[k].owner = u /\ k \in Keys
        /\ k[1] = "deleted_list" /\ k[2] = l
    BY NamesAreKeys, Names
  <2>2. \E w \in wishes : w[1] = k /\ Mode(r, k, w[2]) = "X"
    BY <1>9 DEF ListTombLocks, Mode
  <2>3. \E m \in Modes : <<r, UserKey(u), m>> \in locks'
    <3>1. <<UserKey(u), "share">> \in wishes /\ Mode(r, UserKey(u), "share") \in Modes
      BY DEF ListTombLocks, Mode, Modes
    <3>2. <<r, UserKey(u), Mode(r, UserKey(u), "share")>> \in locks'
      BY <1>4, <3>1 DEF LocksFor
    <3> QED BY <3>1, <3>2
  <2> HIDE DEF rows
  <2>4. \A x \in Keys : Now(r)'[x] = IF x \in DOMAIN rows THEN rows[x] ELSE Now(r)[x]
    BY <1>4, <1>9, NowAfterWrite DEF IInv, Locking, Shape
  <2>5. /\ \A m : ListKey(m) # k /\ (ListTomb(m) = k => m = l)
        /\ \A v : UserKey(v) # k
        /\ \A v, m : PermKey(v, m) # k /\ ShareTomb(v, m) # k
        /\ \A e : EntryKey(e) # k /\ EntryTomb(e) # k
    BY <2>1, Names
  <2>6. Sound(Now(r)')
    <3>1. Sound(Now(r)) /\ Now(r)[UserKey(u)] # NoRow
      BY <1>9 DEF KInv, KeysInv, Exists
    <3> QED BY <1>6, <2>1, <2>4, <2>5, <3>1, SoundRows
  <2>7. Sound(Now(r))'
    BY <2>6 DEF Sound
  <2>8. /\ \A m \in Lists : ListKey(m) \notin DOMAIN rows
        /\ \A v \in Users : UserKey(v) \notin DOMAIN rows
        /\ DOMAIN rows \subseteq Keys
    BY <2>1, <2>5
  <2>9. \A x \in DOMAIN rows : rows[x] # NoRow =>
           (\E w \in wishes : w[1] = x /\ Mode(r, x, w[2]) = "X")
           /\ x[1] \notin {"users", "share_token"}
    BY <2>1, <2>2
  <2>10. \A m \in Lists : ListTomb(m) \in DOMAIN rows =>
          /\ rows[ListTomb(m)].owner \in Users
          /\ \E x \in Modes : <<r, UserKey(rows[ListTomb(m)].owner), x>> \in locks'
    <3> TAKE m \in Lists
    <3> HAVE ListTomb(m) \in DOMAIN rows
    <3>1. rows[ListTomb(m)].owner = u
      BY <2>1
    <3> QED BY <1>6, <2>3, <3>1
  <2>11. req[r].kind \in Tells => SharesOf(r)'
    <3>1. \A x \in DOMAIN rows : x[1] \notin {"list_permissions", "lists"}
      BY <2>1
    <3> QED BY <1>4, <1>7, <1>9, <3>1, BesideSharesKeep DEF IInv, Locking, Shape
  <2> HIDE DEF wishes
  <2> QED BY <1>1, <1>3, <1>6, <1>9, <2>7, <2>8, <2>9, <2>10, <2>11, WriteKeeps
<1> QED BY <1>2, <1>8, <1>9

\* A statement that copies the shares of a list that exist tells all who have one:
\* it has locked the shares and the gaps where others would be.
LEMMA CopiesTell ==
  ASSUME IInv, KInv, NEW r \in Requests, NEW l \in Lists, NEW wishes, NEW rows,
         req[r].kind \in Tells, pc[r][1] # "commit", UNCHANGED db,
         locks' = locks \cup LocksFor(r, wishes), BuryLocks(r, l) \subseteq wishes, Write(r, rows),
         \A v \in SharedWith(r, l) : ShareTomb(v, l) \in DOMAIN rows /\ rows[ShareTomb(v, l)] # NoRow
  PROVE  \A u \in Users : Told(r, u, l)'
<1> TAKE u \in Users
<1> DEFINE k == PermKey(u, l)
<1>1. Holds(r, k)'
  <2>1. <<k, "share">> \in wishes /\ Mode(r, k, "share") \in Modes
    BY DEF BuryLocks, Mode, Modes
  <2>2. <<r, k, Mode(r, k, "share")>> \in locks'
    BY <2>1 DEF LocksFor
  <2> QED BY <2>1, <2>2 DEF Holds
<1>2. ASSUME db[k] # NoRow PROVE Stores(r, ShareTomb(u, l))'
  <2>1. k \notin DOMAIN written[r] /\ k \in Keys
    BY NamesAreKeys DEF KInv, SharesInv, SharesOf
  <2>2. u \in SharedWith(r, l)
    BY <1>2, <2>1 DEF SharedWith, Exists, Now
  <2> QED BY <2>2, WriteFacts DEF Stores, IInv, Locking, Shape
<1> QED BY <1>1, <1>2 DEF Told

\* A statement that writes tombstones for those who have shares of some lists.
LEMMA ShareTombsKeepK ==
  ASSUME IInv, KInv, NEW r \in Requests, NEW s, NEW wishes, NEW rows,
         Statement(r, s, wishes), Lockable(wishes), Write(r, rows), s[1] # "commit",
         \A t \in Requests \ {r} : pc'[t] = pc[t],
         \A k \in DOMAIN rows : \E u \in Users, l \in Lists :
           /\ k = ShareTomb(u, l) /\ Exists(r, PermKey(u, l)) /\ ~Exists(r, k)
           /\ <<k, "insert">> \in wishes,
         Placed(r)', req[r].kind \in Tells => SharesOf(r)'
  PROVE  KInv'
<1>1. \A k \in DOMAIN rows : k \in Keys /\ k[1] = "deleted_list_shared"
  <2> TAKE k \in DOMAIN rows
  <2>1. PICK u \in Users, l \in Lists : k = ShareTomb(u, l)
    OBVIOUS
  <2> QED BY <2>1, NamesAreKeys, Names
<1>2. \A k \in DOMAIN rows : \E w \in wishes : w[1] = k /\ Mode(r, k, w[2]) = "X"
  BY DEF Mode
<1>3. Sound(Now(r))
  BY DEF KInv, KeysInv
<1>4. \A u \in Users, l \in Lists : ShareTomb(u, l) \in DOMAIN rows => Now(r)[UserKey(u)] # NoRow
  <2> TAKE u \in Users, l \in Lists
  <2> HAVE ShareTomb(u, l) \in DOMAIN rows
  <2>1. PICK v \in Users, m \in Lists : ShareTomb(u, l) = ShareTomb(v, m) /\ Exists(r, PermKey(v, m))
    OBVIOUS
  <2>2. u = v
    BY <2>1, Names
  <2> QED BY <1>3, <2>1, <2>2 DEF Sound, Exists
<1>5. \A x \in Keys : Now(r)'[x] = IF x \in DOMAIN rows THEN rows[x] ELSE Now(r)[x]
  BY NowAfterWrite DEF IInv, Locking, Shape, Statement
<1>6. /\ \A l : ListKey(l) \notin DOMAIN rows /\ ListTomb(l) \notin DOMAIN rows
      /\ \A u, l : PermKey(u, l) \notin DOMAIN rows
      /\ \A e : EntryKey(e) \notin DOMAIN rows /\ EntryTomb(e) \notin DOMAIN rows
  BY <1>1, Names
<1>7. Sound(Now(r)')
  BY <1>1, <1>3, <1>4, <1>5, <1>6, SoundRows
<1>8. Sound(Now(r))'
  BY <1>7 DEF Sound
<1> QED BY <1>1, <1>2, <1>8, PlainWriteKeeps

\* INSERT INTO deleted_list_shared ... SELECT: from here on the copied shares are told,
\* and no other request can add one.
LEMMA BurySharesKeepsK ==
  ASSUME IInv, KInv, NEW r \in Requests, NEW l \in Lists, BuryShares(r, l) PROVE KInv'
<1> DEFINE rows == [k \in {ShareTomb(v, l) : v \in SharedWith(r, l)} |-> [list |-> l]]
           wishes == BuryLocks(r, l)
<1>1. Statement(r, <<"bury_shares", l>>, wishes) /\ <<"bury_shares", l>>[1] = "bury_shares"
      /\ <<"bury_shares", l>>[2] = l
  BY DEF BuryShares
<1>2. \/ WriteNothing /\ Go(r, <<"fail">>)
      \/ /\ \A v \in SharedWith(r, l) : ~Exists(r, ShareTomb(v, l))
         /\ Write(r, rows) /\ Go(r, <<"drop", l>>)
  BY DEF BuryShares, Fail
<1>3. /\ \A t \in Requests \ {r} : pc'[t] = pc[t]
      /\ pc'[r] = <<"fail">> \/ pc'[r] = <<"drop", l>>
      /\ Go(r, <<"fail">>) => pc'[r] = <<"fail">>
      /\ Go(r, <<"drop", l>>) => pc'[r] = <<"drop", l>>
  BY <1>2, GoFacts DEF IInv, Locking, Shape
<1>4. pc[r][1] = "bury_shares" /\ pc[r][2] = l /\ UNCHANGED <<db, req>>
      /\ locks' = locks \cup LocksFor(r, wishes)
  BY <1>1 DEF Statement, requestVars
<1>5. req[r] \in AllRequests /\ req[r].list = l /\ req[r].kind = "list_delete"
  BY <1>4 DEF KInv, Places, Placed
<1>6. Lockable(wishes) /\ Placed(r)' /\ req[r].kind \in Tells
  BY <1>3, <1>4, <1>5, LockableLists DEF Tells, Placed
<1>7. CASE WriteNothing /\ Go(r, <<"fail">>)
  BY <1>1, <1>3, <1>6, <1>7, NothingKeepsK
<1>8. CASE /\ \A v \in SharedWith(r, l) : ~Exists(r, ShareTomb(v, l))
           /\ Write(r, rows) /\ Go(r, <<"drop", l>>)
  <2>1. "list" \notin DOMAIN NoRow /\ "list" \in DOMAIN [list |-> l]
    BY DEF NoRow
  <2>2. /\ \A v \in SharedWith(r, l) : /\ ShareTomb(v, l) \in DOMAIN rows
                                       /\ rows[ShareTomb(v, l)] # NoRow
        /\ \A k \in DOMAIN rows : \E v \in SharedWith(r, l) : k = ShareTomb(v, l)
    BY <2>1
  <2> HIDE DEF rows
  <2>3. \A u \in Users : Told(r, u, l)'
    BY <1>4, <1>6, <1>8, <2>2, CopiesTell
  <2>4. SharesOf(r)'
    <3>1. DOMAIN written'[r] = DOMAIN written[r] \cup DOMAIN rows
      BY <1>8, WriteFacts DEF IInv, Locking, Shape
    <3>2. \A u \in Users, m \in Lists : PermKey(u, m) \notin DOMAIN written[r]
                                        /\ ListKey(m) \notin DOMAIN written[r]
      BY <1>4, <1>6 DEF KInv, SharesInv, SharesOf
    <3>3. \A u \in Users, m \in Lists : PermKey(u, m) \notin DOMAIN written'[r]
                                        /\ ListKey(m) \notin DOMAIN written'[r]
      BY <2>2, <3>1, <3>2, Names
    <3>4. pc'[r][1] = "drop" /\ pc'[r][2] = l
      BY <1>3, <1>8
    <3> QED BY <2>3, <3>3, <3>4 DEF SharesOf, Removes
  <2>5. \A k \in DOMAIN rows : \E u \in Users, m \in Lists :
           /\ k = ShareTomb(u, m) /\ Exists(r, PermKey(u, m)) /\ ~Exists(r, k)
           /\ <<k, "insert">> \in wishes
    <3> TAKE k \in DOMAIN rows
    <3>1. PICK v \in SharedWith(r, l) : k = ShareTomb(v, l)
      BY <2>2
    <3>2. <<k, "insert">> \in wishes
      BY <3>1 DEF BuryLocks
    <3> QED BY <1>8, <3>1, <3>2 DEF SharedWith
  <2> HIDE DEF wishes
  <2> QED BY <1>1, <1>3, <1>6, <1>8, <2>4, <2>5, ShareTombsKeepK
<1> QED BY <1>2, <1>7, <1>8

\* INSERT INTO list_permissions: list and user are locked S, so that no deletion that
\* has copied the shares already is on its way.
LEMMA GrantShareKeepsK == ASSUME IInv, KInv, NEW r \in Requests, GrantShare(r) PROVE KInv'
<1> DEFINE u == req[r].user
           l == pc[r][2].list
           k == PermKey(u, l)
           rows == [x \in {k} |-> [write |-> TRUE]]
           wishes == GrantLocks(u, l)
<1>1. Statement(r, pc[r], wishes) /\ pc[r][1] = "grant"
  BY DEF GrantShare
<1>2. /\ Go(r, <<"commit">>) \/ Go(r, <<"spend">>)
      /\ \/ WriteNothing
         \/ /\ ~Exists(r, k) /\ Exists(r, ListKey(l)) /\ Exists(r, UserKey(u))
            /\ Write(r, rows)
  BY DEF GrantShare
<1>3. /\ \A t \in Requests \ {r} : pc'[t] = pc[t]
      /\ pc'[r][1] \in {"commit", "spend"}
  BY <1>2, GoFacts DEF IInv, Locking, Shape
<1>4. UNCHANGED <<db, req>>
  BY <1>1 DEF Statement, requestVars
<1>5. req[r] \in AllRequests /\ req[r].kind = "use_code" /\ l \in Lists
  BY <1>1 DEF KInv, Places, Placed
<1>6. u \in Users /\ Lockable(wishes) /\ Placed(r)' /\ req[r].kind \notin Tells
  BY <1>3, <1>4, <1>5, RequestFacts, LockableRows DEF Tells, Placed
<1>7. CASE WriteNothing
  BY <1>1, <1>3, <1>6, <1>7, NothingKeepsK
<1>8. CASE /\ ~Exists(r, k) /\ Exists(r, ListKey(l)) /\ Exists(r, UserKey(u))
           /\ Write(r, rows)
  <2>1. DOMAIN rows = {k} /\ k \in Keys /\ k[1] = "list_permissions"
    BY <1>5, <1>6, NamesAreKeys, Names
  <2>2. \E w \in wishes : w[1] = k /\ Mode(r, k, w[2]) = "X"
    BY <1>8 DEF GrantLocks, Mode
  <2>3. /\ \A v, m : PermKey(v, m) = k => v = u /\ m = l
        /\ \A v, m : ShareTomb(v, m) # k
        /\ \A m : ListKey(m) # k /\ ListTomb(m) # k
        /\ \A e : EntryKey(e) # k /\ EntryTomb(e) # k
    BY <2>1, Names
  <2> HIDE DEF rows
  <2>4. \A x \in Keys : Now(r)'[x] = IF x \in DOMAIN rows THEN rows[x] ELSE Now(r)[x]
    BY <1>4, <1>8, NowAfterWrite DEF IInv, Locking, Shape
  <2>5. Sound(Now(r)')
    <3>1. Sound(Now(r)) /\ Now(r)[UserKey(u)] # NoRow /\ Now(r)[ListKey(l)] # NoRow
      BY <1>8 DEF KInv, KeysInv, Exists
    <3> QED BY <2>1, <2>3, <2>4, <3>1, SoundRows
  <2>6. Sound(Now(r))'
    BY <2>5 DEF Sound
  <2> HIDE DEF wishes, k
  <2> QED BY <1>1, <1>3, <1>6, <1>8, <2>1, <2>2, <2>6, PlainWriteKeeps
<1> QED BY <1>2, <1>7, <1>8

\* DELETE FROM share_token: nothing refers to a code.
LEMMA SpendCodeKeepsK == ASSUME IInv, KInv, NEW r \in Requests, SpendCode(r) PROVE KInv'
<1> DEFINE k == TokenKey(req[r].code)
           rows == [x \in {k} |-> NoRow]
           wishes == {<<k, "update">>}
<1>1. Statement(r, <<"spend">>, wishes) /\ <<"spend">>[1] = "spend"
      /\ Write(r, rows) /\ Go(r, <<"commit">>)
  BY DEF SpendCode
<1>2. /\ \A t \in Requests \ {r} : pc'[t] = pc[t]
      /\ pc'[r][1] = "commit"
  BY <1>1, GoFacts DEF IInv, Locking, Shape
<1>3. pc[r][1] = "spend" /\ UNCHANGED <<db, req>>
  BY <1>1 DEF Statement, requestVars
<1>4. req[r] \in AllRequests /\ req[r].kind = "use_code"
  BY <1>3 DEF KInv, Places, Placed
<1>5. k \in Keys /\ Lockable(wishes) /\ Placed(r)' /\ req[r].kind \notin Tells
  BY <1>2, <1>3, <1>4, RequestFacts, NamesAreKeys, LockableRows DEF Tells, Placed
<1>6. DOMAIN rows = {k} /\ rows[k] = NoRow /\ k[1] = "share_token"
  BY Names
<1> HIDE DEF rows
<1>7. \A x \in Keys : Now(r)'[x] = IF x \in DOMAIN rows THEN rows[x] ELSE Now(r)[x]
  BY <1>1, <1>3, NowAfterWrite DEF IInv, Locking, Shape
<1>8. /\ \A v, m : PermKey(v, m) # k /\ ShareTomb(v, m) # k
      /\ \A m : ListKey(m) # k /\ ListTomb(m) # k
      /\ \A e : EntryKey(e) # k /\ EntryTomb(e) # k
  BY <1>6, Names
<1>9. Sound(Now(r)')
  <2>1. Sound(Now(r))
    BY DEF KInv, KeysInv
  <2> QED BY <1>6, <1>7, <1>8, <2>1, SoundRows
<1>10. Sound(Now(r))'
  BY <1>9 DEF Sound
<1> HIDE DEF wishes, k
<1> QED BY <1>1, <1>2, <1>5, <1>6, <1>10, PlainWriteKeeps

\* INSERT INTO deleted_user: tombstones of accounts refer to nobody.
LEMMA BuryUserKeepsK == ASSUME IInv, KInv, NEW r \in Requests, BuryUser(r) PROVE KInv'
<1> DEFINE u == req[r].user
           k == UserTomb(u)
           rows == [x \in {k} |-> [created |-> time[r]]]
           wishes == UserTombLocks(u)
<1>1. Statement(r, <<"tomb_user">>, wishes) /\ <<"tomb_user">>[1] = "tomb_user"
  BY DEF BuryUser
<1>2. \/ WriteNothing /\ Go(r, <<"fail">>)
      \/ ~Exists(r, k) /\ Write(r, rows) /\ Go(r, <<"bury_owned">>)
  BY DEF BuryUser, Fail
<1>3. /\ \A t \in Requests \ {r} : pc'[t] = pc[t]
      /\ pc'[r][1] \in {"fail", "bury_owned"}
  BY <1>2, GoFacts DEF IInv, Locking, Shape
<1>4. pc[r][1] = "tomb_user" /\ UNCHANGED <<db, req>> /\ locks \subseteq locks'
  BY <1>1 DEF Statement, requestVars
<1>5. req[r] \in AllRequests /\ req[r].kind = "delete_account"
  BY <1>4 DEF KInv, Places, Placed
<1>6. u \in Users /\ Lockable(wishes) /\ Placed(r)' /\ req[r].kind \in Tells
  BY <1>3, <1>4, <1>5, RequestFacts, LockableRows DEF Tells, Placed
<1>7. CASE WriteNothing
  BY <1>1, <1>3, <1>6, <1>7, NothingKeepsK
<1>8. CASE ~Exists(r, k) /\ Write(r, rows)
  <2>1. DOMAIN rows = {k} /\ k \in Keys /\ k[1] = "deleted_user"
    BY <1>6, NamesAreKeys, Names
  <2>2. \E w \in wishes : w[1] = k /\ Mode(r, k, w[2]) = "X"
    BY <1>8 DEF UserTombLocks, Mode
  <2>3. /\ \A v, m : PermKey(v, m) # k /\ ShareTomb(v, m) # k
        /\ \A m : ListKey(m) # k /\ ListTomb(m) # k
        /\ \A e : EntryKey(e) # k /\ EntryTomb(e) # k
    BY <2>1, Names
  <2> HIDE DEF rows
  <2>4. \A x \in Keys : Now(r)'[x] = IF x \in DOMAIN rows THEN rows[x] ELSE Now(r)[x]
    BY <1>4, <1>8, NowAfterWrite DEF IInv, Locking, Shape
  <2>5. Sound(Now(r)')
    <3>1. Sound(Now(r))
      BY DEF KInv, KeysInv
    <3> QED BY <2>1, <2>3, <2>4, <3>1, SoundRows
  <2>6. Sound(Now(r))'
    BY <2>5 DEF Sound
  <2>7. SharesOf(r)'
    BY <1>3, <1>4, <1>6, <1>8, <2>1, BesideSharesKeep DEF IInv, Locking, Shape
  <2> HIDE DEF wishes, k
  <2> QED BY <1>1, <1>3, <1>6, <1>8, <2>1, <2>2, <2>6, <2>7, PlainWriteKeeps
<1> QED BY <1>2, <1>7, <1>8

\* Also the gaps between the lists of the user are locked: no list is added to them.
LEMMA BuryOwnedKeepsK == ASSUME IInv, KInv, NEW r \in Requests, BuryOwned(r) PROVE KInv'
<1> DEFINE u == req[r].user
           shares == {p \in Users \X OwnedNow(r, u) : p[1] \in SharedWith(r, p[2])}
           rows == [k \in {ShareTomb(p[1], p[2]) : p \in shares} |-> [list |-> k[2][2]]]
           wishes == BuryOwnedLocks(r, u)
<1>1. Statement(r, <<"bury_owned">>, wishes) /\ <<"bury_owned">>[1] = "bury_owned"
  BY DEF BuryOwned
<1>2. \/ WriteNothing /\ Go(r, <<"fail">>)
      \/ /\ \A p \in shares : ~Exists(r, ShareTomb(p[1], p[2]))
         /\ Write(r, rows) /\ Go(r, <<"drop_user">>)
  BY DEF BuryOwned, Fail
<1>3. /\ \A t \in Requests \ {r} : pc'[t] = pc[t]
      /\ pc'[r][1] \in {"fail", "drop_user"}
      /\ Go(r, <<"fail">>) => pc'[r][1] = "fail"
      /\ Go(r, <<"drop_user">>) => pc'[r][1] = "drop_user"
  BY <1>2, GoFacts DEF IInv, Locking, Shape
<1>4. pc[r][1] = "bury_owned" /\ UNCHANGED <<db, req>>
      /\ locks' = locks \cup LocksFor(r, wishes)
  BY <1>1 DEF Statement, requestVars
<1>5. req[r] \in AllRequests /\ req[r].kind = "delete_account"
  BY <1>4 DEF KInv, Places, Placed
<1>6. u \in Users /\ Lockable(wishes) /\ Placed(r)' /\ req[r].kind \in Tells
  BY <1>3, <1>4, <1>5, RequestFacts, LockableLists DEF Tells, Placed
<1>7. CASE WriteNothing /\ Go(r, <<"fail">>)
  BY <1>1, <1>3, <1>6, <1>7, NothingKeepsK
<1>8. CASE /\ \A p \in shares : ~Exists(r, ShareTomb(p[1], p[2]))
           /\ Write(r, rows) /\ Go(r, <<"drop_user">>)
  <2>1. "list" \notin DOMAIN NoRow /\ \A x : "list" \in DOMAIN [list |-> x]
    BY DEF NoRow
  <2>2. /\ \A l \in OwnedNow(r, u) : \A v \in SharedWith(r, l) :
             /\ ShareTomb(v, l) \in DOMAIN rows
             /\ rows[ShareTomb(v, l)] # NoRow
             /\ ~Exists(r, ShareTomb(v, l))
        /\ \A k \in DOMAIN rows : \E l \in OwnedNow(r, u) : \E v \in SharedWith(r, l) : k = ShareTomb(v, l)
    <3>1. \A l \in OwnedNow(r, u) : \A v \in SharedWith(r, l) : <<v, l>> \in shares
      BY DEF SharedWith
    <3>2. \A k \in DOMAIN rows : rows[k] # NoRow
      BY <2>1
    <3>3. \A l \in OwnedNow(r, u) : \A v \in SharedWith(r, l) :
            ShareTomb(v, l) \in DOMAIN rows /\ ~Exists(r, ShareTomb(v, l))
      <4> TAKE l \in OwnedNow(r, u)
      <4> TAKE v \in SharedWith(r, l)
      <4>1. <<v, l>> \in shares /\ ShareTomb(<<v, l>>[1], <<v, l>>[2]) = ShareTomb(v, l)
        BY <3>1
      <4>2. ~Exists(r, ShareTomb(v, l))
        BY <1>8, <4>1
      <4>3. ShareTomb(v, l) \in {ShareTomb(p[1], p[2]) : p \in shares}
        BY <4>1
      <4> QED BY <4>2, <4>3
    <3>4. \A k \in DOMAIN rows : \E p \in shares : k = ShareTomb(p[1], p[2])
      OBVIOUS
    <3> HIDE DEF rows
    <3> QED BY <3>2, <3>3, <3>4
  <2> HIDE DEF rows, shares
  <2>3. \A l \in OwnedNow(r, u) : <<ListKey(l), "share">> \in wishes /\ BuryLocks(r, l) \subseteq wishes
    BY DEF BuryOwnedLocks
  <2>4. ASSUME NEW l \in OwnedNow(r, u)
        PROVE  Holds(r, ListKey(l))' /\ \A v \in Users : Told(r, v, l)'
    <3>1. l \in Lists
      BY DEF OwnedNow
    <3>2. \A v \in Users : Told(r, v, l)'
      <4> HIDE DEF wishes, u
      <4> QED BY <1>4, <1>6, <1>8, <2>2, <2>3, <3>1, CopiesTell
    <3>3. Mode(r, ListKey(l), "share") \in Modes
      BY DEF Mode, Modes
    <3>4. <<r, ListKey(l), Mode(r, ListKey(l), "share")>> \in locks'
      <4> HIDE DEF wishes, u
      <4>1. <<ListKey(l), "share">> \in wishes
        BY <2>3
      <4> QED BY <1>4, <4>1 DEF LocksFor
    <3>5. Holds(r, ListKey(l))'
      BY <3>3, <3>4 DEF Holds
    <3> QED BY <3>2, <3>5
  <2>5. <<r, ListsOf(u), "gap">> \in locks'
    <3>1. <<ListsOf(u), "scan">> \in wishes /\ Mode(r, ListsOf(u), "scan") = "gap"
      BY DEF BuryOwnedLocks, Mode
    <3> QED BY <1>4, <3>1 DEF LocksFor
  <2>6. \A v \in Users, l \in Lists : PermKey(v, l) \notin DOMAIN written[r]
                                      /\ ListKey(l) \notin DOMAIN written[r]
    BY <1>4, <1>6 DEF KInv, SharesInv, SharesOf
  <2>7. \A l \in Lists : db[ListKey(l)] # NoRow /\ db[ListKey(l)].owner = u => l \in OwnedNow(r, u)
    <3> TAKE l \in Lists
    <3>1. Now(r)[ListKey(l)] = db[ListKey(l)]
      BY <1>6, <2>6, NamesAreKeys DEF Now
    <3> QED BY <3>1 DEF OwnedNow, Exists
  <2>8. SharesOf(r)'
    <3>1. DOMAIN written'[r] = DOMAIN written[r] \cup DOMAIN rows
      BY <1>8, WriteFacts DEF IInv, Locking, Shape
    <3>2. \A v \in Users, l \in Lists : PermKey(v, l) \notin DOMAIN written'[r]
                                        /\ ListKey(l) \notin DOMAIN written'[r]
      <4>1. \A k \in DOMAIN rows : k[1] = "deleted_list_shared"
        BY <2>2, Names
      <4> QED BY <2>6, <3>1, <4>1, Names
    <3>3. pc'[r][1] = "drop_user" /\ UNCHANGED <<db, req>>
      BY <1>3, <1>4, <1>8
    <3>4. <<r, ListsOf(req'[r].user), "gap">> \in locks'
      BY <2>5, <3>3
    <3>5. \A l \in Lists : db'[ListKey(l)] # NoRow /\ db'[ListKey(l)].owner = req'[r].user =>
            Holds(r, ListKey(l))' /\ \A v \in Users : Told(r, v, l)'
      BY <2>4, <2>7, <3>3
    <3> QED BY <3>2, <3>3, <3>4, <3>5 DEF SharesOf, Removes
  <2>9. \A k \in DOMAIN rows : \E v \in Users, l \in Lists :
           /\ k = ShareTomb(v, l) /\ Exists(r, PermKey(v, l)) /\ ~Exists(r, k)
           /\ <<k, "insert">> \in wishes
    <3> TAKE k \in DOMAIN rows
    <3>1. PICK l \in OwnedNow(r, u) : \E v \in SharedWith(r, l) : k = ShareTomb(v, l)
      BY <2>2
    <3> PICK v \in SharedWith(r, l) : k = ShareTomb(v, l)
      BY <3>1
    <3>2. <<k, "insert">> \in BuryLocks(r, l)
      BY DEF BuryLocks
    <3>3. v \in Users /\ l \in Lists /\ Exists(r, PermKey(v, l))
      BY DEF SharedWith, OwnedNow
    <3> QED BY <2>2, <2>3, <3>1, <3>2, <3>3
  <2> HIDE DEF wishes
  <2> QED BY <1>1, <1>3, <1>6, <1>8, <2>8, <2>9, ShareTombsKeepK
<1> QED BY <1>2, <1>7, <1>8
-----------------------------------------------------------------------------
(* Cascades *)

\* A table from which rows go stays sound if their children go, too.
LEMMA SoundDrop ==
  ASSUME NEW t, NEW t2, NEW keys, Sound(t),
         \A k \in Keys : t2[k] = IF k \in keys THEN NoRow ELSE t[k],
         \A l \in Lists : ListKey(l) \in keys =>
           /\ \A u \in Users : PermKey(u, l) \in keys
           /\ \A e \in Entries : Home[e] = l => EntryKey(e) \in keys /\ EntryTomb(e) \in keys,
         \A u \in Users : UserKey(u) \in keys =>
           \A l \in Lists : /\ PermKey(u, l) \in keys /\ ShareTomb(u, l) \in keys
                            /\ t[ListKey(l)] # NoRow /\ t[ListKey(l)].owner = u => ListKey(l) \in keys
                            /\ t[ListTomb(l)] # NoRow /\ t[ListTomb(l)].owner = u => ListTomb(l) \in keys
  PROVE  Sound(t2)
<1>1. ASSUME NEW e \in Entries, NEW k \in {EntryKey(e), EntryTomb(e)}, t2[k] # NoRow
      PROVE  t2[ListKey(Home[e])] # NoRow
  <2>1. Home[e] \in Lists /\ k \in Keys /\ ListKey(Home[e]) \in Keys
    BY NamesAreKeys, TransactionsAssumption
  <2>2. k \notin keys /\ t[k] # NoRow
    BY <1>1, <2>1
  <2>3. t[ListKey(Home[e])] # NoRow /\ ListKey(Home[e]) \notin keys
    BY <2>1, <2>2 DEF Sound
  <2> QED BY <2>1, <2>3
<1>2. ASSUME NEW l \in Lists, NEW k \in {ListKey(l), ListTomb(l)}, t2[k] # NoRow
      PROVE  t2[k].owner \in Users /\ t2[UserKey(t2[k].owner)] # NoRow
  <2>1. k \notin keys /\ t2[k] = t[k] /\ t[k] # NoRow
    BY <1>2, NamesAreKeys
  <2>2. t[k].owner \in Users /\ t[UserKey(t[k].owner)] # NoRow
    BY <2>1 DEF Sound
  <2>3. UserKey(t[k].owner) \notin keys
    BY <2>1, <2>2
  <2> QED BY <2>1, <2>2, <2>3, NamesAreKeys
<1>3. ASSUME NEW u \in Users, NEW l \in Lists
      PROVE  /\ t2[PermKey(u, l)] # NoRow => t2[ListKey(l)] # NoRow /\ t2[UserKey(u)] # NoRow
             /\ t2[ShareTomb(u, l)] # NoRow => t2[UserKey(u)] # NoRow
  BY NamesAreKeys DEF Sound
<1> QED BY <1>1, <1>2, <1>3 DEF Sound

\* The last statement of a request that removes a list or a user.
LEMMA DropsKeepK ==
  ASSUME IInv, KInv, NEW r \in Requests, NEW s, NEW wishes, NEW keys,
         Statement(r, s, wishes), Lockable(wishes), Write(r, [k \in keys |-> NoRow]),
         Go(r, <<"commit">>), s[1] \notin {"new", "failed", "commit"}, keys \subseteq Keys,
         \A l \in Lists : ListKey(l) \in keys => Dependents(r, l) \subseteq keys,
         \A u \in Users : UserKey(u) \in keys =>
           /\ \A l \in Lists : /\ PermKey(u, l) \in keys /\ ShareTomb(u, l) \in keys
                               /\ Exists(r, ListTomb(l)) /\ Now(r)[ListTomb(l)].owner = u =>
                                    ListTomb(l) \in keys
           /\ \A l \in OwnedNow(r, u) : ListKey(l) \in keys,
         req[r].kind \in Tells =>
           \A u \in Users, l \in Lists : PermKey(u, l) \in keys =>
             UserKey(u) \in keys \/ (Told(r, u, l) /\ ShareTomb(u, l) \notin keys)
  PROVE  KInv'
<1> DEFINE rows == [k \in keys |-> NoRow]
<1>1. DOMAIN rows = keys /\ \A k \in keys : rows[k] = NoRow
  OBVIOUS
<1> HIDE DEF rows
<1>2. pc[r] = s /\ UNCHANGED <<db, req>> /\ locks \subseteq locks'
  BY DEF Statement, requestVars
<1>3. pc'[r][1] = "commit" /\ \A t \in Requests \ {r} : pc'[t] = pc[t]
  BY GoFacts DEF IInv, Locking, Shape
<1>4. Write(r, rows)
  BY DEF rows
<1>5. Placed(r)'
  <2>1. req[r] \in AllRequests
    BY <1>2 DEF KInv, Places, Placed
  <2> QED BY <1>2, <1>3, <2>1 DEF Placed
<1>6. \A x \in Keys : Now(r)'[x] = IF x \in keys THEN NoRow ELSE Now(r)[x]
  BY <1>1, <1>2, <1>4, NowAfterWrite DEF IInv, Locking, Shape
<1>7. Sound(Now(r)')
  <2>1. Sound(Now(r))
    BY DEF KInv, KeysInv
  <2>2. \A l \in Lists : ListKey(l) \in keys =>
           /\ \A u \in Users : PermKey(u, l) \in keys
           /\ \A e \in Entries : Home[e] = l => EntryKey(e) \in keys /\ EntryTomb(e) \in keys
    BY DependentsFacts
  <2>3. \A u \in Users : UserKey(u) \in keys =>
          \A l \in Lists : Now(r)[ListKey(l)] # NoRow /\ Now(r)[ListKey(l)].owner = u => ListKey(l) \in keys
    BY DEF OwnedNow, Exists
  <2>4. \A u \in Users : UserKey(u) \in keys =>
          \A l \in Lists : Now(r)[ListTomb(l)] # NoRow /\ Now(r)[ListTomb(l)].owner = u => ListTomb(l) \in keys
    BY DEF Exists
  <2> QED BY <1>6, <2>1, <2>2, <2>3, <2>4, SoundDrop
<1>8. Sound(Now(r))'
  BY <1>7 DEF Sound
<1>9. req[r].kind \in Tells => SharesOf(r)'
  <2> SUFFICES ASSUME req[r].kind \in Tells, NEW u \in Users, NEW l \in Lists,
                      Removes(r, PermKey(u, l))'
               PROVE  Removes(r, UserKey(u))' \/ Told(r, u, l)'
    BY <1>3 DEF SharesOf
  <2>1. /\ DOMAIN written'[r] = DOMAIN written[r] \cup keys
        /\ \A k \in keys : written'[r][k] = NoRow
        /\ \A k \in DOMAIN written[r] \ keys : written'[r][k] = written[r][k]
    BY <1>1, <1>4, WriteFacts DEF IInv, Locking, Shape
  <2>2. PermKey(u, l) \notin DOMAIN written[r]
    BY <1>2 DEF KInv, SharesInv, SharesOf
  <2>3. PermKey(u, l) \in keys
    BY <2>1, <2>2 DEF Removes
  <2>4. CASE UserKey(u) \in keys
    BY <2>1, <2>4 DEF Removes
  <2>5. CASE Told(r, u, l) /\ ShareTomb(u, l) \notin keys
    BY <1>2, <2>1, <2>5 DEF Told, Holds, Stores
  <2> QED BY <2>3, <2>4, <2>5
<1> QED BY <1>1, <1>2, <1>3, <1>4, <1>5, <1>8, <1>9, WriteKeeps

\* DELETE FROM lists: everything that refers to the list goes with it.
LEMMA DropListKeepsK ==
  ASSUME IInv, KInv, NEW r \in Requests, NEW l \in Lists, DropList(r, l) PROVE KInv'
<1> DEFINE keys == {ListKey(l)} \cup Dependents(r, l)
<1>1. Statement(r, <<"drop", l>>, DropLocks(r, l)) /\ <<"drop", l>>[1] = "drop"
      /\ <<"drop", l>>[2] = l
  BY DEF DropList
<1>2. \/ Write(r, [k \in keys |-> NoRow]) /\ Go(r, <<"commit">>)
      \/ WriteNothing /\ (Go(r, <<"commit">>) \/ Go(r, <<"fail">>))
  BY DEF DropList
<1>3. /\ \A t \in Requests \ {r} : pc'[t] = pc[t]
      /\ pc'[r][1] \in {"commit", "fail"}
  BY <1>2, GoFacts DEF IInv, Locking, Shape
<1>4. pc[r][1] = "drop" /\ pc[r][2] = l /\ UNCHANGED req
  BY <1>1 DEF Statement, requestVars
<1>5. req[r] \in AllRequests
  BY <1>4 DEF KInv, Places, Placed
<1>6. Lockable(DropLocks(r, l)) /\ Placed(r)'
  BY <1>3, <1>4, <1>5, LockableLists DEF Placed
<1>7. CASE WriteNothing
  BY <1>1, <1>3, <1>6, <1>7, NothingKeepsK
<1>8. CASE Write(r, [k \in keys |-> NoRow]) /\ Go(r, <<"commit">>)
  <2>1. \A k \in keys : \/ k = ListKey(l)
                        \/ k[1] \in {"list_permissions", "entries", "deleted_entry", "share_token"}
    BY DependentsFacts, Names
  <2>2. keys \subseteq Keys
    BY DependentsFacts, NamesAreKeys
  <2>3. \A m \in Lists : ListKey(m) \in keys => Dependents(r, m) \subseteq keys
    <3> TAKE m \in Lists
    <3> HAVE ListKey(m) \in keys
    <3>1. m = l
      BY <2>1, Names
    <3> QED BY <3>1
  <2>4. \A u \in Users : UserKey(u) \notin keys
    BY <2>1, Names
  <2>5. req[r].kind \in Tells =>
           \A u \in Users, m \in Lists : PermKey(u, m) \in keys =>
             Told(r, u, m) /\ ShareTomb(u, m) \notin keys
    <3> SUFFICES ASSUME req[r].kind \in Tells, NEW u \in Users, NEW m \in Lists, PermKey(u, m) \in keys
                 PROVE  Told(r, u, m) /\ ShareTomb(u, m) \notin keys
      OBVIOUS
    <3>1. PermKey(u, m) \in Dependents(r, l)
      BY Names
    <3>2. m = l
      BY <3>1, DependentsFacts, Names
    <3>3. Told(r, u, l)
      BY <1>4 DEF KInv, SharesInv, SharesOf
    <3> QED BY <2>1, <3>2, <3>3, Names
  <2> HIDE DEF keys
  <2> QED BY <1>1, <1>6, <1>8, <2>2, <2>3, <2>4, <2>5, DropsKeepK
<1> QED BY <1>2, <1>7, <1>8

\* DELETE FROM users: the lists of the account and all that refers to them go with it.
LEMMA DropUserKeepsK == ASSUME IInv, KInv, NEW r \in Requests, DropUser(r) PROVE KInv'
<1> DEFINE u == req[r].user
           keys == {UserKey(u)} \cup Belongings(r, u)
<1>1. /\ Statement(r, <<"drop_user">>, DropUserLocks(r, u)) /\ <<"drop_user">>[1] = "drop_user"
      /\ Write(r, [k \in keys |-> NoRow]) /\ Go(r, <<"commit">>)
  BY DEF DropUser
<1>2. pc[r][1] = "drop_user" /\ UNCHANGED req
  BY <1>1 DEF Statement, requestVars
<1>3. req[r] \in AllRequests /\ req[r].kind = "delete_account"
  BY <1>2 DEF KInv, Places, Placed
<1>4. u \in Users /\ Lockable(DropUserLocks(r, u)) /\ req[r].kind \in Tells
  BY <1>3, RequestFacts, LockableLists DEF Tells
<1>5. keys \subseteq Keys
  BY <1>4, BelongingsFacts, NamesAreKeys
<1>6. ASSUME NEW k \in keys
      PROVE  \/ k = UserKey(u)
             \/ \E l \in Lists : k \in {PermKey(u, l), ShareTomb(u, l), ListTomb(l)}
             \/ \E l \in OwnedNow(r, u) :
                  \/ k = ListKey(l) \/ \E v \in Users : k = PermKey(v, l)
                  \/ k[1] \in {"entries", "deleted_entry", "share_token"}
  <2>1. CASE \E l \in OwnedNow(r, u) : k \in Dependents(r, l)
    <3>1. PICK l \in OwnedNow(r, u) : k \in Dependents(r, l)
      BY <2>1
    <3>2. l \in Lists
      BY DEF OwnedNow
    <3> QED BY <3>1, <3>2, DependentsFacts, Names
  <2> QED BY <1>4, <2>1, BelongingsFacts
<1>7. \A l \in Lists : ListKey(l) \in keys => Dependents(r, l) \subseteq keys
  <2> TAKE l \in Lists
  <2> HAVE ListKey(l) \in keys
  <2>1. l \in OwnedNow(r, u)
    <3> HIDE DEF keys
    <3> QED BY <1>6, Names
  <2> QED BY <1>4, <2>1, BelongingsFacts
<1>8. ASSUME NEW v \in Users, UserKey(v) \in keys PROVE v = u
  <2> HIDE DEF keys
  <2> QED BY <1>6, <1>8, Names
<1>9. /\ \A l \in Lists : /\ PermKey(u, l) \in keys /\ ShareTomb(u, l) \in keys
                          /\ Exists(r, ListTomb(l)) /\ Now(r)[ListTomb(l)].owner = u =>
                               ListTomb(l) \in keys
      /\ \A l \in OwnedNow(r, u) : ListKey(l) \in keys
  BY <1>4, BelongingsFacts
<1>10. ASSUME NEW v \in Users, NEW l \in Lists, PermKey(v, l) \in keys, v # u
       PROVE  Told(r, v, l) /\ ShareTomb(v, l) \notin keys
  <2>1. l \in OwnedNow(r, u)
    <3> HIDE DEF keys, u
    <3> QED BY <1>6, <1>10, Names
  <2>2. ListKey(l) \notin DOMAIN written[r] /\ SharesOf(r)
    BY <1>2, <1>4 DEF KInv, SharesInv, SharesOf
  <2>3. db[ListKey(l)] # NoRow /\ db[ListKey(l)].owner = u
    <3>1. Now(r)[ListKey(l)] = db[ListKey(l)]
      BY <2>2, NamesAreKeys DEF Now
    <3> QED BY <2>1, <3>1 DEF OwnedNow, Exists
  <2>4. Told(r, v, l)
    BY <1>2, <2>2, <2>3 DEF SharesOf
  <2>5. ShareTomb(v, l) \notin keys
    <3> HIDE DEF keys, u
    <3> QED BY <1>6, <1>10, Names
  <2> QED BY <2>4, <2>5
<1>11. UserKey(u) \in keys
  OBVIOUS
<1> HIDE DEF keys, u
<1>12. \A v \in Users : UserKey(v) \in keys =>
           /\ \A l \in Lists : /\ PermKey(v, l) \in keys /\ ShareTomb(v, l) \in keys
                               /\ Exists(r, ListTomb(l)) /\ Now(r)[ListTomb(l)].owner = v =>
                                    ListTomb(l) \in keys
           /\ \A l \in OwnedNow(r, v) : ListKey(l) \in keys
  <2> TAKE v \in Users
  <2> HAVE UserKey(v) \in keys
  <2>1. v = u
    BY <1>8
  <2> QED BY <1>9, <2>1
<1>13. \A v \in Users, l \in Lists : PermKey(v, l) \in keys =>
             UserKey(v) \in keys \/ (Told(r, v, l) /\ ShareTomb(v, l) \notin keys)
  <2> TAKE v \in Users, l \in Lists
  <2> HAVE PermKey(v, l) \in keys
  <2>1. CASE v = u
    BY <1>11, <2>1
  <2>2. CASE v # u
    BY <1>10, <2>2
  <2> QED BY <2>1, <2>2
<1> QED BY <1>1, <1>4, <1>5, <1>7, <1>12, <1>13, DropsKeepK
-----------------------------------------------------------------------------
(* Commits *)

\* What a commit changes in the rows that another request holds or has written: nothing.
LEMMA HeldRowsStay ==
  ASSUME IInv, KInv, NEW r \in Requests, Commit(r), NEW t \in Requests \ {r}
  PROVE  /\ \A k \in Keys : Holds(t, k) => db'[k] = db[k]
         /\ \A k \in DOMAIN written[t] : k \in Keys => db'[k] = db[k]
         /\ \A k : Stores(t, k) => k \notin DOMAIN written[r]
<1>1. ASSUME NEW k \in Keys, Holds(t, k), db'[k] # db[k] PROVE FALSE
  <2>1. k \in DOMAIN written[r] /\ db'[k] = written[r][k]
    BY <1>1, CommitChangesOwnRows
  <2>2. <<r, k, "X">> \in locks
    BY <1>1, <2>1 DEF IInv, Locking, WritesLocked
  <2>3. PICK m \in Modes : <<t, k, m>> \in locks
    BY <1>1 DEF Holds
  <2> QED BY <2>2, <2>3 DEF IInv, Locking, Exclusive
<1>2. \A k \in DOMAIN written[t] : k \in Keys => db'[k] = db[k]
  BY CommitChangesOwnRows
<1>3. ASSUME NEW k, Stores(t, k), k \in DOMAIN written[r] PROVE FALSE
  <2>1. <<t, k, "X">> \in locks
    BY <1>3 DEF KInv, KeysInv, Secured, Stores
  <2>2. PICK m \in Modes : <<r, k, m>> \in locks
    BY <1>3 DEF IInv, Locking, WritesLocked
  <2> QED BY <2>1, <2>2 DEF IInv, Locking, Exclusive
<1> QED BY <1>1, <1>2, <1>3

\* After a commit of r: a child that t finds has its parent, if the parent is known
\* by the child's key, and whoever removes the parent removes the child.
LEMMA ChildrenKeepParents ==
  ASSUME IInv, KInv, NEW r \in Requests, Commit(r), NEW t \in Requests \ {r},
         NEW c \in Keys, NEW p \in Keys,
         Now(t)[c] # NoRow => Now(t)[p] # NoRow,
         Now(r)[c] # NoRow => Now(r)[p] # NoRow,
         Removes(r, p) => Removes(r, c), Removes(t, p) => Removes(t, c),
         Now(t)'[c] # NoRow
  PROVE  Now(t)'[p] # NoRow
<1>1. db' = Now(r) /\ written'[t] = written[t]
  BY ReleaseFacts DEF Commit, IInv
<1>2. /\ \A k \in Keys : Now(t)'[k] = IF k \in DOMAIN written[t] THEN written[t][k] ELSE db'[k]
      /\ \A k \in Keys : Now(t)[k] = IF k \in DOMAIN written[t] THEN written[t][k] ELSE db[k]
      /\ \A k \in Keys : db'[k] = IF k \in DOMAIN written[r] THEN written[r][k] ELSE db[k]
  BY <1>1 DEF Now
<1>3. CASE c \in DOMAIN written[t]
  <2>1. Stores(t, c) /\ Now(t)[p] # NoRow
    BY <1>2, <1>3 DEF Stores
  <2>2. CASE p \in DOMAIN written[t]
    BY <1>2, <2>1, <2>2
  <2>3. CASE p \notin DOMAIN written[t]
    <3>1. c \notin DOMAIN written[r]
      BY <2>1, HeldRowsStay
    <3>2. ~Removes(r, p)
      BY <3>1 DEF Removes
    <3> QED BY <1>2, <2>1, <2>3, <3>2 DEF Removes
  <2> QED BY <2>2, <2>3
<1>4. CASE c \notin DOMAIN written[t]
  <2>1. ~Removes(t, p)
    BY <1>4 DEF Removes
  <2>2. db'[p] # NoRow
    BY <1>1, <1>2, <1>4
  <2> QED BY <1>2, <2>1, <2>2 DEF Removes
<1> QED BY <1>3, <1>4

\* And so has one whose parent is known by its row: whoever stores it holds the
\* parent.
LEMMA OwnedKeepOwners ==
  ASSUME IInv, KInv, NEW r \in Requests, Commit(r), NEW t \in Requests \ {r},
         NEW l \in Lists, NEW c \in {ListKey(l), ListTomb(l)}, Now(t)'[c] # NoRow
  PROVE  Now(t)'[c].owner \in Users /\ Now(t)'[UserKey(Now(t)'[c].owner)] # NoRow
<1>1. db' = Now(r) /\ written'[t] = written[t]
  BY ReleaseFacts DEF Commit, IInv
<1>2. /\ \A k \in Keys : Now(t)'[k] = IF k \in DOMAIN written[t] THEN written[t][k] ELSE db'[k]
      /\ \A k \in Keys : Now(t)[k] = IF k \in DOMAIN written[t] THEN written[t][k] ELSE db[k]
      /\ \A k \in Keys : db'[k] = IF k \in DOMAIN written[r] THEN written[r][k] ELSE db[k]
  BY <1>1 DEF Now
<1>3. c \in Keys /\ Secured(t) /\ Secured(r) /\ Sound(Now(t)) /\ Sound(Now(r)) /\ Given
  BY NamesAreKeys DEF KInv, KeysInv, Places
<1>4. CASE c \in DOMAIN written[t]
  <2> DEFINE u == written[t][c].owner
  <2>1. Stores(t, c) /\ Now(t)[c] = written[t][c] /\ Now(t)'[c] = written[t][c]
    BY <1>2, <1>3, <1>4 DEF Stores
  <2>2. u \in Users /\ Now(t)[UserKey(u)] # NoRow
    BY <1>3, <2>1 DEF Sound, Stores
  <2>3. Holds(t, UserKey(u))
    BY <1>3, <2>1 DEF Secured
  <2>4. db'[UserKey(u)] = db[UserKey(u)]
    BY <2>2, <2>3, HeldRowsStay, NamesAreKeys
  <2>5. Now(t)'[UserKey(u)] = Now(t)[UserKey(u)]
    BY <1>2, <2>2, <2>4, NamesAreKeys
  <2> QED BY <2>1, <2>2, <2>5
<1>5. CASE c \notin DOMAIN written[t]
  <2> DEFINE u == Now(r)[c].owner
             k == UserKey(u)
  <2>1. Now(t)'[c] = Now(r)[c] /\ Now(r)[c] # NoRow
    BY <1>1, <1>2, <1>3, <1>5
  <2>2. u \in Users /\ Now(r)[k] # NoRow
    BY <1>3, <2>1 DEF Sound
  <2>3. k \in Keys
    BY <2>2, NamesAreKeys
  <2>4. ASSUME k \in DOMAIN written[t] PROVE FALSE
    <3>1. Removes(t, k)
      BY <1>3, <2>2, <2>4 DEF Given, Stores, Removes
    <3>2. Now(t)[k] = NoRow
      BY <1>2, <2>3, <3>1 DEF Removes
    <3>3. Now(t)[c] = db[c]
      BY <1>2, <1>3, <1>5
    <3>4. db[c] # NoRow => db[c].owner # u
      BY <1>3, <2>2, <3>2, <3>3 DEF Sound
    <3>5. Stores(r, c) /\ Now(r)[c] = written[r][c]
      BY <1>1, <1>2, <1>3, <2>1, <3>4 DEF Stores
    <3>6. Holds(r, k)
      BY <1>3, <3>5 DEF Secured
    <3>7. db[k] # NoRow
      BY <1>1, <1>2, <1>3, <2>2, <2>3 DEF Given, Stores
    <3>8. <<t, k, "X">> \in locks
      BY <2>3, <3>1, <3>7 DEF IInv, Locking, WritesLocked, Removes
    <3>9. PICK m \in Modes : <<r, k, m>> \in locks
      BY <3>6 DEF Holds
    <3> QED BY <3>8, <3>9 DEF IInv, Locking, Exclusive
  <2>5. Now(t)'[k] # NoRow
    BY <1>1, <1>2, <2>2, <2>3, <2>4
  <2> QED BY <2>1, <2>2, <2>5
<1> QED BY <1>4, <1>5

\* After the commit of r every key that another request t sees still has its row: what
\* r removed was locked X, and t would have had to lock it to refer to it.
LEMMA CommitKeepsSound ==
  ASSUME IInv, KInv, NEW r \in Requests, Commit(r), NEW t \in Requests \ {r}
  PROVE  Sound(Now(t))'
<1>1. /\ Sound(Now(t)) /\ Sound(Now(r)) /\ Secured(t) /\ Secured(r)
  BY DEF KInv, KeysInv
<1>2. ASSUME NEW e \in Entries, NEW c \in {EntryKey(e), EntryTomb(e)}, Now(t)'[c] # NoRow
      PROVE  Now(t)'[ListKey(Home[e])] # NoRow
  <2>1. c \in Keys /\ ListKey(Home[e]) \in Keys /\ Home[e] \in Lists
    BY NamesAreKeys, TransactionsAssumption
  <2>2. /\ Now(t)[c] # NoRow => Now(t)[ListKey(Home[e])] # NoRow
        /\ Now(r)[c] # NoRow => Now(r)[ListKey(Home[e])] # NoRow
    BY <1>1 DEF Sound
  <2>3. /\ Removes(r, ListKey(Home[e])) => Removes(r, c)
        /\ Removes(t, ListKey(Home[e])) => Removes(t, c)
    BY <1>1, <2>1 DEF Secured
  <2> QED BY <1>2, <2>1, <2>2, <2>3, ChildrenKeepParents
<1>3. ASSUME NEW u \in Users, NEW l \in Lists
      PROVE  /\ Now(t)'[PermKey(u, l)] # NoRow => Now(t)'[ListKey(l)] # NoRow /\ Now(t)'[UserKey(u)] # NoRow
             /\ Now(t)'[ShareTomb(u, l)] # NoRow => Now(t)'[UserKey(u)] # NoRow
  <2>1. {PermKey(u, l), ShareTomb(u, l), ListKey(l), UserKey(u)} \subseteq Keys
    BY NamesAreKeys
  <2>2. /\ Now(t)[PermKey(u, l)] # NoRow => Now(t)[ListKey(l)] # NoRow /\ Now(t)[UserKey(u)] # NoRow
        /\ Now(t)[ShareTomb(u, l)] # NoRow => Now(t)[UserKey(u)] # NoRow
        /\ Now(r)[PermKey(u, l)] # NoRow => Now(r)[ListKey(l)] # NoRow /\ Now(r)[UserKey(u)] # NoRow
        /\ Now(r)[ShareTomb(u, l)] # NoRow => Now(r)[UserKey(u)] # NoRow
    BY <1>1 DEF Sound
  <2>3. /\ Removes(r, ListKey(l)) => Removes(r, PermKey(u, l))
        /\ Removes(t, ListKey(l)) => Removes(t, PermKey(u, l))
        /\ Removes(r, UserKey(u)) => Removes(r, PermKey(u, l)) /\ Removes(r, ShareTomb(u, l))
        /\ Removes(t, UserKey(u)) => Removes(t, PermKey(u, l)) /\ Removes(t, ShareTomb(u, l))
    BY <1>1 DEF Secured
  <2>4. Now(t)'[PermKey(u, l)] # NoRow => Now(t)'[ListKey(l)] # NoRow
    BY <2>1, <2>2, <2>3, ChildrenKeepParents
  <2>5. Now(t)'[PermKey(u, l)] # NoRow => Now(t)'[UserKey(u)] # NoRow
    BY <2>1, <2>2, <2>3, ChildrenKeepParents
  <2>6. Now(t)'[ShareTomb(u, l)] # NoRow => Now(t)'[UserKey(u)] # NoRow
    BY <2>1, <2>2, <2>3, ChildrenKeepParents
  <2> QED BY <2>4, <2>5, <2>6
<1>4. ASSUME NEW l \in Lists, NEW c \in {ListKey(l), ListTomb(l)}, Now(t)'[c] # NoRow
      PROVE  Now(t)'[c].owner \in Users /\ Now(t)'[UserKey(Now(t)'[c].owner)] # NoRow
  BY <1>4, OwnedKeepOwners
<1>5. Sound(Now(t)')
  BY <1>2, <1>3, <1>4 DEF Sound
<1> QED BY <1>5 DEF Sound

\* What a request that will tell others relies on is not changed by the commit of
\* another one: nobody has shared the lists or added one.
LEMMA CommitKeepsShares ==
  ASSUME IInv, KInv, NEW r \in Requests, Commit(r), NEW t \in Requests \ {r},
         SharesOf(t), Placed(t)
  PROVE  SharesOf(t)'
<1>1. /\ written'[t] = written[t] /\ pc'[t] = pc[t] /\ UNCHANGED req /\ db' = Now(r)
      /\ \A a \in locks : a[1] # r => a \in locks'
  BY ReleaseFacts DEF Commit, IInv, requestVars
<1>2. /\ \A k : Stores(t, k)' <=> Stores(t, k)
      /\ \A k : Removes(t, k)' <=> Removes(t, k)
      /\ \A k : Holds(t, k) => Holds(t, k)'
  BY <1>1 DEF Stores, Removes, Holds
<1>3. \A u \in Users, l \in Lists : Told(t, u, l) => Told(t, u, l)'
  <2> TAKE u \in Users, l \in Lists
  <2> HAVE Told(t, u, l)
  <2>1. db'[PermKey(u, l)] = db[PermKey(u, l)]
    BY HeldRowsStay, NamesAreKeys DEF Told
  <2> QED BY <1>2, <2>1 DEF Told
<1>4. ASSUME pc[t][1] = "drop_user", NEW l \in Lists, db'[ListKey(l)] # NoRow,
             db'[ListKey(l)].owner = req[t].user
      PROVE  db[ListKey(l)] = db'[ListKey(l)]
  <2> SUFFICES ASSUME db[ListKey(l)] # db'[ListKey(l)] PROVE FALSE
    OBVIOUS
  <2>1. Stores(r, ListKey(l)) /\ written[r][ListKey(l)].owner = req[t].user
    BY <1>4, CommitChangesOwnRows, NamesAreKeys DEF Stores
  <2>2. <<r, ListsOf(req[t].user), "enter">> \in locks
    BY <2>1 DEF KInv, KeysInv, Secured
  <2>3. <<t, ListsOf(req[t].user), "gap">> \in locks
    BY <1>4 DEF SharesOf
  <2>4. \A held, other \in locks : held[1] # other[1] /\ held[2] = other[2] => other[3] \notin Excluded(held[3])
    BY DEF KInv, LocksInv
  <2>5. "enter" \in Excluded("gap")
    BY DEF Excluded
  <2> QED BY <2>2, <2>3, <2>4, <2>5
<1>5. pc[t][1] = "drop_user" =>
        /\ <<t, ListsOf(req[t].user), "gap">> \in locks'
        /\ \A l \in Lists : db'[ListKey(l)] # NoRow /\ db'[ListKey(l)].owner = req[t].user =>
             Holds(t, ListKey(l))' /\ \A u \in Users : Told(t, u, l)'
  <2> HAVE pc[t][1] = "drop_user"
  <2>1. <<t, ListsOf(req[t].user), "gap">> \in locks'
    BY <1>1 DEF SharesOf
  <2>2. ASSUME NEW l \in Lists, db'[ListKey(l)] # NoRow, db'[ListKey(l)].owner = req[t].user
        PROVE  Holds(t, ListKey(l)) /\ \A u \in Users : Told(t, u, l)
    BY <1>4, <2>2 DEF SharesOf
  <2> QED BY <1>2, <1>3, <2>1, <2>2
<1>6. pc[t][1] = "drop" => \A u \in Users : Told(t, u, pc[t][2])'
  <2> HAVE pc[t][1] = "drop"
  <2>1. pc[t][2] \in Lists
    BY RequestFacts DEF Placed
  <2>2. pc'[t][2] = pc[t][2]
    BY <1>1
  <2>3. \A u \in Users : Told(t, u, pc[t][2])
    BY DEF SharesOf
  <2> DEFINE l == pc[t][2]
  <2>4. l' = l /\ l \in Lists /\ \A u \in Users : Told(t, u, l)
    BY <2>1, <2>2, <2>3
  <2> HIDE DEF l
  <2>5. \A u \in Users : Told(t, u, l)'
    BY <1>3, <2>4 DEF Told
  <2> QED BY <2>5 DEF l
<1>7. \A u \in Users, l \in Lists : Removes(t, PermKey(u, l))' =>
         Removes(t, UserKey(u))' \/ Told(t, u, l)'
  BY <1>2, <1>3 DEF SharesOf
<1>8. pc[t][1] # "commit" => \A u \in Users, l \in Lists :
       PermKey(u, l) \notin DOMAIN written[t] /\ ListKey(l) \notin DOMAIN written[t]
  BY DEF SharesOf
<1>9. (pc[t][1] = "drop" => \A u \in Users : Told(t, u, pc[t][2]))'
  BY <1>1, <1>6
<1>10. (pc[t][1] = "drop_user" =>
        /\ <<t, ListsOf(req[t].user), "gap">> \in locks
        /\ \A l \in Lists : db[ListKey(l)] # NoRow /\ db[ListKey(l)].owner = req[t].user =>
             Holds(t, ListKey(l)) /\ \A u \in Users : Told(t, u, l))'
  BY <1>1, <1>5
<1>11. (\A u \in Users, l \in Lists : Removes(t, PermKey(u, l)) =>
          Removes(t, UserKey(u)) \/ Told(t, u, l))'
  BY <1>7
<1>12. (pc[t][1] # "commit" => \A u \in Users, l \in Lists :
       PermKey(u, l) \notin DOMAIN written[t] /\ ListKey(l) \notin DOMAIN written[t])'
  BY <1>1, <1>8
<1> QED BY <1>9, <1>10, <1>11, <1>12 DEF SharesOf

\* A commit keeps keys and shares.
LEMMA CommitKeepsK == ASSUME IInv, KInv, NEW r \in Requests, Commit(r) PROVE KInv'
<1>1. /\ db' = Now(r) /\ UNCHANGED req /\ pc[r] = <<"commit">>
      /\ pc'[r] = <<"done">> /\ DOMAIN written'[r] = {}
      /\ locks' = {l \in locks : l[1] # r}
      /\ \A t \in Requests \ {r} : written'[t] = written[t] /\ pc'[t] = pc[t]
  BY ReleaseFacts DEF Commit, Release, IInv, requestVars
<1>2. LocksInv'
  BY <1>1 DEF KInv, LocksInv
<1>3. pc[r][1] = "commit" /\ pc'[r][1] = "done"
  BY <1>1
<1>4. \A k : ~Stores(r, k)' /\ ~Removes(r, k)'
  BY <1>1 DEF Stores, Removes
<1>5. ASSUME NEW t \in Requests \ {r}
      PROVE  /\ Placed(t)' /\ Sound(Now(t))' /\ Secured(t)'
             /\ req'[t].kind \in Tells => SharesOf(t)'
             /\ \A k : Stores(t, k)' => Stores(t, k)
  <2>1. /\ \A k : Stores(t, k)' <=> Stores(t, k)
        /\ \A k : Removes(t, k)' <=> Removes(t, k)
        /\ \A k : Holds(t, k) => Holds(t, k)'
    BY <1>1 DEF Stores, Removes, Holds
  <2>2. Placed(t) /\ Secured(t)
    BY DEF KInv, Places, KeysInv
  <2>3. Placed(t)'
    BY <1>1, <2>2 DEF Placed
  <2>4. Secured(t)'
    BY <1>1, <2>1, <2>2 DEF Secured
  <2>5. req'[t].kind \in Tells => SharesOf(t)'
    BY <1>1, <2>2, CommitKeepsShares DEF KInv, SharesInv
  <2> QED BY <2>1, <2>3, <2>4, <2>5, CommitKeepsSound
<1>6. Given'
  <2>1. ASSUME NEW t \in Tokens, db'[TokenKey(t)] # NoRow PROVE db'[TokenKey(t)].list \in Lists
    BY <2>1, CommitChangesOwnRows, NamesAreKeys DEF KInv, Places, Given, Stores
  <2> QED BY <1>4, <1>5, <2>1 DEF KInv, Places, Given
<1>7. Placed(r)'
  <2>1. req[r] \in AllRequests
    BY <1>3 DEF KInv, Places, Placed
  <2> QED BY <1>1, <1>3, <2>1 DEF Placed
<1>8. Sound(db')
  BY <1>1 DEF KInv, KeysInv
<1>9. Sound(db)' /\ Sound(Now(r))'
  <2>1. \A k \in Keys : Now(r)'[k] = db'[k]
    BY <1>1 DEF Now
  <2>2. Sound(Now(r)')
    BY <1>8, <2>1, NamesAreKeys, TransactionsAssumption DEF Sound
  <2> QED BY <1>8, <2>2 DEF Sound
<1>10. Secured(r)'
  BY <1>1, <1>4 DEF Secured
<1>11. SharesOf(r)'
  BY <1>1, <1>3, <1>4 DEF SharesOf
<1>12. Places'
  BY <1>5, <1>6, <1>7 DEF Places
<1>13. KeysInv'
  BY <1>5, <1>9, <1>10 DEF KeysInv
<1>14. SharesInv'
  BY <1>5, <1>11 DEF SharesInv
<1> QED BY <1>2, <1>12, <1>13, <1>14 DEF KInv
-----------------------------------------------------------------------------
(* All behaviours *)

\* The tables that earlier requests have left are sound.
LEMMA InitHoldsK == Init => KInv
<1> SUFFICES ASSUME Init PROVE KInv
  OBVIOUS
<1>1. /\ written = [r \in Requests |-> Nothing] /\ locks = {}
      /\ pc = [r \in Requests |-> <<"new">>] /\ req = [r \in Requests |-> NoRequest]
  BY DEF Init
<1>2. \A r \in Requests : /\ DOMAIN written[r] = {} /\ pc[r][1] = "new"
                          /\ req[r].kind = "none"
  BY <1>1 DEF Nothing, NoRequest
<1>3. \A r \in Requests : \A k : ~Stores(r, k) /\ ~Removes(r, k)
  BY <1>2 DEF Stores, Removes
<1>4. PICK there \in SUBSET Lists :
        LET within == {e \in Entries : Home[e] \in there}
        IN  \E living \in SUBSET within :
              \E dead \in SUBSET (within \ living),
                 shared \in SUBSET {p \in Users \X there : Owners[p[2]] # p[1]},
                 codes \in [Tokens -> [list : there, reusable : BOOLEAN] \cup {NoRow}] :
                db = Tables(there, living, dead, shared, codes)
  BY DEF Init
<1> DEFINE within == {e \in Entries : Home[e] \in there}
<1>5. PICK living \in SUBSET within, dead \in SUBSET within,
           shared \in SUBSET (Users \X there),
           codes \in [Tokens -> [list : there, reusable : BOOLEAN] \cup {NoRow}] :
        db = Tables(there, living, dead, shared, codes)
  <2>1. PICK living \in SUBSET within :
          \E dead \in SUBSET (within \ living),
             shared \in SUBSET {p \in Users \X there : Owners[p[2]] # p[1]},
             codes \in [Tokens -> [list : there, reusable : BOOLEAN] \cup {NoRow}] :
            db = Tables(there, living, dead, shared, codes)
    BY <1>4
  <2>2. PICK dead \in SUBSET (within \ living),
             shared \in SUBSET {p \in Users \X there : Owners[p[2]] # p[1]},
             codes \in [Tokens -> [list : there, reusable : BOOLEAN] \cup {NoRow}] :
            db = Tables(there, living, dead, shared, codes)
    BY <2>1
  <2>3. dead \in SUBSET within /\ shared \in SUBSET (Users \X there)
    OBVIOUS
  <2> QED BY <2>2, <2>3
<1>6. /\ \A e \in Entries : /\ db[EntryKey(e)] # NoRow => e \in living
                            /\ db[EntryTomb(e)] # NoRow => e \in dead
      /\ \A l \in Lists : /\ l \in there => db[ListKey(l)] = [owner |-> Owners[l], changed |-> 0]
                          /\ l \notin there => db[ListKey(l)] = NoRow
                          /\ db[ListTomb(l)] = NoRow
      /\ \A u \in Users : db[UserKey(u)] = [uuid |-> u]
      /\ \A u \in Users, l \in Lists : /\ db[PermKey(u, l)] # NoRow => <<u, l>> \in shared
                                       /\ db[ShareTomb(u, l)] = NoRow
      /\ \A t \in Tokens : db[TokenKey(t)] # NoRow => db[TokenKey(t)] = codes[t] /\ codes[t] # NoRow
  <2>1. \A k \in Keys : db[k] =
          CASE k[1] = "users" -> [uuid |-> k[2]]
            [] k[1] = "lists" /\ k[2] \in there -> [owner |-> Owners[k[2]], changed |-> 0]
            [] k[1] = "entries" /\ k[2] \in living -> [changed |-> 0, updated |-> 0]
            [] k[1] = "deleted_entry" /\ k[2] \in dead -> [created |-> 0]
            [] k[1] = "list_permissions" /\ k[2] \in shared -> [write |-> TRUE]
            [] k[1] = "share_token" /\ codes[k[2]] # NoRow -> codes[k[2]]
            [] OTHER -> NoRow
    BY <1>5 DEF Tables
  <2>2. ASSUME NEW e \in Entries
        PROVE  /\ db[EntryKey(e)] # NoRow => e \in living
               /\ db[EntryTomb(e)] # NoRow => e \in dead
    <3>1. EntryKey(e) \in Keys /\ EntryTomb(e) \in Keys
      BY NamesAreKeys
    <3>2. /\ EntryKey(e)[1] = "entries" /\ EntryKey(e)[2] = e
          /\ EntryTomb(e)[1] = "deleted_entry" /\ EntryTomb(e)[2] = e
      BY Names
    <3> QED BY <2>1, <3>1, <3>2
  <2>3. ASSUME NEW l \in Lists
        PROVE  /\ l \in there => db[ListKey(l)] = [owner |-> Owners[l], changed |-> 0]
               /\ l \notin there => db[ListKey(l)] = NoRow
               /\ db[ListTomb(l)] = NoRow
    <3>1. ListKey(l) \in Keys /\ ListTomb(l) \in Keys
      BY NamesAreKeys
    <3>2. ListKey(l)[1] = "lists" /\ ListKey(l)[2] = l /\ ListTomb(l)[1] = "deleted_list"
      BY Names
    <3> QED BY <2>1, <3>1, <3>2
  <2>4. ASSUME NEW u \in Users PROVE db[UserKey(u)] = [uuid |-> u]
    <3>1. UserKey(u) \in Keys /\ UserKey(u)[1] = "users" /\ UserKey(u)[2] = u
      BY NamesAreKeys, Names
    <3> QED BY <2>1, <3>1
  <2>5. ASSUME NEW u \in Users, NEW l \in Lists
        PROVE  /\ db[PermKey(u, l)] # NoRow => PermKey(u, l)[2] \in shared
               /\ db[ShareTomb(u, l)] = NoRow
    <3>1. PermKey(u, l) \in Keys /\ ShareTomb(u, l) \in Keys
      BY NamesAreKeys
    <3>2. PermKey(u, l)[1] = "list_permissions" /\ ShareTomb(u, l)[1] = "deleted_list_shared"
      BY Names
    <3> QED BY <2>1, <3>1, <3>2
  <2>6. \A u, l : PermKey(u, l)[2] = <<u, l>>
    BY DEF PermKey
  <2>7. ASSUME NEW t \in Tokens
        PROVE  db[TokenKey(t)] # NoRow => db[TokenKey(t)] = codes[t] /\ codes[t] # NoRow
    <3>1. TokenKey(t) \in Keys /\ TokenKey(t)[1] = "share_token" /\ TokenKey(t)[2] = t
      BY NamesAreKeys, Names
    <3> QED BY <2>1, <3>1
  <2> QED BY <2>2, <2>3, <2>4, <2>5, <2>6, <2>7
<1>7. \A u : [uuid |-> u] # NoRow
  <2>1. "uuid" \notin DOMAIN NoRow /\ \A u : "uuid" \in DOMAIN [uuid |-> u]
    BY DEF NoRow
  <2> QED BY <2>1
<1>8. \A l : [owner |-> Owners[l], changed |-> 0] # NoRow
  BY RowsAreRows
<1>9. Sound(db)
  <2>0. /\ \A l \in there : l \in Lists /\ db[ListKey(l)] # NoRow
        /\ \A l \in there : db[ListKey(l)].owner = Owners[l]
        /\ \A u \in Users : db[UserKey(u)] # NoRow
    <3>1. \A l \in there : l \in Lists /\ db[ListKey(l)] = [owner |-> Owners[l], changed |-> 0]
      BY <1>6
    <3>2. \A u \in Users : db[UserKey(u)] = [uuid |-> u]
      BY <1>6
    <3>3. \A l \in there : db[ListKey(l)] # NoRow
      BY <1>8, <3>1, Zenon
    <3>4. \A l \in there : db[ListKey(l)].owner = Owners[l]
      <4> TAKE l \in there
      <4>1. [owner |-> Owners[l], changed |-> 0].owner = Owners[l]
        OBVIOUS
      <4>2. db[ListKey(l)] = [owner |-> Owners[l], changed |-> 0]
        BY <3>1
      <4> QED BY <4>1, <4>2, Zenon
    <3>5. \A u \in Users : db[UserKey(u)] # NoRow
      BY <1>7, <3>2, Zenon
    <3> QED BY <3>1, <3>3, <3>4, <3>5
  <2>1. ASSUME NEW l \in Lists, db[ListKey(l)] # NoRow
        PROVE  db[ListKey(l)].owner \in Users /\ db[UserKey(db[ListKey(l)].owner)] # NoRow
    <3>1. l \in there
      BY <1>6, <2>1
    <3>2. db[ListKey(l)].owner = Owners[l] /\ Owners[l] \in Users
      BY <2>0, <3>1, ConcurrencyAssumption
    <3> QED BY <2>0, <3>2
  <2>2. ASSUME NEW e \in Entries, db[EntryKey(e)] # NoRow \/ db[EntryTomb(e)] # NoRow
        PROVE  db[ListKey(Home[e])] # NoRow
    <3>1. e \in living \/ e \in dead
      BY <1>6, <2>2
    <3>2. Home[e] \in there
      BY <3>1
    <3> QED BY <2>0, <3>2
  <2>3. ASSUME NEW u \in Users, NEW l \in Lists, db[PermKey(u, l)] # NoRow
        PROVE  db[ListKey(l)] # NoRow /\ db[UserKey(u)] # NoRow
    <3>1. <<u, l>> \in shared
      BY <1>6, <2>3
    <3>2. l \in there
      BY <3>1
    <3> QED BY <2>0, <3>2
  <2> QED BY <1>6, <2>1, <2>2, <2>3 DEF Sound
<1>10. \A r \in Requests : Sound(Now(r)) /\ Secured(r)
  <2> TAKE r \in Requests
  <2>1. \A k \in Keys : Now(r)[k] = db[k]
    BY <1>2 DEF Now
  <2>2. Sound(Now(r))
    BY <1>9, <2>1, NamesAreKeys, TransactionsAssumption DEF Sound
  <2> QED BY <1>2, <1>3, <2>2 DEF Secured
<1>11. Places
  <2>1. \A t \in Tokens : db[TokenKey(t)] # NoRow => db[TokenKey(t)].list \in Lists
    <3> TAKE t \in Tokens
    <3> HAVE db[TokenKey(t)] # NoRow
    <3>1. codes[t] \in [list : there, reusable : BOOLEAN] /\ db[TokenKey(t)] = codes[t]
      BY <1>6
    <3> QED BY <3>1
  <2>2. \A r \in Requests : Placed(r)
    BY <1>2 DEF Placed
  <2> QED BY <1>3, <2>1, <2>2 DEF Places, Given
<1>12. LocksInv /\ SharesInv
  BY <1>1, <1>2 DEF LocksInv, SharesInv, Tells
<1> QED BY <1>9, <1>10, <1>11, <1>12 DEF KInv, KeysInv

\* Every step keeps it.
LEMMA NextKeepsK == IInv /\ KInv /\ [Next]_tvars => KInv'
<1> SUFFICES ASSUME IInv, KInv, [Next]_tvars PROVE KInv'
  OBVIOUS
<1>1. ASSUME NEW r \in Requests, Arrive(r) PROVE KInv'
  BY <1>1, ArriveKeepsK
<1>2. ASSUME NEW r \in Requests, EntryStep(r) PROVE KInv'
  BY <1>2, LooksKeepK, LockEntryKeepsK, InsertEntryKeepsK, RemoveEntryKeepsK, BuryEntryKeepsK,
     ChangeEntryKeepsK DEF EntryStep
<1>3. ASSUME NEW r \in Requests, ListStep(r) PROVE KInv'
  BY <1>3, TouchKeepsK, LooksKeepK, GrantShareKeepsK, SpendCodeKeepsK, BuryListKeepsK,
     BurySharesKeepsK, DropListKeepsK, LockListKeepsK, InsertListKeepsK DEF ListStep
<1>4. ASSUME NEW r \in Requests, AccountStep(r) PROVE KInv'
  BY <1>4, LooksKeepK, BuryUserKeepsK, BuryOwnedKeepsK, DropUserKeepsK DEF AccountStep
<1>5. ASSUME NEW r \in Requests, Wait(r, Wishes[r]) PROVE KInv'
  BY <1>5, WaitKeepsK
<1>6. ASSUME NEW r \in Requests, DeadlockVictim(r, Wishes) \/ Rollback(r) \/ Abandon(r) PROVE KInv'
  BY <1>6, UndoKeepsK DEF DeadlockVictim, Rollback, Abandon
<1>7. ASSUME NEW r \in Requests, Commit(r) PROVE KInv'
  BY <1>7, CommitKeepsK
<1>8. CASE Passing \/ UNCHANGED tvars
  <2>1. UNCHANGED <<db, written, locks, pc, req>>
    BY <1>8 DEF Passing, tvars, requestVars
  <2>2. UNCHANGED <<Places, LocksInv, KeysInv, SharesInv>>
    BY <2>1 DEF Places, Given, Placed, LocksInv, KeysInv, Sound, Secured, SharesInv, SharesOf, Told,
         Holds, Stores, Removes, Now
  <2> QED BY <2>2 DEF KInv
<1> QED BY <1>1, <1>2, <1>3, <1>4, <1>5, <1>6, <1>7, <1>8 DEF Next, Serve, Step

\* In every state that can be reached.
LEMMA KInvHolds == Spec => []KInv
<1>1. IInv /\ KInv /\ [Next]_tvars => KInv'
  BY NextKeepsK
<1> QED BY <1>1, InitHoldsK, InvariantHolds, PTL DEF Spec

\* However requests interleave: locks exclude each other as they should, what is
\* going to be changed is locked X, and no foreign key of what is committed is
\* left without its row (the constraints of src/migrations/20211110145608_base.sql).
THEOREM KeysAndLocks == Spec => []TypeInv
<1>1. IInv /\ KInv /\ Times => TypeInv
  <2> SUFFICES ASSUME IInv, KInv, Times PROVE TypeInv
    OBVIOUS
  <2>1. clock \in 0 .. MaxClock /\ time \in [Requests -> 0 .. MaxClock]
    BY DEF Times
  <2>2. LocksInv
    BY DEF KInv
  <2>3. ASSUME NEW r \in Requests, NEW k \in DOMAIN written[r], db[k] # written[r][k]
        PROVE  <<r, k, "X">> \in locks
    <3>1. k \in Keys
      BY DEF KInv, KeysInv, Secured
    <3> QED BY <2>3, <3>1 DEF IInv, Locking, WritesLocked
  <2>4. Sound(db)
    BY DEF KInv, KeysInv
  <2> QED BY <2>1, <2>2, <2>3, <2>4 DEF TypeInv, LocksInv, Sound
<1> QED BY <1>1, KInvHolds, InvariantHolds, TimesHold, PTL

\* However requests interleave: a share that goes because the app deletes its list,
\* or the owner the account, leaves a tombstone for the one who had it (INSERT INTO
\* deleted_list_shared SELECT in src/src/sync/dao.rs and src/src/users/dao.rs),
\* also if it was got by a code meanwhile.
THEOREM SharesToldByLocks == Spec => SharesTold
<1>1. IInv /\ KInv /\ [Next]_tvars =>
        [\A u \in Users, l \in Lists :
           (/\ db[PermKey(u, l)] # NoRow /\ db'[PermKey(u, l)] = NoRow
            /\ db'[UserKey(u)] # NoRow
            /\ \A r \in Requests : pc'[r] # pc[r] => req[r].kind \in {"list_delete", "delete_account"})
             => db'[ShareTomb(u, l)] # NoRow]_<<db, pc>>
  <2> SUFFICES ASSUME IInv, KInv, [Next]_tvars, NEW u \in Users, NEW l \in Lists,
                      db[PermKey(u, l)] # NoRow, db'[PermKey(u, l)] = NoRow,
                      db'[UserKey(u)] # NoRow,
                      \A r \in Requests : pc'[r] # pc[r] => req[r].kind \in {"list_delete", "delete_account"}
               PROVE  db'[ShareTomb(u, l)] # NoRow
    OBVIOUS
  <2>1. PICK r \in Requests : Commit(r)
    BY OnlyCommits
  <2>2. pc[r] = <<"commit">> /\ pc'[r] = <<"done">> /\ db' = Now(r)
    BY <2>1 DEF Commit, Release, IInv, Locking, Shape
  <2>3. req[r].kind \in Tells
    BY <2>2 DEF Tells
  <2>4. Removes(r, PermKey(u, l))
    BY <2>1, CommitChangesOwnRows, NamesAreKeys DEF Removes
  <2>5. ~Removes(r, UserKey(u))
    BY <2>2, NamesAreKeys DEF Removes, Now
  <2>6. Told(r, u, l)
    BY <2>3, <2>4, <2>5 DEF KInv, SharesInv, SharesOf
  <2>7. Stores(r, ShareTomb(u, l))
    BY <2>6 DEF Told
  <2> QED BY <2>2, <2>7, NamesAreKeys DEF Stores, Now
<1> QED BY <1>1, KInvHolds, InvariantHolds, PTL DEF Spec, SharesTold
=============================================================================
