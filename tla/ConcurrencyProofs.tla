------------------------- MODULE ConcurrencyProofs --------------------------
(***************************************************************************)
(* Any number of requests, statement by statement: the dates of entries keep   *)
(* their order and no entry is lost, because of what is locked.                *)
(***************************************************************************)
EXTENDS Concurrency, TLAPS

Stores(r, k) == k \in DOMAIN written[r] /\ written[r][k] # NoRow
Removes(r, k) == k \in DOMAIN written[r] /\ written[r][k] = NoRow

Shape == /\ DOMAIN written = Requests /\ DOMAIN pc = Requests
         /\ DOMAIN req = Requests
         /\ \A a \in locks : a = <<a[1], a[2], a[3]>> /\ a[1] \in Requests /\ a[3] \in Modes

\* Who has a row locked X is alone with it.
Exclusive == \A a, b \in locks : a[1] # b[1] /\ a[2] = b[2] => a[3] # "X"

\* What a request writes it has locked, and X if it changes the row.
WritesLocked ==
  \A r \in Requests : \A k \in DOMAIN written[r] :
    /\ \E m \in Modes : <<r, k, m>> \in locks
    /\ k \in Keys /\ written[r][k] # db[k] => <<r, k, "X">> \in locks

Locking == Shape /\ Exclusive /\ WritesLocked

\* How far a request is that has removed an entry or a list: the tombstone of an
\* entry follows at once, or the list goes too, or nothing is committed.
RemovalsOf(r) ==
  /\ \A l \in Lists : Removes(r, ListKey(l)) => pc[r][1] = "commit"
  /\ \A e \in Entries :
       /\ Removes(r, EntryKey(e)) => pc[r][1] \in {"bury", "remove", "commit", "fail"}
       /\ Removes(r, EntryKey(e)) =>
            \/ Stores(r, EntryTomb(e)) \/ Removes(r, ListKey(Home[e]))
            \/ pc[r] = <<"bury", e>> \/ pc[r][1] = "fail"
       /\ pc[r] = <<"remove", e>> /\ req[r].kind # "delete" => Stores(r, EntryTomb(e))

\* The entries that a request writes are newer than those it replaces, unless it
\* is an edit of the web client.
DatesOf(r) ==
  /\ pc[r][1] \in {"lock", "insert"} => req[r].kind = "upload"
  /\ pc[r][1] = "change" => req[r].kind = "web_change"
  /\ req[r].kind = "upload" => req[r].changed \in Nat
  /\ \A e \in Entries :
       Stores(r, EntryKey(e)) =>
         /\ written[r][EntryKey(e)].changed \in Nat
         /\ db[EntryKey(e)] # NoRow /\ ~(pc[r][1] = "commit" /\ req[r].kind = "web_change") =>
              written[r][EntryKey(e)].changed >= db[EntryKey(e)].changed

Stored == \A e \in Entries : db[EntryKey(e)] # NoRow => db[EntryKey(e)].changed \in Nat

IInv == Locking /\ Stored /\ \A r \in Requests : RemovalsOf(r) /\ DatesOf(r)

\* What the clock says is a number; the steps that go by it need this beside IInv.
Times == clock \in 0 .. MaxClock /\ time \in [Requests -> 0 .. MaxClock]
-----------------------------------------------------------------------------
\* The rows that the statements write are rows.
LEMMA RowsAreRows ==
  ASSUME NEW c, NEW u
  PROVE  /\ [changed |-> c, updated |-> u] # NoRow /\ [created |-> u] # NoRow
         /\ [owner |-> u, changed |-> c] # NoRow
<1>1. "changed" \notin DOMAIN NoRow /\ "created" \notin DOMAIN NoRow BY DEF NoRow
<1>2. /\ "changed" \in DOMAIN [changed |-> c, updated |-> u]
      /\ "changed" \in DOMAIN [owner |-> u, changed |-> c]
  OBVIOUS
<1>3. "created" \in DOMAIN [created |-> u] OBVIOUS
<1> QED BY <1>1, <1>2, <1>3

\* The names of rows: one table each, and no two rows of a table share a name.
LEMMA KeyFacts ==
  /\ \A e \in Entries : EntryKey(e) \in Keys /\ EntryTomb(e) \in Keys
  /\ \A l \in Lists : ListKey(l) \in Keys
  /\ \A e, f : EntryKey(e) = EntryKey(f) => e = f
  /\ \A l, m : ListKey(l) = ListKey(m) => l = m
  /\ \A e, f, l : /\ EntryKey(e) # EntryTomb(f) /\ EntryKey(e) # ListKey(l)
                  /\ EntryTomb(e) # ListKey(l)
  /\ \A u, l, e : /\ PermKey(u, l) # EntryKey(e) /\ PermKey(u, l) # ListKey(e)
                  /\ ShareTomb(u, l) # EntryKey(e) /\ ShareTomb(u, l) # ListKey(e)
                  /\ TokenKey(u) # EntryKey(e) /\ TokenKey(u) # ListKey(e)
                  /\ ListTomb(l) # EntryKey(e) /\ ListTomb(l) # ListKey(e)
                  /\ UserKey(u) # EntryKey(e) /\ UserTomb(u) # EntryKey(e)
                  /\ UserTomb(u) # ListKey(e)
BY DEF EntryKey, EntryTomb, ListKey, Keys, PermKey, ShareTomb, TokenKey, ListTomb,
       UserKey, UserTomb

\* What Write does to the rows a request has written.
LEMMA WriteFacts ==
  ASSUME DOMAIN written = Requests, NEW r \in Requests, NEW rows, Write(r, rows)
  PROVE  /\ DOMAIN written' = Requests
         /\ DOMAIN written'[r] = DOMAIN written[r] \cup DOMAIN rows
         /\ \A k \in DOMAIN rows : written'[r][k] = rows[k]
         /\ \A k \in DOMAIN written[r] \ DOMAIN rows : written'[r][k] = written[r][k]
         /\ \A s \in Requests \ {r} : written'[s] = written[s]
BY DEF Write

\* A statement that is granted its locks keeps the rule of the lock X.
LEMMA GrantKeepsExclusive ==
  ASSUME Shape, Exclusive, NEW r \in Requests, NEW wishes,
         WaitsFor(r, wishes) = {}, locks' = locks \cup LocksFor(r, wishes)
  PROVE  /\ \A a \in locks' : a = <<a[1], a[2], a[3]>> /\ a[1] \in Requests /\ a[3] \in Modes
         /\ Exclusive'
<1>1. \A w \in wishes : Mode(r, w[1], w[2]) \in Modes BY DEF Mode, Modes
<1>2. \A w \in wishes : Blockers(r, w[1], w[2]) = {} BY DEF WaitsFor
<1>3. \A a \in locks' : a = <<a[1], a[2], a[3]>> /\ a[1] \in Requests /\ a[3] \in Modes
  BY <1>1 DEF Shape, LocksFor
<1>4. ASSUME NEW a \in locks, NEW w \in wishes, a[1] # r, a[2] = w[1]
      PROVE  a[3] # "X" /\ Mode(r, w[1], w[2]) # "X"
  <2>1. \A m \in Excluded(Mode(r, w[1], w[2])) : <<a[1], w[1], m>> \notin locks
    BY <1>2, <1>4 DEF Blockers, Shape
  <2>2. a[3] \notin Excluded(Mode(r, w[1], w[2])) BY <2>1, <1>4 DEF Shape
  <2> QED BY <2>2, <1>4, <1>1 DEF Excluded, Modes, Shape
<1>5. ASSUME NEW a \in locks', NEW b \in locks', a[1] # b[1], a[2] = b[2]
      PROVE  a[3] # "X"
  <2>1. CASE a \in locks /\ b \in locks BY <2>1, <1>5 DEF Exclusive
  <2>2. CASE a \in locks /\ b \notin locks
    <3>1. PICK w \in wishes : b = <<r, w[1], Mode(r, w[1], w[2])>> BY <2>2 DEF LocksFor
    <3> QED BY <3>1, <2>2, <1>4, <1>5
  <2>3. CASE a \notin locks /\ b \in locks
    <3>1. PICK w \in wishes : a = <<r, w[1], Mode(r, w[1], w[2])>> BY <2>3 DEF LocksFor
    <3> QED BY <3>1, <2>3, <1>4, <1>5
  <2>4. CASE a \notin locks /\ b \notin locks BY <2>4, <1>5 DEF LocksFor
  <2> QED BY <2>1, <2>2, <2>3, <2>4
<1> QED BY <1>3, <1>5 DEF Exclusive

\* A statement that writes keeps the rules of locking, if it has locked each row
\* that it writes, and X each row that it changes.
LEMMA WriteKeepsLocking ==
  ASSUME Locking, NEW r \in Requests, NEW s, NEW wishes, NEW rows,
         Statement(r, s, wishes), Write(r, rows), DOMAIN pc' = Requests,
         \A k \in DOMAIN rows : \E w \in wishes :
           w[1] = k /\ (k \in Keys /\ rows[k] # Now(r)[k] => Mode(r, k, w[2]) = "X")
  PROVE  Locking'
<1>1. Exclusive' /\ \A a \in locks' : /\ a = <<a[1], a[2], a[3]>>
                                      /\ a[1] \in Requests /\ a[3] \in Modes
  BY GrantKeepsExclusive DEF Locking, Statement
<1>2. Shape' BY <1>1, WriteFacts DEF Locking, Shape, Statement, requestVars
<1>3. locks \subseteq locks' /\ db' = db BY DEF Statement
<1>4. ASSUME NEW t \in Requests, NEW k \in DOMAIN written'[t]
      PROVE  /\ \E m \in Modes : <<t, k, m>> \in locks'
             /\ k \in Keys /\ written'[t][k] # db[k] => <<t, k, "X">> \in locks'
  <2>1. CASE t = r /\ k \in DOMAIN rows
    <3>1. written'[r][k] = rows[k] BY <2>1, WriteFacts DEF Locking, Shape
    <3>2. PICK w \in wishes :
            w[1] = k /\ (k \in Keys /\ rows[k] # Now(r)[k] => Mode(r, k, w[2]) = "X")
      BY <2>1
    <3>3. <<r, k, Mode(r, k, w[2])>> \in locks' BY <3>2 DEF Statement, LocksFor
    <3>4. Mode(r, k, w[2]) \in Modes BY DEF Mode, Modes
    <3>5. ASSUME k \in Keys, rows[k] = Now(r)[k], rows[k] # db[k]
          PROVE  <<r, k, "X">> \in locks'
      BY <3>5, <1>3 DEF Now, Locking, WritesLocked
    <3> QED BY <2>1, <3>1, <3>2, <3>3, <3>4, <3>5
  <2>2. CASE ~(t = r /\ k \in DOMAIN rows)
    <3>1. k \in DOMAIN written[t] /\ written'[t][k] = written[t][k]
      BY <2>2, WriteFacts DEF Locking, Shape
    <3> QED BY <3>1, <1>3 DEF Locking, WritesLocked
  <2> QED BY <2>1, <2>2
<1> QED BY <1>1, <1>2, <1>3, <1>4 DEF Locking, WritesLocked

\* So does a statement that writes nothing.
LEMMA ReadKeepsLocking ==
  ASSUME Locking, NEW r \in Requests, NEW wishes, WaitsFor(r, wishes) = {},
         locks' = locks \cup LocksFor(r, wishes), UNCHANGED <<db, written, req>>,
         DOMAIN pc' = Requests
  PROVE  Locking'
BY GrantKeepsExclusive DEF Locking, Shape, WritesLocked

\* The end of a request: its locks and what it has written are forgotten.
LEMMA ReleaseFacts ==
  ASSUME Locking, NEW r \in Requests, NEW s, Release(r, s)
  PROVE  /\ DOMAIN written' = Requests /\ DOMAIN pc' = Requests
         /\ written'[r] = Nothing /\ pc'[r] = s
         /\ DOMAIN written'[r] = {}
         /\ \A t \in Requests \ {r} : written'[t] = written[t] /\ pc'[t] = pc[t]
         /\ \A a \in locks' : a \in locks
         /\ \A a \in locks : a[1] # r => a \in locks'
BY DEF Release, Locking, Shape, Nothing

\* A request that is undone keeps the invariant.
LEMMA UndoKeeps ==
  ASSUME IInv, NEW r \in Requests, Undo(r)
  PROVE  IInv'
<1> USE DEF IInv
<1>1. Release(r, <<"failed">>) /\ UNCHANGED db BY DEF Undo
<1>2. DOMAIN req' = Requests BY DEF Undo, Locking, Shape
<1>3. Locking' BY <1>1, <1>2, ReleaseFacts DEF Locking, Shape, Exclusive, WritesLocked
<1>4. Stored' BY <1>1 DEF Stored
<1>5. ASSUME NEW t \in Requests PROVE RemovalsOf(t)' /\ DatesOf(t)'
  <2>1. CASE t = r
    <3>1. req'[r].kind = "none" BY DEF Undo, NoRequest, Locking, Shape
    <3>2. pc'[r] = <<"failed">> /\ DOMAIN written'[r] = {} BY <1>1, ReleaseFacts
    <3>3. pc'[r][1] = "failed" /\ \A e : pc'[r] # <<"remove", e>> BY <3>2
    <3> QED BY <2>1, <3>1, <3>2, <3>3 DEF RemovalsOf, DatesOf, Removes, Stores
  <2>2. CASE t # r
    <3>1. /\ written'[t] = written[t] /\ pc'[t] = pc[t] /\ req'[t] = req[t]
          /\ UNCHANGED db
      BY <2>2, <1>1, ReleaseFacts DEF Undo, Locking, Shape
    <3> QED BY <3>1 DEF RemovalsOf, DatesOf, Removes, Stores
  <2> QED BY <2>1, <2>2
<1> QED BY <1>3, <1>4, <1>5

\* Where a commit changes a row, nobody else has written it.
LEMMA CommitChangesOwnRows ==
  ASSUME IInv, NEW r \in Requests, Commit(r), NEW k \in Keys, db'[k] # db[k]
  PROVE  /\ k \in DOMAIN written[r] /\ db'[k] = written[r][k]
         /\ \A t \in Requests \ {r} : k \notin DOMAIN written[t]
<1>1. db'[k] = IF k \in DOMAIN written[r] THEN written[r][k] ELSE db[k]
  BY DEF Commit, Now
<1>2. k \in DOMAIN written[r] /\ db'[k] = written[r][k] BY <1>1
<1>3. <<r, k, "X">> \in locks BY <1>2 DEF IInv, Locking, WritesLocked
<1>4. ASSUME NEW t \in Requests \ {r}, k \in DOMAIN written[t] PROVE FALSE
  <2>1. PICK m \in Modes : <<t, k, m>> \in locks
    BY <1>4 DEF IInv, Locking, WritesLocked
  <2> QED BY <2>1, <1>3 DEF IInv, Locking, Exclusive
<1> QED BY <1>2, <1>4

\* A commit keeps the invariant.
LEMMA CommitKeeps ==
  ASSUME IInv, NEW r \in Requests, Commit(r)
  PROVE  IInv'
<1>1. Release(r, <<"done">>) /\ UNCHANGED <<req, time, seen>>
  BY DEF Commit, requestVars
<1>2. \A t \in Requests \ {r} : \A k \in DOMAIN written[t] : k \in Keys => db'[k] = db[k]
  BY CommitChangesOwnRows
<1>3. Locking'
  BY <1>1, <1>2, ReleaseFacts DEF IInv, Locking, Shape, Exclusive, WritesLocked
<1>4. Stored'
  <2> SUFFICES ASSUME NEW e \in Entries, db'[EntryKey(e)] # NoRow
               PROVE  db'[EntryKey(e)].changed \in Nat
    BY DEF Stored
  <2>1. CASE db'[EntryKey(e)] = db[EntryKey(e)] BY <2>1 DEF IInv, Stored
  <2>2. CASE db'[EntryKey(e)] # db[EntryKey(e)]
    BY <2>2, CommitChangesOwnRows, KeyFacts DEF IInv, DatesOf, Stores
  <2> QED BY <2>1, <2>2
<1>5. ASSUME NEW t \in Requests PROVE RemovalsOf(t)' /\ DatesOf(t)'
  <2>1. CASE t = r
    <3>1. pc'[r] = <<"done">> /\ DOMAIN written'[r] = {} BY <1>1, ReleaseFacts DEF IInv
    <3>2. pc'[r][1] = "done" /\ \A e : pc'[r] # <<"remove", e>> BY <3>1
    <3> QED BY <2>1, <3>1, <3>2, <1>1 DEF IInv, RemovalsOf, DatesOf, Removes, Stores
  <2>2. CASE t # r
    <3>1. written'[t] = written[t] /\ pc'[t] = pc[t] /\ req'[t] = req[t]
      BY <2>2, <1>1, ReleaseFacts DEF IInv
    <3>2. \A e \in Entries : EntryKey(e) \in DOMAIN written[t]
                                => db'[EntryKey(e)] = db[EntryKey(e)]
      BY <2>2, <1>2, KeyFacts
    <3>3. DatesOf(t)' BY <3>1, <3>2 DEF IInv, DatesOf, Stores
    <3> QED BY <3>1, <3>3 DEF IInv, RemovalsOf, Removes, Stores
  <2> QED BY <2>1, <2>2
<1> QED BY <1>3, <1>4, <1>5 DEF IInv
-----------------------------------------------------------------------------
\* What is left to show of a statement that r runs or ends.
LEMMA StatementKeeps ==
  ASSUME IInv, NEW r \in Requests, Locking', UNCHANGED <<db, req>>,
         \A t \in Requests \ {r} : written'[t] = written[t] /\ pc'[t] = pc[t],
         RemovalsOf(r)', DatesOf(r)'
  PROVE  IInv'
<1>1. ASSUME NEW t \in Requests PROVE RemovalsOf(t)' /\ DatesOf(t)'
  <2>1. CASE t = r BY <2>1
  <2>2. CASE t # r BY <2>2 DEF IInv, RemovalsOf, DatesOf, Removes, Stores
  <2> QED BY <2>1, <2>2
<1> QED BY <1>1 DEF IInv, Stored

\* Where r goes on to.
LEMMA GoFacts ==
  ASSUME DOMAIN pc = Requests, NEW r \in Requests, NEW s, Go(r, s)
  PROVE  /\ DOMAIN pc' = Requests /\ pc'[r] = s
         /\ \A t \in Requests \ {r} : pc'[t] = pc[t]
BY DEF Go

LEMMA ProceedFacts ==
  ASSUME DOMAIN pc = Requests, NEW r \in Requests, NEW T, NEW s, Proceed(r, T, s)
  PROVE  /\ DOMAIN pc' = Requests
         /\ pc'[r] = <<"commit">> \/ \E e \in T : pc'[r] = <<s, e>>
         /\ pc'[r][1] \in {"commit", s}
         /\ \A t \in Requests \ {r} : pc'[t] = pc[t]
BY GoFacts DEF Proceed

\* Statements that neither write entries nor remove lists, of requests that have
\* not removed anything yet.
LEMMA OtherRowsKeep ==
  ASSUME IInv, NEW r \in Requests, Locking', UNCHANGED <<db, req>>,
         \A t \in Requests \ {r} : written'[t] = written[t] /\ pc'[t] = pc[t],
         pc[r][1] \notin {"bury", "remove", "commit", "fail"},
         pc'[r][1] \in {"lock", "insert"} => req[r].kind = "upload",
         pc'[r][1] = "change" => req[r].kind = "web_change",
         pc'[r][1] = "remove" => req[r].kind = "delete",
         \A e \in Entries : EntryKey(e) \in DOMAIN written'[r] =>
            /\ EntryKey(e) \in DOMAIN written[r]
            /\ written'[r][EntryKey(e)] = written[r][EntryKey(e)],
         \A l \in Lists : Removes(r, ListKey(l))' => Removes(r, ListKey(l))
  PROVE  IInv'
<1>1. \A e \in Entries : ~Removes(r, EntryKey(e))' BY DEF IInv, RemovalsOf, Removes
<1>2. \A l \in Lists : ~Removes(r, ListKey(l))' BY DEF IInv, RemovalsOf
<1>3. \A e \in Entries : pc'[r] = <<"remove", e>> => pc'[r][1] = "remove" OBVIOUS
<1>4. RemovalsOf(r)' BY <1>1, <1>2, <1>3 DEF RemovalsOf
<1>5. DatesOf(r)' BY DEF IInv, DatesOf, Stores
<1> QED BY <1>4, <1>5, StatementKeeps

\* Statements that write nothing, among them.
LEMMA ReadKeeps ==
  ASSUME IInv, NEW r \in Requests, Locking', UNCHANGED <<db, req, written>>,
         \A t \in Requests \ {r} : pc'[t] = pc[t],
         pc[r][1] \notin {"bury", "remove", "commit", "fail"},
         pc'[r][1] \in {"lock", "insert"} => req[r].kind = "upload",
         pc'[r][1] = "change" => req[r].kind = "web_change",
         pc'[r][1] = "remove" => req[r].kind = "delete"
  PROVE  IInv'
BY OtherRowsKeep DEF Removes

\* The plain SELECTs.
LEMMA LooksKeep ==
  ASSUME IInv, NEW r \in Requests,
         SelectUpload(r) \/ SelectDeletion(r) \/ SelectWebDeletion(r) \/ SelectListDeletion(r)
         \/ SelectWebListDeletion(r) \/ SelectListUpload(r) \/ SelectCode(r)
         \/ SelectWebEdit(r) \/ SelectAccount(r)
  PROVE  IInv'
<1>1. pc[r] = <<"select">> /\ UNCHANGED <<db, req, written, locks>>
  BY DEF SelectUpload, SelectDeletion, SelectWebDeletion, SelectListDeletion,
         SelectWebListDeletion, SelectListUpload, SelectCode, SelectWebEdit,
         SelectAccount, Look
<1>2. /\ DOMAIN pc' = Requests /\ \A t \in Requests \ {r} : pc'[t] = pc[t]
      /\ pc'[r][1] \in {"lock", "insert"} => req[r].kind = "upload"
      /\ pc'[r][1] = "change" => req[r].kind = "web_change"
      /\ pc'[r][1] = "remove" => req[r].kind = "delete"
  <2>1. CASE SelectUpload(r)
    BY <2>1, GoFacts, ProceedFacts DEF SelectUpload, IInv, Locking, Shape
  <2>2. CASE SelectDeletion(r)
    BY <2>2, ProceedFacts DEF SelectDeletion, IInv, Locking, Shape
  <2>3. CASE SelectWebDeletion(r)
    BY <2>3, GoFacts DEF SelectWebDeletion, IInv, Locking, Shape
  <2>4. CASE SelectListDeletion(r)
    BY <2>4, GoFacts DEF SelectListDeletion, IInv, Locking, Shape
  <2>5. CASE SelectWebListDeletion(r)
    BY <2>5, GoFacts DEF SelectWebListDeletion, IInv, Locking, Shape
  <2>6. CASE SelectListUpload(r)
    BY <2>6, GoFacts DEF SelectListUpload, IInv, Locking, Shape
  <2>7. CASE SelectCode(r) BY <2>7, GoFacts DEF SelectCode, IInv, Locking, Shape
  <2>8. CASE SelectWebEdit(r)
    BY <2>8, GoFacts DEF SelectWebEdit, IInv, Locking, Shape
  <2>9. CASE SelectAccount(r) BY <2>9, GoFacts DEF SelectAccount, IInv, Locking, Shape
  <2> QED BY <2>1, <2>2, <2>3, <2>4, <2>5, <2>6, <2>7, <2>8, <2>9
<1>3. Locking' BY <1>1, <1>2 DEF IInv, Locking, Shape, Exclusive, WritesLocked
<1>4. pc[r][1] = "select" BY <1>1
<1> QED BY <1>1, <1>2, <1>3, <1>4, ReadKeeps
-----------------------------------------------------------------------------
\* Statements on lists and shares, except the one that deletes a list.
LEMMA TouchKeeps == ASSUME IInv, NEW r \in Requests, Touch(r) PROVE IInv'
<1>1. /\ pc[r] = <<"touch">> /\ UNCHANGED <<db, req, written>> /\ Go(r, <<"select">>)
      /\ WaitsFor(r, {<<UserKey(req[r].user), "update">>}) = {}
      /\ locks' = locks \cup LocksFor(r, {<<UserKey(req[r].user), "update">>})
  BY DEF Touch, Statement, WriteNothing, requestVars
<1>2. /\ DOMAIN pc' = Requests /\ pc'[r] = <<"select">>
      /\ \A t \in Requests \ {r} : pc'[t] = pc[t]
  BY <1>1, GoFacts DEF IInv, Locking, Shape
<1>3. Locking' BY <1>1, <1>2, ReadKeepsLocking DEF IInv
<1>4. pc[r][1] = "touch" /\ pc'[r][1] = "select" BY <1>1, <1>2
<1> QED BY <1>1, <1>2, <1>3, <1>4, ReadKeeps

LEMMA LockListKeeps ==
  ASSUME IInv, NEW r \in Requests, NEW l \in Lists, LockList(r, l) PROVE IInv'
<1>1. /\ pc[r] = <<"lock_list", l>> /\ UNCHANGED <<db, req, written>>
      /\ \/ Go(r, <<"insert_list", l>>) \/ Go(r, <<"fail">>) \/ Go(r, <<"commit">>)
      /\ WaitsFor(r, ListLock(l)) = {} /\ locks' = locks \cup LocksFor(r, ListLock(l))
  BY DEF LockList, Statement, WriteNothing, requestVars
<1>2. /\ DOMAIN pc' = Requests /\ \A t \in Requests \ {r} : pc'[t] = pc[t]
      /\ pc'[r][1] \in {"insert_list", "fail", "commit"}
  BY <1>1, GoFacts DEF IInv, Locking, Shape
<1>3. Locking' BY <1>1, <1>2, ReadKeepsLocking DEF IInv
<1>4. pc[r][1] = "lock_list" BY <1>1
<1> QED BY <1>1, <1>2, <1>3, <1>4, ReadKeeps

\* One that is granted its locks and inserts rows that are neither entries nor
\* the end of a list.
LEMMA InsertsKeep ==
  ASSUME IInv, NEW r \in Requests, NEW s, NEW wishes, NEW rows,
         Statement(r, s, wishes), Write(r, rows),
         s[1] \notin {"bury", "remove", "commit", "fail"},
         DOMAIN pc' = Requests, \A t \in Requests \ {r} : pc'[t] = pc[t],
         pc'[r][1] \notin {"lock", "insert", "change", "remove"},
         \A k \in DOMAIN rows : \E w \in wishes :
           w[1] = k /\ (k \in Keys /\ rows[k] # Now(r)[k] => Mode(r, k, w[2]) = "X"),
         \A k \in DOMAIN rows : /\ \A e \in Entries : k # EntryKey(e)
                                /\ \A l \in Lists : k = ListKey(l) => rows[k] # NoRow
  PROVE  IInv'
<1>1. Locking' BY WriteKeepsLocking DEF IInv
<1>2. UNCHANGED <<db, req>> /\ pc[r] = s BY DEF Statement, requestVars
<1>3. \A t \in Requests \ {r} : written'[t] = written[t]
  BY WriteFacts DEF IInv, Locking, Shape
<1>4. \A e \in Entries : EntryKey(e) \in DOMAIN written'[r] =>
            /\ EntryKey(e) \in DOMAIN written[r]
            /\ written'[r][EntryKey(e)] = written[r][EntryKey(e)]
  BY WriteFacts DEF IInv, Locking, Shape
<1>5. \A l \in Lists : Removes(r, ListKey(l))' => Removes(r, ListKey(l))
  BY WriteFacts DEF IInv, Locking, Shape, Removes
<1> QED BY <1>1, <1>2, <1>3, <1>4, <1>5, OtherRowsKeep

\* One that is granted its locks and writes nothing.
LEMMA NothingKeeps ==
  ASSUME IInv, NEW r \in Requests, NEW s, NEW wishes, Statement(r, s, wishes), WriteNothing,
         s[1] \notin {"bury", "remove", "commit", "fail"},
         DOMAIN pc' = Requests, \A t \in Requests \ {r} : pc'[t] = pc[t],
         pc'[r][1] \in {"lock", "insert"} => req[r].kind = "upload",
         pc'[r][1] = "change" => req[r].kind = "web_change",
         pc'[r][1] # "remove"
  PROVE  IInv'
<1>1. UNCHANGED <<db, req, written>> /\ pc[r] = s
  BY DEF Statement, requestVars, WriteNothing
<1>2. Locking' BY <1>1, ReadKeepsLocking DEF IInv, Statement
<1> QED BY <1>1, <1>2, ReadKeeps

LEMMA BuryListKeeps ==
  ASSUME IInv, NEW r \in Requests, NEW l \in Lists, BuryList(r, l) PROVE IInv'
<1> DEFINE row == [k \in {ListTomb(l)} |-> [owner |-> req[r].user]]
           wishes == ListTombLocks(req[r].user, l)
<1>1. Statement(r, <<"tombstone", l>>, wishes) BY DEF BuryList
<1>2. /\ Go(r, <<"bury_shares", l>>) \/ Go(r, <<"drop", l>>) \/ Go(r, <<"fail">>)
      /\ WriteNothing \/ (~Exists(r, ListTomb(l)) /\ Write(r, row))
  BY DEF BuryList, Fail
<1>3. /\ DOMAIN pc' = Requests /\ \A t \in Requests \ {r} : pc'[t] = pc[t]
      /\ pc'[r][1] \in {"bury_shares", "drop", "fail"}
  BY <1>2, GoFacts DEF IInv, Locking, Shape
<1>4. <<"tombstone", l>>[1] \notin {"bury", "remove", "commit", "fail"} OBVIOUS
<1>5. CASE WriteNothing BY <1>1, <1>3, <1>4, <1>5, NothingKeeps
<1>6. CASE ~Exists(r, ListTomb(l)) /\ Write(r, row)
  <2>1. <<ListTomb(l), "insert">> \in wishes BY DEF ListTombLocks
  <2>2. Mode(r, ListTomb(l), "insert") = "X" BY <1>6 DEF Mode
  <2>3. \A k \in DOMAIN row : \E w \in wishes :
          w[1] = k /\ (k \in Keys /\ row[k] # Now(r)[k] => Mode(r, k, w[2]) = "X")
    BY <2>1, <2>2
  <2>4. \A k \in DOMAIN row : \A x : k # EntryKey(x) /\ k # ListKey(x) BY KeyFacts
  <2> HIDE DEF row, wishes
  <2> QED BY <1>1, <1>3, <1>4, <1>6, <2>3, <2>4, InsertsKeep
<1> QED BY <1>2, <1>5, <1>6

LEMMA BurySharesKeeps ==
  ASSUME IInv, NEW r \in Requests, NEW l \in Lists, BuryShares(r, l) PROVE IInv'
<1> DEFINE rows == [k \in {ShareTomb(v, l) : v \in SharedWith(r, l)} |-> [list |-> l]]
           wishes == BuryLocks(r, l)
<1>1. Statement(r, <<"bury_shares", l>>, wishes) BY DEF BuryShares
<1>2. \/ WriteNothing /\ Go(r, <<"fail">>)
      \/ /\ \A v \in SharedWith(r, l) : ~Exists(r, ShareTomb(v, l))
         /\ Write(r, rows) /\ Go(r, <<"drop", l>>)
  BY DEF BuryShares, Fail
<1>3. /\ DOMAIN pc' = Requests /\ \A t \in Requests \ {r} : pc'[t] = pc[t]
      /\ pc'[r][1] \in {"drop", "fail"}
  BY <1>2, GoFacts DEF IInv, Locking, Shape
<1>4. <<"bury_shares", l>>[1] \notin {"bury", "remove", "commit", "fail"} OBVIOUS
<1>5. CASE WriteNothing BY <1>1, <1>3, <1>4, <1>5, NothingKeeps
<1>6. CASE /\ \A v \in SharedWith(r, l) : ~Exists(r, ShareTomb(v, l))
           /\ Write(r, rows)
  <2>1. \A v \in SharedWith(r, l) : <<ShareTomb(v, l), "insert">> \in wishes
    BY DEF BuryLocks
  <2>2. \A v \in SharedWith(r, l) : Mode(r, ShareTomb(v, l), "insert") = "X"
    BY <1>6 DEF Mode
  <2>3. \A k \in DOMAIN rows : \E w \in wishes :
          w[1] = k /\ (k \in Keys /\ rows[k] # Now(r)[k] => Mode(r, k, w[2]) = "X")
    BY <2>1, <2>2
  <2>4. \A k \in DOMAIN rows : \A x : k # EntryKey(x) /\ k # ListKey(x) BY KeyFacts
  <2> HIDE DEF rows, wishes
  <2> QED BY <1>1, <1>3, <1>4, <1>6, <2>3, <2>4, InsertsKeep
<1> QED BY <1>2, <1>5, <1>6

LEMMA InsertListKeeps ==
  ASSUME IInv, NEW r \in Requests, NEW l \in Lists, InsertList(r, l) PROVE IInv'
<1> DEFINE u == req[r].user
           rows == [k \in {ListKey(l)} |-> [owner |-> u, changed |-> req[r].changed]]
           wishes == InsertListLocks(u, l)
<1>1. Statement(r, <<"insert_list", l>>, wishes) BY DEF InsertList
<1>2. \/ WriteNothing /\ Go(r, <<"fail">>)
      \/ ~Exists(r, ListKey(l)) /\ Write(r, rows) /\ Go(r, <<"commit">>)
  BY DEF InsertList, Fail
<1>3. /\ DOMAIN pc' = Requests /\ \A t \in Requests \ {r} : pc'[t] = pc[t]
      /\ pc'[r][1] \in {"commit", "fail"}
  BY <1>2, GoFacts DEF IInv, Locking, Shape
<1>4. <<"insert_list", l>>[1] \notin {"bury", "remove", "commit", "fail"} OBVIOUS
<1>5. CASE WriteNothing BY <1>1, <1>3, <1>4, <1>5, NothingKeeps
<1>6. CASE ~Exists(r, ListKey(l)) /\ Write(r, rows)
  <2>1. <<ListKey(l), "insert">> \in wishes BY DEF InsertListLocks
  <2>2. Mode(r, ListKey(l), "insert") = "X" BY <1>6 DEF Mode
  <2>3. \A k \in DOMAIN rows : \E w \in wishes :
          w[1] = k /\ (k \in Keys /\ rows[k] # Now(r)[k] => Mode(r, k, w[2]) = "X")
    BY <2>1, <2>2
  <2>4. \A k \in DOMAIN rows : rows[k] # NoRow /\ \A e : k # EntryKey(e)
    BY KeyFacts, RowsAreRows
  <2> HIDE DEF rows, wishes
  <2> QED BY <1>1, <1>3, <1>4, <1>6, <2>3, <2>4, InsertsKeep
<1> QED BY <1>2, <1>5, <1>6

LEMMA GrantShareKeeps == ASSUME IInv, NEW r \in Requests, GrantShare(r) PROVE IInv'
<1> DEFINE l == pc[r][2].list
           u == req[r].user
           rows == [k \in {PermKey(u, l)} |-> [write |-> TRUE]]
           wishes == GrantLocks(u, l)
<1>1. Statement(r, pc[r], wishes) /\ pc[r][1] = "grant" BY DEF GrantShare
<1>2. /\ Go(r, <<"commit">>) \/ Go(r, <<"spend">>)
      /\ WriteNothing \/ (~Exists(r, PermKey(u, l)) /\ Write(r, rows))
  BY DEF GrantShare
<1>3. /\ DOMAIN pc' = Requests /\ \A t \in Requests \ {r} : pc'[t] = pc[t]
      /\ pc'[r][1] \in {"commit", "spend"}
  BY <1>2, GoFacts DEF IInv, Locking, Shape
<1>4. CASE WriteNothing BY <1>1, <1>3, <1>4, NothingKeeps
<1>5. CASE ~Exists(r, PermKey(u, l)) /\ Write(r, rows)
  <2>1. <<PermKey(u, l), "insert">> \in wishes BY DEF GrantLocks
  <2>2. Mode(r, PermKey(u, l), "insert") = "X" BY <1>5 DEF Mode
  <2>3. \A k \in DOMAIN rows : \E w \in wishes :
          w[1] = k /\ (k \in Keys /\ rows[k] # Now(r)[k] => Mode(r, k, w[2]) = "X")
    BY <2>1, <2>2
  <2>4. \A k \in DOMAIN rows : \A x : k # EntryKey(x) /\ k # ListKey(x) BY KeyFacts
  <2> HIDE DEF rows, wishes
  <2> QED BY <1>1, <1>3, <1>5, <2>3, <2>4, InsertsKeep
<1> QED BY <1>2, <1>4, <1>5

LEMMA SpendCodeKeeps == ASSUME IInv, NEW r \in Requests, SpendCode(r) PROVE IInv'
<1> DEFINE key == TokenKey(req[r].code)
           rows == [k \in {key} |-> NoRow]
           wishes == {<<key, "update">>}
<1>1. Statement(r, <<"spend">>, wishes) /\ Write(r, rows) /\ Go(r, <<"commit">>)
  BY DEF SpendCode
<1>2. /\ DOMAIN pc' = Requests /\ \A t \in Requests \ {r} : pc'[t] = pc[t]
      /\ pc'[r][1] = "commit"
  BY <1>1, GoFacts DEF IInv, Locking, Shape
<1>3. \A k \in DOMAIN rows : \E w \in wishes :
        w[1] = k /\ (k \in Keys /\ rows[k] # Now(r)[k] => Mode(r, k, w[2]) = "X")
  BY DEF Mode, Exists
<1>4. \A k \in DOMAIN rows : \A x : k # EntryKey(x) /\ k # ListKey(x) BY KeyFacts
<1>5. <<"spend">>[1] \notin {"bury", "remove", "commit", "fail"} OBVIOUS
<1> HIDE DEF rows, wishes
<1> QED BY <1>1, <1>2, <1>3, <1>4, <1>5, InsertsKeep

\* One that removes rows, with each entry its list, and is over then.
LEMMA DropsKeep ==
  ASSUME IInv, NEW r \in Requests, NEW s, NEW wishes, NEW keys,
         Statement(r, s, wishes), Write(r, [k \in keys |-> NoRow]), Go(r, <<"commit">>),
         s[1] \notin {"bury", "remove", "commit", "fail"},
         \A k \in keys : <<k, "update">> \in wishes,
         \A e \in Entries : EntryKey(e) \in keys => ListKey(Home[e]) \in keys
  PROVE  IInv'
<1> DEFINE rows == [k \in keys |-> NoRow]
<1>1. UNCHANGED <<db, req>> /\ pc[r] = s BY DEF Statement, requestVars
<1>2. /\ DOMAIN pc' = Requests /\ \A t \in Requests \ {r} : pc'[t] = pc[t]
      /\ pc'[r] = <<"commit">> /\ pc'[r][1] = "commit"
  BY GoFacts DEF IInv, Locking, Shape
<1>3. \A k \in DOMAIN rows : \E w \in wishes :
        w[1] = k /\ (k \in Keys /\ rows[k] # Now(r)[k] => Mode(r, k, w[2]) = "X")
  BY DEF Mode, Exists
<1>4. /\ DOMAIN written'[r] = DOMAIN written[r] \cup keys
      /\ \A k \in keys : written'[r][k] = NoRow
      /\ \A k \in DOMAIN written[r] \ keys : written'[r][k] = written[r][k]
      /\ \A t \in Requests \ {r} : written'[t] = written[t]
  <2>1. DOMAIN rows = keys /\ \A k \in keys : rows[k] = NoRow OBVIOUS
  <2> HIDE DEF rows
  <2> QED BY <2>1, WriteFacts DEF IInv, Locking, Shape
<1>5. Locking'
  <2>1. Write(r, rows) OBVIOUS
  <2> HIDE DEF rows
  <2> QED BY <2>1, <1>2, <1>3, WriteKeepsLocking DEF IInv
<1>6. \A e \in Entries : Removes(r, EntryKey(e))' => Removes(r, ListKey(Home[e]))'
  <2> SUFFICES ASSUME NEW e \in Entries, Removes(r, EntryKey(e))'
               PROVE  Removes(r, ListKey(Home[e]))'
    OBVIOUS
  <2>1. ~Removes(r, EntryKey(e)) BY <1>1 DEF IInv, RemovalsOf
  <2>2. EntryKey(e) \in keys BY <2>1, <1>4 DEF Removes
  <2> QED BY <2>2, <1>4 DEF Removes
<1>7. \A e \in Entries : pc'[r] # <<"remove", e>> BY <1>2
<1>8. RemovalsOf(r)' BY <1>2, <1>6, <1>7 DEF RemovalsOf
<1>9. DatesOf(r)' BY <1>1, <1>2, <1>4 DEF IInv, DatesOf, Stores
<1> QED BY <1>1, <1>2, <1>4, <1>5, <1>8, <1>9, StatementKeeps

\* What goes with a list: its entries have it for their home.
LEMMA DependentsOfList ==
  ASSUME NEW r, NEW l, NEW e \in Entries, EntryKey(e) \in Dependents(r, l)
  PROVE  Home[e] = l
BY KeyFacts DEF Dependents

LEMMA DropListKeeps ==
  ASSUME IInv, NEW r \in Requests, NEW l \in Lists, DropList(r, l) PROVE IInv'
<1> DEFINE keys == {ListKey(l)} \cup Dependents(r, l)
<1>1. Statement(r, <<"drop", l>>, DropLocks(r, l)) BY DEF DropList
<1>2. \/ Write(r, [k \in keys |-> NoRow]) /\ Go(r, <<"commit">>)
      \/ WriteNothing /\ (Go(r, <<"commit">>) \/ Go(r, <<"fail">>))
  BY DEF DropList
<1>3. <<"drop", l>>[1] \notin {"bury", "remove", "commit", "fail"} OBVIOUS
<1>4. CASE WriteNothing /\ (Go(r, <<"commit">>) \/ Go(r, <<"fail">>))
  <2>1. /\ DOMAIN pc' = Requests /\ \A t \in Requests \ {r} : pc'[t] = pc[t]
        /\ pc'[r][1] \in {"commit", "fail"}
    BY <1>4, GoFacts DEF IInv, Locking, Shape
  <2> QED BY <1>1, <1>3, <1>4, <2>1, NothingKeeps
<1>5. CASE Write(r, [k \in keys |-> NoRow]) /\ Go(r, <<"commit">>)
  <2>1. \A k \in keys : <<k, "update">> \in DropLocks(r, l) BY DEF DropLocks, ListLock
  <2>2. \A e \in Entries : EntryKey(e) \in keys => ListKey(Home[e]) \in keys
    BY KeyFacts, DependentsOfList
  <2> HIDE DEF keys
  <2> QED BY <1>1, <1>3, <1>5, <2>1, <2>2, DropsKeep
<1> QED BY <1>2, <1>4, <1>5
-----------------------------------------------------------------------------
\* The statements that delete an account.
LEMMA BuryUserKeeps == ASSUME IInv, NEW r \in Requests, BuryUser(r) PROVE IInv'
<1> DEFINE key == UserTomb(req[r].user)
           rows == [k \in {key} |-> [created |-> time[r]]]
           wishes == UserTombLocks(req[r].user)
<1>1. Statement(r, <<"tomb_user">>, wishes) BY DEF BuryUser
<1>2. \/ WriteNothing /\ Go(r, <<"fail">>)
      \/ ~Exists(r, key) /\ Write(r, rows) /\ Go(r, <<"bury_owned">>)
  BY DEF BuryUser, Fail
<1>3. /\ DOMAIN pc' = Requests /\ \A t \in Requests \ {r} : pc'[t] = pc[t]
      /\ pc'[r][1] \in {"bury_owned", "fail"}
  BY <1>2, GoFacts DEF IInv, Locking, Shape
<1>4. <<"tomb_user">>[1] \notin {"bury", "remove", "commit", "fail"} OBVIOUS
<1>5. CASE WriteNothing BY <1>1, <1>3, <1>4, <1>5, NothingKeeps
<1>6. CASE ~Exists(r, key) /\ Write(r, rows)
  <2>1. <<key, "insert">> \in wishes /\ Mode(r, key, "insert") = "X"
    BY <1>6 DEF UserTombLocks, Mode
  <2>2. \A k \in DOMAIN rows : \E w \in wishes :
          w[1] = k /\ (k \in Keys /\ rows[k] # Now(r)[k] => Mode(r, k, w[2]) = "X")
    BY <2>1
  <2>3. \A k \in DOMAIN rows : \A x : k # EntryKey(x) /\ k # ListKey(x) BY KeyFacts
  <2> HIDE DEF rows, wishes
  <2> QED BY <1>1, <1>3, <1>4, <1>6, <2>2, <2>3, InsertsKeep
<1> QED BY <1>2, <1>5, <1>6

LEMMA BuryOwnedKeeps == ASSUME IInv, NEW r \in Requests, BuryOwned(r) PROVE IInv'
<1> DEFINE u == req[r].user
           shares == {p \in Users \X OwnedNow(r, u) : p[1] \in SharedWith(r, p[2])}
           rows == [k \in {ShareTomb(p[1], p[2]) : p \in shares} |-> [list |-> k[2][2]]]
           wishes == BuryOwnedLocks(r, u)
<1>1. Statement(r, <<"bury_owned">>, wishes) BY DEF BuryOwned
<1>2. \/ WriteNothing /\ Go(r, <<"fail">>)
      \/ /\ \A p \in shares : ~Exists(r, ShareTomb(p[1], p[2]))
         /\ Write(r, rows) /\ Go(r, <<"drop_user">>)
  BY DEF BuryOwned, Fail
<1>3. /\ DOMAIN pc' = Requests /\ \A t \in Requests \ {r} : pc'[t] = pc[t]
      /\ pc'[r][1] \in {"drop_user", "fail"}
  BY <1>2, GoFacts DEF IInv, Locking, Shape
<1>4. <<"bury_owned">>[1] \notin {"bury", "remove", "commit", "fail"} OBVIOUS
<1>5. CASE WriteNothing BY <1>1, <1>3, <1>4, <1>5, NothingKeeps
<1>6. CASE (\A p \in shares : ~Exists(r, ShareTomb(p[1], p[2]))) /\ Write(r, rows)
  <2>1. \A p \in shares : <<ShareTomb(p[1], p[2]), "insert">> \in wishes
    <3> SUFFICES ASSUME NEW p \in shares
                 PROVE  <<ShareTomb(p[1], p[2]), "insert">> \in wishes
      OBVIOUS
    <3>1. p[2] \in OwnedNow(r, u) /\ p[1] \in SharedWith(r, p[2]) OBVIOUS
    <3>2. <<ShareTomb(p[1], p[2]), "insert">> \in BuryLocks(r, p[2])
      BY <3>1 DEF BuryLocks
    <3> QED BY <3>1, <3>2 DEF BuryOwnedLocks
  <2>2. \A p \in shares : Mode(r, ShareTomb(p[1], p[2]), "insert") = "X"
    BY <1>6 DEF Mode
  <2>3. \A k \in DOMAIN rows : \E w \in wishes :
          w[1] = k /\ (k \in Keys /\ rows[k] # Now(r)[k] => Mode(r, k, w[2]) = "X")
    BY <2>1, <2>2
  <2>4. \A k \in DOMAIN rows : \A x : k # EntryKey(x) /\ k # ListKey(x) BY KeyFacts
  <2> HIDE DEF rows, wishes
  <2> QED BY <1>1, <1>3, <1>4, <1>6, <2>3, <2>4, InsertsKeep
<1> QED BY <1>2, <1>5, <1>6

\* Lists go with their owner, and entries with their lists.
LEMMA DropUserKeeps == ASSUME IInv, NEW r \in Requests, DropUser(r) PROVE IInv'
<1> DEFINE u == req[r].user
           keys == {UserKey(u)} \cup Belongings(r, u)
<1>1. /\ Statement(r, <<"drop_user">>, DropUserLocks(r, u))
      /\ Write(r, [k \in keys |-> NoRow]) /\ Go(r, <<"commit">>)
  BY DEF DropUser
<1>2. <<"drop_user">>[1] \notin {"bury", "remove", "commit", "fail"} OBVIOUS
<1>3. \A k \in keys : <<k, "update">> \in DropUserLocks(r, u) BY DEF DropUserLocks
<1>4. ASSUME NEW e \in Entries, EntryKey(e) \in keys PROVE ListKey(Home[e]) \in keys
  <2>1. EntryKey(e) \in Belongings(r, u) BY <1>4, KeyFacts
  <2>2. PICK l \in OwnedNow(r, u) : EntryKey(e) \in {ListKey(l)} \cup Dependents(r, l)
    <3>1. /\ \A l \in Lists : EntryKey(e) # PermKey(u, l) /\ EntryKey(e) # ShareTomb(u, l)
          /\ \A l \in Lists : EntryKey(e) # ListTomb(l)
      BY KeyFacts
    <3>2. EntryKey(e) \in UNION {{ListKey(l)} \cup Dependents(r, l) : l \in OwnedNow(r, u)}
      BY <2>1, <3>1 DEF Belongings
    <3> QED BY <3>2
  <2>3. Home[e] = l BY <2>2, KeyFacts, DependentsOfList
  <2>4. ListKey(l) \in Belongings(r, u) BY <2>2 DEF Belongings
  <2> QED BY <2>3, <2>4
<1> HIDE DEF keys
<1> QED BY <1>1, <1>2, <1>3, <1>4, DropsKeep
-----------------------------------------------------------------------------
\* Storing an entry in an upload: it was locked X and is newer than what it replaces.
LEMMA StoringKeeps ==
  ASSUME IInv, NEW r \in Requests, NEW e \in Entries, NEW s, NEW wishes,
         Statement(r, s, wishes), Write(r, EntryRow(r, e)), s[1] \in {"lock", "insert"},
         \E w \in wishes : w[1] = EntryKey(e) /\ Mode(r, EntryKey(e), w[2]) = "X",
         Exists(r, EntryKey(e)) => Now(r)[EntryKey(e)].changed < req[r].changed,
         Proceed(r, todo[r], "lock")
  PROVE  IInv'
<1> DEFINE k == EntryKey(e)
           row == [changed |-> req[r].changed, updated |-> time[r]]
<1>1. pc[r] = s /\ UNCHANGED <<db, req>> BY DEF Statement, requestVars
<1>2. req[r].kind = "upload" /\ req[r].changed \in Nat BY <1>1 DEF IInv, DatesOf
<1>3. /\ DOMAIN pc' = Requests /\ \A t \in Requests \ {r} : pc'[t] = pc[t]
      /\ pc'[r][1] \in {"commit", "lock"}
  BY ProceedFacts DEF IInv, Locking, Shape
<1>4. DOMAIN EntryRow(r, e) = {k} /\ EntryRow(r, e)[k] = row BY DEF EntryRow
<1>5. Locking' BY <1>3, <1>4, WriteKeepsLocking DEF IInv
<1>6. /\ DOMAIN written'[r] = DOMAIN written[r] \cup {k} /\ written'[r][k] = row
      /\ \A x \in DOMAIN written[r] \ {k} : written'[r][x] = written[r][x]
      /\ \A t \in Requests \ {r} : written'[t] = written[t]
  BY <1>4, WriteFacts DEF IInv, Locking, Shape
<1>7. k \in Keys /\ row # NoRow /\ (\A f : EntryKey(f) = k => f = e) /\ \A l : k # ListKey(l)
  BY KeyFacts, RowsAreRows
<1>8. ~Removes(r, k) BY <1>1 DEF IInv, RemovalsOf
<1>9. db[k] # NoRow => db[k].changed < req[r].changed
  <2> SUFFICES ASSUME db[k] # NoRow PROVE db[k].changed < req[r].changed OBVIOUS
  <2>1. CASE k \in DOMAIN written[r]
    <3>1. Stores(r, k) BY <2>1, <1>8 DEF Stores, Removes
    <3>2. /\ written[r][k].changed \in Nat /\ db[k].changed \in Nat
          /\ written[r][k].changed >= db[k].changed
      BY <3>1, <1>1, <1>2 DEF IInv, DatesOf, Stored
    <3>3. Now(r)[k] = written[r][k] BY <2>1, <1>7 DEF Now
    <3>4. written[r][k].changed < req[r].changed
      BY <3>1, <3>3 DEF Exists, Stores
    <3> QED BY <3>2, <3>4, <1>2
  <2>2. CASE k \notin DOMAIN written[r]
    <3>1. Now(r)[k] = db[k] BY <2>2, <1>7 DEF Now
    <3> QED BY <3>1 DEF Exists
  <2> QED BY <2>1, <2>2
<1>10. RemovalsOf(r)'
  <2>1. \A f \in Entries : ~Removes(r, EntryKey(f))'
    BY <1>1, <1>6, <1>7 DEF IInv, RemovalsOf, Removes
  <2>2. \A l \in Lists : ~Removes(r, ListKey(l))'
    BY <1>1, <1>6, <1>7 DEF IInv, RemovalsOf, Removes
  <2>3. \A f \in Entries : pc'[r] # <<"remove", f>> BY <1>3
  <2> QED BY <2>1, <2>2, <2>3 DEF RemovalsOf
<1>11. DatesOf(r)'
  <2>1. ASSUME NEW f \in Entries, Stores(r, EntryKey(f))'
        PROVE  /\ written'[r][EntryKey(f)].changed \in Nat
               /\ db[EntryKey(f)] # NoRow =>
                    written'[r][EntryKey(f)].changed >= db[EntryKey(f)].changed
    <3>1. CASE f = e
      <4>1. written'[r][EntryKey(f)].changed = req[r].changed BY <3>1, <1>6
      <4>2. db[k] # NoRow => db[k].changed \in Nat BY DEF IInv, Stored
      <4> QED BY <3>1, <4>1, <4>2, <1>2, <1>9
    <3>2. CASE f # e
      BY <2>1, <3>2, <1>1, <1>2, <1>6, <1>7 DEF IInv, DatesOf, Stores
    <3> QED BY <3>1, <3>2
  <2> QED BY <2>1, <1>1, <1>2, <1>3 DEF DatesOf
<1> QED BY <1>1, <1>3, <1>5, <1>6, <1>10, <1>11, StatementKeeps

LEMMA LockEntryKeeps ==
  ASSUME IInv, NEW r \in Requests, NEW e \in Entries, LockEntry(r, e) PROVE IInv'
<1> DEFINE row == Now(r)[EntryKey(e)]
<1>1. Statement(r, <<"lock", e>>, EntryLock(e)) /\ <<"lock", e>>[1] = "lock" /\ pc[r] = <<"lock", e>>
  BY DEF LockEntry, Statement
<1>2. req[r].kind = "upload" BY <1>1 DEF IInv, DatesOf
<1>3. CASE WriteNothing /\ (Go(r, <<"insert", e>>) \/ Proceed(r, todo[r], "lock"))
  <2>1. /\ DOMAIN pc' = Requests /\ \A t \in Requests \ {r} : pc'[t] = pc[t]
        /\ pc'[r][1] \in {"insert", "lock", "commit"}
    BY <1>3, GoFacts, ProceedFacts DEF IInv, Locking, Shape
  <2> QED BY <1>1, <1>2, <1>3, <2>1, NothingKeeps
<1>4. CASE /\ row # NoRow /\ row.changed < req[r].changed
           /\ Write(r, EntryRow(r, e)) /\ Proceed(r, todo[r], "lock")
  <2>1. Exists(r, EntryKey(e)) BY <1>4 DEF Exists
  <2>2. <<EntryKey(e), "update">> \in EntryLock(e) /\ Mode(r, EntryKey(e), "update") = "X"
    BY <2>1 DEF EntryLock, Mode
  <2>3. \E w \in EntryLock(e) : w[1] = EntryKey(e) /\ Mode(r, EntryKey(e), w[2]) = "X"
    BY <2>2
  <2> QED BY <1>1, <1>4, <2>3, StoringKeeps
<1> QED BY <1>3, <1>4 DEF LockEntry

LEMMA InsertEntryKeeps ==
  ASSUME IInv, NEW r \in Requests, NEW e \in Entries, InsertEntry(r, e) PROVE IInv'
<1>1. /\ Statement(r, <<"insert", e>>, InsertLocks(e)) /\ <<"insert", e>>[1] = "insert"
      /\ pc[r] = <<"insert", e>>
  BY DEF InsertEntry, Statement
<1>2. CASE WriteNothing /\ Go(r, <<"fail">>)
  <2>1. /\ DOMAIN pc' = Requests /\ \A t \in Requests \ {r} : pc'[t] = pc[t]
        /\ pc'[r][1] = "fail"
    BY <1>2, GoFacts DEF IInv, Locking, Shape
  <2> QED BY <1>1, <1>2, <2>1, NothingKeeps
<1>3. CASE /\ ~Exists(r, EntryKey(e)) /\ Write(r, EntryRow(r, e))
           /\ Proceed(r, todo[r], "lock")
  <2>1. <<EntryKey(e), "insert">> \in InsertLocks(e) /\ Mode(r, EntryKey(e), "insert") = "X"
    BY <1>3 DEF InsertLocks, Mode
  <2>2. \E w \in InsertLocks(e) : w[1] = EntryKey(e) /\ Mode(r, EntryKey(e), w[2]) = "X"
    BY <2>1
  <2> QED BY <1>1, <1>3, <2>2, StoringKeeps
<1> QED BY <1>2, <1>3 DEF InsertEntry, Fail

\* Removing an entry: in an upload its tombstone is next, the web client has
\* stored it before.
LEMMA RemoveEntryKeeps ==
  ASSUME IInv, NEW r \in Requests, NEW e \in Entries, RemoveEntry(r, e) PROVE IInv'
<1> DEFINE k == EntryKey(e)
           rows == [x \in {k} |-> NoRow]
           gone == req[r].kind = "delete" /\ Exists(r, k)
<1>1. /\ Statement(r, <<"remove", e>>, EntryLock(e)) /\ pc[r] = <<"remove", e>>
      /\ pc[r][1] = "remove" /\ UNCHANGED <<db, req>>
  BY DEF RemoveEntry, Statement, requestVars
<1>2. IF Exists(r, k) THEN Write(r, rows) ELSE WriteNothing BY DEF RemoveEntry
<1>3. /\ DOMAIN pc' = Requests /\ \A t \in Requests \ {r} : pc'[t] = pc[t]
      /\ pc'[r][1] \in {"bury", "remove", "commit"}
      /\ gone => pc'[r] = <<"bury", e>>
      /\ pc'[r][1] = "remove" => req[r].kind = "delete"
      /\ req[r].kind = "delete" \/ req[r].kind = "web_delete"
  <2>1. \/ req[r].kind = "web_delete" /\ Go(r, <<"commit">>)
        \/ req[r].kind = "delete" /\ Exists(r, k) /\ Go(r, <<"bury", e>>)
        \/ req[r].kind = "delete" /\ ~Exists(r, k) /\ Proceed(r, todo[r], "remove")
    BY DEF RemoveEntry
  <2> QED BY <2>1, GoFacts, ProceedFacts DEF IInv, Locking, Shape
<1>4. Locking'
  <2>1. CASE Exists(r, k)
    <3>1. \E w \in EntryLock(e) : w[1] = k /\ Mode(r, k, w[2]) = "X"
      <4>1. <<k, "update">> \in EntryLock(e) /\ Mode(r, k, "update") = "X"
        BY <2>1 DEF EntryLock, Mode
      <4> QED BY <4>1
    <3>2. \A x \in DOMAIN rows : \E w \in EntryLock(e) :
            w[1] = x /\ (x \in Keys /\ rows[x] # Now(r)[x] => Mode(r, x, w[2]) = "X")
      BY <3>1
    <3> HIDE DEF rows
    <3> QED BY <3>2, <2>1, <1>1, <1>2, <1>3, WriteKeepsLocking DEF IInv
  <2>2. CASE ~Exists(r, k)
    BY <2>2, <1>1, <1>2, <1>3, ReadKeepsLocking DEF IInv, Statement, WriteNothing
  <2> QED BY <2>1, <2>2
<1>5. /\ \A x \in DOMAIN written[r] \ {k} : x \in DOMAIN written'[r] /\ written'[r][x] = written[r][x]
      /\ \A x \in DOMAIN written'[r] \ {k} : x \in DOMAIN written[r]
      /\ Exists(r, k) => k \in DOMAIN written'[r] /\ written'[r][k] = NoRow
      /\ ~Exists(r, k) => written' = written
      /\ \A t \in Requests \ {r} : written'[t] = written[t]
  <2>1. DOMAIN rows = {k} /\ rows[k] = NoRow OBVIOUS
  <2> HIDE DEF rows, k
  <2> QED BY <2>1, <1>2, WriteFacts DEF IInv, Locking, Shape, WriteNothing
<1>6. /\ \A f : EntryKey(f) = k => f = e
      /\ \A f : EntryTomb(f) # k /\ ListKey(f) # k
  BY KeyFacts
<1>7. \A l \in Lists : ~Removes(r, ListKey(l)) /\ ~Removes(r, ListKey(l))'
  BY <1>1, <1>5, <1>6 DEF IInv, RemovalsOf, Removes
<1>8. Home \in [Entries -> Lists] BY TransactionsAssumption
<1>9. ASSUME NEW f \in Entries, Removes(r, EntryKey(f))'
      PROVE  Stores(r, EntryTomb(f))' \/ pc'[r] = <<"bury", f>>
  <2>1. CASE f # e
    <3>1. Removes(r, EntryKey(f)) BY <2>1, <1>5, <1>6, <1>9 DEF Removes
    <3>2. pc[r] # <<"bury", f>> BY <1>1
    <3>3. Stores(r, EntryTomb(f))
      BY <3>1, <3>2, <1>1, <1>7, <1>8 DEF IInv, RemovalsOf
    <3> QED BY <3>3, <1>5, <1>6 DEF Stores
  <2>2. CASE f = e /\ gone BY <2>2, <1>3
  <2>3. CASE f = e /\ req[r].kind # "delete"
    <3>1. Stores(r, EntryTomb(e)) BY <2>3, <1>1 DEF IInv, RemovalsOf
    <3> QED BY <2>3, <3>1, <1>5, <1>6 DEF Stores
  <2>4. CASE f = e /\ ~Exists(r, k)
    <3>1. Removes(r, EntryKey(e)) BY <2>4, <1>5, <1>9 DEF Removes
    <3>2. pc[r] # <<"bury", e>> BY <1>1
    <3>3. Stores(r, EntryTomb(e))
      BY <3>1, <3>2, <1>1, <1>7, <1>8 DEF IInv, RemovalsOf
    <3> QED BY <3>3, <2>4, <1>5 DEF Stores
  <2> QED BY <2>1, <2>2, <2>3, <2>4
<1>10. RemovalsOf(r)' BY <1>1, <1>3, <1>7, <1>9 DEF RemovalsOf
<1>11. DatesOf(r)'
  <2>1. \A f \in Entries : Stores(r, EntryKey(f))' =>
          Stores(r, EntryKey(f)) /\ written'[r][EntryKey(f)] = written[r][EntryKey(f)]
    BY <1>5 DEF Stores
  <2> QED BY <2>1, <1>1, <1>3 DEF IInv, DatesOf
<1> QED BY <1>1, <1>3, <1>4, <1>5, <1>10, <1>11, StatementKeeps

\* An edit of the web client: the row was locked X, and its date is a date.
LEMMA ChangeEntryKeeps ==
  ASSUME IInv, Times, NEW r \in Requests, NEW e \in Entries, ChangeEntry(r, e) PROVE IInv'
<1> DEFINE k == EntryKey(e)
           row == [changed |-> time[r], updated |-> Now(r)[k].updated]
           rows == [x \in {k} |-> row]
<1>1. /\ Statement(r, <<"change", e>>, EntryLock(e)) /\ pc[r] = <<"change", e>>
      /\ pc[r][1] = "change" /\ <<"change", e>>[1] = "change" /\ UNCHANGED <<db, req>>
  BY DEF ChangeEntry, Statement, requestVars
<1>2. \/ Exists(r, k) /\ Go(r, <<"commit">>) /\ Write(r, rows)
      \/ WriteNothing /\ (Go(r, <<"fail">>) \/ Go(r, <<"commit">>))
  BY DEF ChangeEntry, Exists
<1>3. /\ DOMAIN pc' = Requests /\ \A t \in Requests \ {r} : pc'[t] = pc[t]
      /\ pc'[r][1] \in {"commit", "fail"}
  BY <1>2, GoFacts DEF IInv, Locking, Shape
<1>4. CASE WriteNothing BY <1>1, <1>3, <1>4, NothingKeeps
<1>5. CASE Exists(r, k) /\ Go(r, <<"commit">>) /\ Write(r, rows)
  <2>1. <<k, "update">> \in EntryLock(e) /\ Mode(r, k, "update") = "X"
    BY <1>5 DEF EntryLock, Mode
  <2>2. \A x \in DOMAIN rows : \E w \in EntryLock(e) :
          w[1] = x /\ (x \in Keys /\ rows[x] # Now(r)[x] => Mode(r, x, w[2]) = "X")
    BY <2>1
  <2>3. Locking'
    <3> HIDE DEF rows
    <3> QED BY <1>1, <1>3, <1>5, <2>2, WriteKeepsLocking DEF IInv
  <2>4. /\ DOMAIN written'[r] = DOMAIN written[r] \cup {k} /\ written'[r][k] = row
        /\ \A x \in DOMAIN written[r] \ {k} : written'[r][x] = written[r][x]
        /\ \A t \in Requests \ {r} : written'[t] = written[t]
    <3>1. DOMAIN rows = {k} /\ rows[k] = row OBVIOUS
    <3> HIDE DEF rows, row, k
    <3> QED BY <3>1, <1>5, WriteFacts DEF IInv, Locking, Shape
  <2>5. /\ row # NoRow /\ row.changed \in Nat /\ \A f : EntryKey(f) = k => f = e
        /\ \A l : k # ListKey(l)
    BY KeyFacts, RowsAreRows DEF Times
  <2>6. req[r].kind = "web_change" BY <1>1 DEF IInv, DatesOf
  <2> HIDE DEF row, k, rows
  <2>7. /\ \A f \in Entries : ~Removes(r, EntryKey(f))'
        /\ \A l \in Lists : ~Removes(r, ListKey(l))'
    BY <1>1, <2>4, <2>5 DEF IInv, RemovalsOf, Removes
  <2>8. \A f \in Entries : pc'[r] # <<"remove", f>> BY <1>3
  <2>9. RemovalsOf(r)' BY <2>7, <2>8 DEF RemovalsOf
  <2>10. \A f \in Entries : Stores(r, EntryKey(f))' => written'[r][EntryKey(f)].changed \in Nat
    BY <2>4, <2>5 DEF IInv, DatesOf, Stores, k
  <2>11. pc'[r][1] = "commit" BY <1>5, GoFacts DEF IInv, Locking, Shape
  <2>12. DatesOf(r)' BY <1>1, <2>6, <2>10, <2>11 DEF DatesOf
  <2> QED BY <1>1, <1>3, <2>3, <2>4, <2>9, <2>12, StatementKeeps
<1> QED BY <1>2, <1>4, <1>5

LEMMA BuryEntryKeeps ==
  ASSUME IInv, NEW r \in Requests, NEW e \in Entries, BuryEntry(r, e) PROVE IInv'
<1> DEFINE k == EntryTomb(e)
           rows == [x \in {k} |-> [created |-> time[r]]]
<1>1. /\ Statement(r, <<"bury", e>>, TombLocks(e)) /\ pc[r] = <<"bury", e>>
      /\ pc[r][1] = "bury" /\ UNCHANGED <<db, req>>
  BY DEF BuryEntry, Statement, requestVars
<1>2. \/ WriteNothing /\ Go(r, <<"fail">>)
      \/ /\ ~Exists(r, k) /\ Write(r, rows)
         /\ IF req[r].kind = "delete" THEN Proceed(r, todo[r], "remove")
            ELSE Go(r, <<"remove", e>>)
  BY DEF BuryEntry, Fail
<1>3. \A l \in Lists : ~Removes(r, ListKey(l)) BY <1>1 DEF IInv, RemovalsOf
<1>4. CASE WriteNothing /\ Go(r, <<"fail">>)
  <2>1. /\ DOMAIN pc' = Requests /\ \A t \in Requests \ {r} : pc'[t] = pc[t]
        /\ pc'[r][1] = "fail" /\ \A f : pc'[r] # <<"remove", f>>
    BY <1>4, GoFacts DEF IInv, Locking, Shape
  <2>2. Locking' BY <1>1, <1>4, <2>1, ReadKeepsLocking DEF IInv, Statement, WriteNothing
  <2>3. written' = written BY <1>4 DEF WriteNothing
  <2>4. RemovalsOf(r)' BY <2>1, <2>3, <1>3 DEF RemovalsOf, Removes
  <2>5. DatesOf(r)' BY <2>1, <2>3, <1>1 DEF IInv, DatesOf, Stores
  <2> QED BY <2>1, <2>2, <2>3, <2>4, <2>5, <1>1, StatementKeeps
<1>5. CASE /\ ~Exists(r, k) /\ Write(r, rows)
           /\ IF req[r].kind = "delete" THEN Proceed(r, todo[r], "remove")
              ELSE Go(r, <<"remove", e>>)
  <2>1. /\ DOMAIN pc' = Requests /\ \A t \in Requests \ {r} : pc'[t] = pc[t]
        /\ pc'[r][1] \in {"remove", "commit"}
        /\ req[r].kind # "delete" => pc'[r] = <<"remove", e>>
    BY <1>5, GoFacts, ProceedFacts DEF IInv, Locking, Shape
  <2>2. \A x \in DOMAIN rows : \E w \in TombLocks(e) :
          w[1] = x /\ (x \in Keys /\ rows[x] # Now(r)[x] => Mode(r, x, w[2]) = "X")
    <3>1. <<k, "insert">> \in TombLocks(e) /\ Mode(r, k, "insert") = "X"
      BY <1>5 DEF TombLocks, Mode
    <3> QED BY <3>1
  <2>3. Locking'
    <3> HIDE DEF rows
    <3> QED BY <2>1, <2>2, <1>1, <1>5, WriteKeepsLocking DEF IInv
  <2>4. /\ DOMAIN written'[r] = DOMAIN written[r] \cup {k} /\ written'[r][k] # NoRow
        /\ \A x \in DOMAIN written[r] \ {k} : written'[r][x] = written[r][x]
        /\ \A t \in Requests \ {r} : written'[t] = written[t]
    <3>1. DOMAIN rows = {k} /\ rows[k] # NoRow BY RowsAreRows
    <3> HIDE DEF rows, k
    <3> QED BY <3>1, <1>5, WriteFacts DEF IInv, Locking, Shape
  <2>5. \A f : EntryKey(f) # k /\ ListKey(f) # k BY KeyFacts
  <2>6. \A l \in Lists : ~Removes(r, ListKey(l))' BY <2>4, <2>5, <1>3 DEF Removes
  <2>7. ASSUME NEW f \in Entries, Removes(r, EntryKey(f))' PROVE Stores(r, EntryTomb(f))'
    <3>1. Removes(r, EntryKey(f)) BY <2>4, <2>5, <2>7 DEF Removes
    <3>2. CASE f = e BY <3>2, <2>4 DEF Stores
    <3>3. CASE f # e
      <4>1. pc[r] # <<"bury", f>> BY <3>3, <1>1
      <4>2. Home[f] \in Lists BY TransactionsAssumption
      <4>3. Stores(r, EntryTomb(f)) BY <3>1, <4>1, <4>2, <1>1, <1>3 DEF IInv, RemovalsOf
      <4> QED BY <4>3, <2>4 DEF Stores
    <3> QED BY <3>2, <3>3
  <2>8. \A f \in Entries : pc'[r] = <<"remove", f>> /\ req[r].kind # "delete"
                           => Stores(r, EntryTomb(f))'
    BY <2>1, <2>4 DEF Stores
  <2>9. RemovalsOf(r)' BY <2>1, <2>6, <2>7, <2>8, <1>1 DEF RemovalsOf
  <2>10. DatesOf(r)' BY <2>1, <2>4, <2>5, <1>1 DEF IInv, DatesOf, Stores
  <2> QED BY <1>1, <2>1, <2>3, <2>4, <2>9, <2>10, StatementKeeps
<1> QED BY <1>2, <1>4, <1>5
-----------------------------------------------------------------------------
\* A request that arrives carries dates, and has not done anything.
LEMMA ArriveKeeps == ASSUME IInv, NEW r \in Requests, Arrive(r) PROVE IInv'
<1>1. PICK q, s : /\ Begin(r, q, s) /\ s \in {<<"select">>, <<"touch">>}
                  /\ q.kind = "upload" => q.changed \in Nat
  <2>1. CASE BeginEntries(r)
    BY <2>1, TransactionsAssumption DEF BeginEntries, Uploads, Deletions, WebDeletions, WebEdits
  <2>2. CASE BeginLists(r)
    BY <2>2 DEF BeginLists, ListUploads, ListDeletions, CodeUses
  <2>3. CASE BeginAccounts(r) BY <2>3 DEF BeginAccounts, AccountDeletions
  <2> QED BY <2>1, <2>2, <2>3 DEF Arrive
<1>2. /\ pc[r] = <<"new">> /\ Go(r, s) /\ UNCHANGED <<db, written, locks>>
      /\ req' = [req EXCEPT ![r] = q]
  BY <1>1 DEF Begin, Waiting
<1>3. /\ DOMAIN pc' = Requests /\ pc'[r] = s
      /\ \A t \in Requests \ {r} : pc'[t] = pc[t]
  BY <1>2, GoFacts DEF IInv, Locking, Shape
<1>4. /\ DOMAIN req' = Requests /\ req'[r] = q
      /\ \A t \in Requests \ {r} : req'[t] = req[t]
  BY <1>2 DEF IInv, Locking, Shape
<1>5. Locking' BY <1>2, <1>3, <1>4 DEF IInv, Locking, Shape, Exclusive, WritesLocked
<1>6. pc[r][1] = "new" /\ pc'[r][1] \in {"select", "touch"} BY <1>1, <1>2, <1>3
<1>7. ASSUME NEW t \in Requests PROVE RemovalsOf(t)' /\ DatesOf(t)'
  <2>1. CASE t = r
    <3>1. \A f : pc'[r] # <<"remove", f>> BY <1>6
    <3>2. RemovalsOf(r)' BY <3>1, <1>2, <1>6 DEF IInv, RemovalsOf, Removes
    <3>3. DatesOf(r)' BY <1>1, <1>2, <1>4, <1>6 DEF IInv, DatesOf, Stores
    <3> QED BY <2>1, <3>2, <3>3
  <2>2. CASE t # r
    BY <2>2, <1>2, <1>3, <1>4 DEF IInv, RemovalsOf, DatesOf, Removes, Stores
  <2> QED BY <2>1, <2>2
<1> QED BY <1>2, <1>5, <1>7 DEF IInv, Stored

LEMMA WaitKeeps == ASSUME IInv, NEW r \in Requests, NEW wishes, Wait(r, wishes) PROVE IInv'
<1>1. PICK w \in wishes : Blockers(r, w[1], w[2]) = {} /\ locks' = locks \cup LocksFor(r, {w})
  BY DEF Wait
<1>2. WaitsFor(r, {w}) = {} BY <1>1 DEF WaitsFor
<1>3. UNCHANGED <<db, written, pc, req>> BY DEF Wait, requestVars
<1>4. DOMAIN pc' = Requests BY <1>3 DEF IInv, Locking, Shape
<1>5. Locking' BY <1>1, <1>2, <1>3, <1>4, ReadKeepsLocking DEF IInv
<1> QED BY <1>3, <1>5 DEF IInv, Stored, RemovalsOf, DatesOf, Removes, Stores

LEMMA InitHolds == Init => IInv
<1> SUFFICES ASSUME Init PROVE IInv OBVIOUS
<1>1. /\ written = [r \in Requests |-> Nothing] /\ locks = {}
      /\ pc = [r \in Requests |-> <<"new">>] /\ req = [r \in Requests |-> NoRequest]
      /\ \E there, living, dead, shared, codes : db = Tables(there, living, dead, shared, codes)
  BY DEF Init
<1>2. \A r \in Requests : DOMAIN written[r] = {} BY <1>1 DEF Nothing
<1>3. Locking BY <1>1, <1>2 DEF Locking, Shape, Exclusive, WritesLocked
<1>4. Stored
  <2> SUFFICES ASSUME NEW e \in Entries, db[EntryKey(e)] # NoRow
               PROVE  db[EntryKey(e)].changed \in Nat
    BY DEF Stored
  <2>1. EntryKey(e) \in Keys BY KeyFacts
  <2>2. EntryKey(e)[1] = "entries" BY DEF EntryKey
  <2>3. db[EntryKey(e)] = [changed |-> 0, updated |-> 0] BY <1>1, <2>1, <2>2 DEF Tables
  <2> QED BY <2>3
<1>5. \A r \in Requests : /\ pc[r][1] = "new" /\ \A f : pc[r] # <<"remove", f>>
                         /\ req[r].kind = "none"
  BY <1>1 DEF NoRequest
<1> QED BY <1>2, <1>3, <1>4, <1>5 DEF IInv, RemovalsOf, DatesOf, Removes, Stores

\* The clock and what requests have read from it.
LEMMA TimesHold == Spec => []Times
<1>1. Init => Times BY ConcurrencyAssumption, TransactionsAssumption DEF Init, Times
<1>2. Times /\ [Next]_tvars => Times'
  <2> SUFFICES ASSUME Times, [Next]_tvars PROVE Times' OBVIOUS
  <2>1. ASSUME NEW r \in Requests, Arrive(r) PROVE Times'
    BY <2>1 DEF Arrive, BeginEntries, BeginLists, BeginAccounts, Begin, Times
  <2>2. ASSUME NEW r \in Requests, EntryStep(r) PROVE UNCHANGED <<clock, time>>
    BY <2>2 DEF EntryStep, SelectUpload, SelectDeletion, SelectWebDeletion, SelectWebEdit,
         Look, LockEntry, InsertEntry, RemoveEntry, BuryEntry, ChangeEntry, Statement,
         requestVars
  <2>3. ASSUME NEW r \in Requests, ListStep(r) PROVE UNCHANGED <<clock, time>>
    BY <2>3 DEF ListStep, Touch, SelectListDeletion, SelectWebListDeletion,
         SelectListUpload, SelectCode, Look, GrantShare, SpendCode, BuryList, BuryShares,
         DropList, LockList, InsertList, Statement, requestVars
  <2>4. ASSUME NEW r \in Requests, AccountStep(r) PROVE UNCHANGED <<clock, time>>
    BY <2>4 DEF AccountStep, SelectAccount, Look, BuryUser, BuryOwned, DropUser, Statement,
         requestVars
  <2>5. ASSUME NEW r \in Requests, Wait(r, Wishes[r]) \/ Commit(r) PROVE UNCHANGED <<clock, time>>
    BY <2>5 DEF Wait, Commit, Release, requestVars
  <2>6. ASSUME NEW r \in Requests, DeadlockVictim(r, Wishes) \/ Rollback(r) \/ Abandon(r)
        PROVE  Times'
    BY <2>6, TransactionsAssumption DEF DeadlockVictim, Rollback, Abandon, Undo, Release, Times
  <2>7. CASE Passing BY <2>7, TransactionsAssumption DEF Passing, requestVars, Times
  <2>8. CASE UNCHANGED tvars BY <2>8 DEF tvars, requestVars, Times
  <2> QED BY <2>1, <2>2, <2>3, <2>4, <2>5, <2>6, <2>7, <2>8 DEF Next, Serve, Step, Times
<1> QED BY <1>1, <1>2, PTL DEF Spec

LEMMA NextKeeps == IInv /\ Times /\ [Next]_tvars => IInv'
<1> SUFFICES ASSUME IInv, Times, [Next]_tvars PROVE IInv' OBVIOUS
<1>1. ASSUME NEW r \in Requests, Arrive(r) PROVE IInv' BY <1>1, ArriveKeeps
<1>2. ASSUME NEW r \in Requests, EntryStep(r) PROVE IInv'
  BY <1>2, LooksKeep, LockEntryKeeps, InsertEntryKeeps, RemoveEntryKeeps, BuryEntryKeeps,
     ChangeEntryKeeps DEF EntryStep
<1>3. ASSUME NEW r \in Requests, ListStep(r) PROVE IInv'
  BY <1>3, LooksKeep, TouchKeeps, GrantShareKeeps, SpendCodeKeeps, BuryListKeeps,
     BurySharesKeeps, DropListKeeps, LockListKeeps, InsertListKeeps DEF ListStep
<1>4. ASSUME NEW r \in Requests, Wait(r, Wishes[r]) PROVE IInv' BY <1>4, WaitKeeps
<1>5. ASSUME NEW r \in Requests, Commit(r) PROVE IInv' BY <1>5, CommitKeeps
<1>6. ASSUME NEW r \in Requests, DeadlockVictim(r, Wishes) \/ Rollback(r) \/ Abandon(r)
      PROVE  IInv'
  BY <1>6, UndoKeeps DEF DeadlockVictim, Rollback, Abandon
<1>7. CASE Passing \/ UNCHANGED tvars
  <2>1. UNCHANGED <<db, written, locks, pc, req>> BY <1>7 DEF Passing, requestVars, tvars
  <2> QED BY <2>1 DEF IInv, Locking, Shape, Exclusive, WritesLocked, Stored,
                      RemovalsOf, DatesOf, Removes, Stores
<1>8. ASSUME NEW r \in Requests, AccountStep(r) PROVE IInv'
  BY <1>8, LooksKeep, BuryUserKeeps, BuryOwnedKeeps, DropUserKeeps DEF AccountStep
<1> QED BY <1>1, <1>2, <1>3, <1>4, <1>5, <1>6, <1>7, <1>8 DEF Next, Serve, Step

LEMMA InvariantHolds == Spec => []IInv
BY InitHolds, NextKeeps, TimesHold, PTL DEF Spec

\* Only a commit changes the tables.
LEMMA OnlyCommits ==
  ASSUME [Next]_tvars, db' # db
  PROVE  \E r \in Requests : Commit(r)
<1>1. ASSUME NEW r \in Requests, EntryStep(r) PROVE db' = db
  <2>1. CASE SelectUpload(r) \/ SelectDeletion(r) \/ SelectWebDeletion(r) \/ SelectWebEdit(r)
    BY <2>1 DEF SelectUpload, SelectDeletion, SelectWebDeletion, SelectWebEdit, Look
  <2>2. ASSUME NEW e \in Entries, LockEntry(r, e) \/ InsertEntry(r, e) PROVE db' = db
    BY <2>2 DEF LockEntry, InsertEntry, Statement
  <2>3. ASSUME NEW e \in Entries, RemoveEntry(r, e) \/ BuryEntry(r, e) \/ ChangeEntry(r, e)
        PROVE  db' = db
    BY <2>3 DEF RemoveEntry, BuryEntry, ChangeEntry, Statement
  <2> QED BY <1>1, <2>1, <2>2, <2>3 DEF EntryStep
<1>2. ASSUME NEW r \in Requests, ListStep(r) PROVE db' = db
  <2>1. CASE Touch(r) \/ GrantShare(r) \/ SpendCode(r)
    BY <2>1 DEF Touch, GrantShare, SpendCode, Statement
  <2>2. CASE SelectListDeletion(r) \/ SelectWebListDeletion(r) \/ SelectListUpload(r)
             \/ SelectCode(r)
    BY <2>2 DEF SelectListDeletion, SelectWebListDeletion, SelectListUpload, SelectCode, Look
  <2>3. ASSUME NEW l \in Lists, BuryList(r, l) \/ BuryShares(r, l) \/ DropList(r, l)
        PROVE  db' = db
    BY <2>3 DEF BuryList, BuryShares, DropList, Statement
  <2>4. ASSUME NEW l \in Lists, LockList(r, l) \/ InsertList(r, l) PROVE db' = db
    BY <2>4 DEF LockList, InsertList, Statement
  <2> QED BY <1>2, <2>1, <2>2, <2>3, <2>4 DEF ListStep
<1>3. \A r \in Requests : Arrive(r) => db' = db
  BY DEF Arrive, BeginEntries, BeginLists, BeginAccounts, Begin
<1>4. \A r \in Requests : \/ Wait(r, Wishes[r]) \/ DeadlockVictim(r, Wishes)
                         \/ Rollback(r) \/ Abandon(r) => db' = db
  BY DEF Wait, DeadlockVictim, Rollback, Abandon, Undo
<1>5. Passing \/ UNCHANGED tvars => db' = db BY DEF Passing, tvars
<1>6. \A r \in Requests : AccountStep(r) => db' = db
  BY DEF AccountStep, SelectAccount, Look, BuryUser, BuryOwned, DropUser, Statement
<1> QED BY <1>1, <1>2, <1>3, <1>4, <1>5, <1>6 DEF Next, Serve, Step

\* However requests interleave, no upload moves an entry back in time.
THEOREM OrderKeptByLocks == Spec => OrderKept
<1>1. IInv /\ [Next]_tvars =>
        [\A e \in Entries :
           LET k == EntryKey(e)
           IN  (/\ db[k] # NoRow /\ db'[k] # NoRow
                /\ \A r \in Requests : pc'[r] # pc[r] => req[r].kind # "web_change")
                  => db'[k].changed >= db[k].changed]_<<db, pc>>
  <2> SUFFICES ASSUME IInv, [Next]_tvars, NEW e \in Entries,
                      db[EntryKey(e)] # NoRow, db'[EntryKey(e)] # NoRow,
                      \A r \in Requests : pc'[r] # pc[r] => req[r].kind # "web_change"
               PROVE  db'[EntryKey(e)].changed >= db[EntryKey(e)].changed
    OBVIOUS
  <2>1. CASE db'[EntryKey(e)] = db[EntryKey(e)] BY <2>1 DEF IInv, Stored
  <2>2. CASE db'[EntryKey(e)] # db[EntryKey(e)]
    <3>1. PICK r \in Requests : Commit(r) BY <2>2, OnlyCommits
    <3>2. pc[r] = <<"commit">> /\ pc'[r] = <<"done">>
      BY <3>1 DEF Commit, Release, IInv, Locking, Shape
    <3>3. req[r].kind # "web_change" BY <3>2
    <3> QED BY <2>2, <3>1, <3>3, CommitChangesOwnRows, KeyFacts DEF IInv, DatesOf, Stores
  <2> QED BY <2>1, <2>2
<1> QED BY <1>1, InvariantHolds, PTL DEF Spec, OrderKept

\* However requests interleave, an entry goes only with a tombstone or its list.
THEOREM NoEntryLostByRaces == Spec => EntryDeletionRecorded
<1>1. IInv /\ [Next]_tvars =>
        [\A e \in Entries :
           db[EntryKey(e)] # NoRow /\ db'[EntryKey(e)] = NoRow
             => db'[EntryTomb(e)] # NoRow \/ db'[ListKey(Home[e])] = NoRow]_db
  <2> SUFFICES ASSUME IInv, [Next]_tvars, db' # db, NEW e \in Entries,
                      db[EntryKey(e)] # NoRow, db'[EntryKey(e)] = NoRow
               PROVE  db'[EntryTomb(e)] # NoRow \/ db'[ListKey(Home[e])] = NoRow
    OBVIOUS
  <2>1. PICK r \in Requests : Commit(r) BY OnlyCommits
  <2>2. Removes(r, EntryKey(e)) BY <2>1, CommitChangesOwnRows, KeyFacts DEF Removes
  <2>3. pc[r] = <<"commit">> /\ pc[r][1] = "commit" /\ pc[r] # <<"bury", e>>
    BY <2>1 DEF Commit
  <2>4. Stores(r, EntryTomb(e)) \/ Removes(r, ListKey(Home[e]))
    BY <2>2, <2>3 DEF IInv, RemovalsOf
  <2>5. \A k \in Keys : k \in DOMAIN written[r] => db'[k] = written[r][k]
    BY <2>1 DEF Commit, Now
  <2>6. EntryTomb(e) \in Keys /\ ListKey(Home[e]) \in Keys
    BY KeyFacts, TransactionsAssumption
  <2> QED BY <2>4, <2>5, <2>6 DEF Stores, Removes
<1> QED BY <1>1, InvariantHolds, PTL DEF Spec, EntryDeletionRecorded
=============================================================================
