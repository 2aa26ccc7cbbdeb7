---------------------------- MODULE Transactions ----------------------------
(***************************************************************************)
(* Requests that run at the same time, each a transaction on a connection of  *)
(* its own, in an InnoDB database at its default isolation level, REPEATABLE   *)
(* READ.  Plain SELECTs of a transaction all see what was committed when the    *)
(* first of them ran, so here they are one step.  Statements that write, and    *)
(* SELECT ... FOR UPDATE, read what is committed now and lock it first, until   *)
(* the end of the transaction.  A row is locked S or X, a row that is missing  *)
(* by a gap lock, which keeps others from inserting it and nothing else.  A       *)
(* statement that reads a range of an index locks the gaps of the range.         *)
(***************************************************************************)
EXTENDS Naturals, FiniteSets

CONSTANTS Requests, Users, Lists, Entries, Tokens,
          Home,           \* the list of each entry, the same for every client
          MaxConnections, \* size of the connection pool
          MaxClock        \* bound on the clock

ASSUME TransactionsAssumption ==
  MaxConnections \in Nat /\ MaxClock \in Nat /\ Home \in [Entries -> Lists]

VARIABLES
  clock,
  db,       \* what is committed: key -> row or NoRow
  written,  \* request -> what it has written and not committed yet
  locks,    \* <<request, key or range, mode>>
  pc,       \* request -> <<statement, what it is about>>
  req,      \* request -> what it carries
  time,     \* request -> its t_now
  todo,     \* request -> items of its upload that wait for their turn
  seen      \* request -> what its plain SELECTs saw

requestVars == <<req, time, seen>>
tvars == <<clock, db, written, locks, pc, req, time, todo, seen>>

\* Rows are named by their table and their primary key.  What is known of them:
\* an entry's dates, a list's owner, a share's right to write, whether a code
\* is reusable and which list it is of, and that the others exist.
EntryKey(e) == <<"entries", e>>
EntryTomb(e) == <<"deleted_entry", e>>
UserKey(u) == <<"users", u>>
UserTomb(u) == <<"deleted_user", u>>
ListKey(l) == <<"lists", l>>
ListTomb(l) == <<"deleted_list", l>>
PermKey(u, l) == <<"list_permissions", <<u, l>>>>
ShareTomb(u, l) == <<"deleted_list_shared", <<u, l>>>>
TokenKey(t) == <<"share_token", t>>

Keys == ({"entries", "deleted_entry"} \X Entries) \cup ({"users", "deleted_user"} \X Users)
        \cup ({"lists", "deleted_list"} \X Lists) \cup ({"share_token"} \X Tokens)
        \cup ({"list_permissions", "deleted_list_shared"} \X (Users \X Lists))
\* The lists of an owner are a range of an index.
ListsOf(u) == <<"lists.owner", u>>
Ranges == {"lists.owner"} \X Users

NoRow == [missing |-> TRUE]
Nothing == [k \in {} |-> NoRow]
NoRequest == [kind |-> "none"]
NotSeen == [e \in Entries |-> NoRow]

\* What statements of r that write or lock find: committed rows and its own.
Now(r) == [k \in Keys |-> IF k \in DOMAIN written[r] THEN written[r][k] ELSE db[k]]
Exists(r, k) == Now(r)[k] # NoRow

\* A statement wishes to "share", "update" or "insert" a row, and to "scan" a range
\* or to "enter" it with a new row, which others may do at the same time.
Mode(r, k, wish) ==
  CASE wish = "enter" -> "enter"
    [] wish = "scan" -> "gap"
    [] wish = "insert" -> IF Exists(r, k) THEN "S" ELSE "X"
    [] wish = "update" -> IF Exists(r, k) THEN "X" ELSE "gap"
    [] OTHER -> IF Exists(r, k) THEN "S" ELSE "gap"
Excluded(mode) ==
  CASE mode = "X" -> {"S", "X", "gap", "enter"}
    [] mode = "S" -> {"X"}
    [] mode = "gap" -> {"X", "enter"}
    [] mode = "enter" -> {"X", "gap"}

Blockers(r, k, wish) ==
  {s \in Requests \ {r} : \E m \in Excluded(Mode(r, k, wish)) : <<s, k, m>> \in locks}
LocksFor(r, wishes) == {<<r, w[1], Mode(r, w[1], w[2])>> : w \in wishes}
WaitsFor(r, wishes) == UNION {Blockers(r, w[1], w[2]) : w \in wishes}

\* Statement s of r runs: all of its locks are granted, and r keeps them.
Statement(r, s, wishes) ==
  /\ pc[r] = s
  /\ WaitsFor(r, wishes) = {}
  /\ locks' = locks \cup LocksFor(r, wishes)
  /\ UNCHANGED <<clock, db, requestVars>>

\* r has some of the locks of its statement and waits for the others.
Wait(r, wishes) ==
  /\ WaitsFor(r, wishes) # {}
  /\ \E w \in wishes : /\ Blockers(r, w[1], w[2]) = {}
                       /\ locks' = locks \cup LocksFor(r, {w})
  /\ UNCHANGED <<clock, db, written, pc, requestVars, todo>>

Go(r, s) == pc' = [pc EXCEPT ![r] = s] /\ UNCHANGED todo
Write(r, rows) ==
  written' = [written EXCEPT ![r] = [k \in DOMAIN written[r] \cup DOMAIN rows |->
                                       IF k \in DOMAIN rows THEN rows[k] ELSE written[r][k]]]
WriteNothing == UNCHANGED written
Fail(r) == Go(r, <<"fail">>) /\ WriteNothing

\* On to one of the items T by statement s, or, if none is left, to the end.
Proceed(r, T, s) ==
  IF T = {} THEN Go(r, <<"commit">>)
  ELSE \E e \in T : /\ pc' = [pc EXCEPT ![r] = <<s, e>>]
                    /\ todo' = [todo EXCEPT ![r] = T \ {e}]
-----------------------------------------------------------------------------
Waiting(r) == pc[r] = <<"new">>
Ended(r) == pc[r] \in {<<"done">>, <<"failed">>}
Active(r) == ~Waiting(r) /\ ~Ended(r)

\* r gets a connection; t_now is taken before the first statement.
Begin(r, q, s) ==
  /\ Waiting(r)
  /\ Cardinality({t \in Requests : Active(t)}) < MaxConnections
  /\ req' = [req EXCEPT ![r] = q]
  /\ time' = [time EXCEPT ![r] = clock]
  /\ Go(r, s)
  /\ UNCHANGED <<clock, db, written, locks, seen>>

Release(r, s) ==
  /\ pc' = [pc EXCEPT ![r] = s]
  /\ todo' = [todo EXCEPT ![r] = {}]
  /\ written' = [written EXCEPT ![r] = Nothing]
  /\ locks' = {l \in locks : l[1] # r}
  /\ UNCHANGED clock

\* r keeps what it has read, which is its answer.
Commit(r) ==
  /\ pc[r] = <<"commit">>
  /\ db' = Now(r)
  /\ Release(r, <<"done">>)
  /\ UNCHANGED requestVars

\* Nothing is left of r.
Undo(r) ==
  /\ Release(r, <<"failed">>)
  /\ req' = [req EXCEPT ![r] = NoRequest]
  /\ time' = [time EXCEPT ![r] = 0]
  /\ seen' = [seen EXCEPT ![r] = NotSeen]
  /\ UNCHANGED db

\* Faulty: the connection goes back to the pool with its transaction open.
ReturnConnection(r) ==
  /\ pc[r] = <<"fail">>
  /\ Go(r, <<"failed">>)
  /\ UNCHANGED <<clock, db, written, locks, requestVars>>

Rollback(r) ==
  /\ pc[r] = <<"fail">>
  /\ Undo(r)

\* The connection is lost or the client has gone: the database rolls back.
Abandon(r) ==
  /\ Active(r)
  /\ Undo(r)

\* Everyone in C waits for someone in C; wishes maps requests to their wishes.
Stuck(C, wishes) == C # {} /\ \A r \in C : WaitsFor(r, wishes[r]) \cap C # {}

\* The database finds a cycle of waiting and rolls one of it back.
DeadlockVictim(r, wishes) ==
  /\ \E C \in SUBSET Requests :
       /\ r \in C /\ Stuck(C, wishes)
       /\ \A D \in SUBSET C : Stuck(D, wishes) => D = C
  /\ Undo(r)

Passing == /\ clock < MaxClock
           /\ clock' = clock + 1
           /\ UNCHANGED <<db, written, locks, pc, requestVars, todo>>
=============================================================================
