--------------------------- MODULE AccountRoutes ----------------------------
(***************************************************************************)
(* The account requests (src/users/routes.rs, src/users/dao.rs) as instances    *)
(* of the server handle them.  Each route lends the DAO a connection on which    *)
(* it has, or has not, begun a transaction; the DAO begins its own, which is a    *)
(* savepoint if there was one.  Cookies are sealed with the session key and the    *)
(* proofs of the app are made for a server id.  What jsonwebtoken and argon2      *)
(* decide is whether two keys or two passwords are the same.                      *)
(***************************************************************************)
EXTENDS Startup, Sequences, SequencesExt

CONSTANTS
  Users, Emails,
  Keys,        \* key pairs of apps
  Passwords

VARIABLES
  db,        \* [users, keys, logins, deleted], what is committed
  cookies,   \* in clients: [user, sealed]
  told,      \* the server ids that apps were told
  answer     \* the last answer: [request, user, code]

accountVars == <<db, cookies, told, answer>>
routeVars == <<startVars, accountVars>>

NoRows == [x \in {} |-> 0]
Put(t, k, row) == [x \in DOMAIN t \cup {k} |-> IF x = k THEN row ELSE t[x]]
Without(t, k) == [x \in DOMAIN t \ {k} |-> t[x]]

RoutesInit ==
  /\ StartupInit
  /\ db = [users |-> {}, keys |-> NoRows, logins |-> NoRows, deleted |-> {}]
  /\ cookies = {} /\ told = {}
  /\ answer = [request |-> "none", code |-> "none"]
-----------------------------------------------------------------------------
(* A connection: the tables as it sees them, and what to go back to *)

Connection == [tables |-> db, saved |-> <<>>]

\* BEGIN, or SAVEPOINT inside of a transaction.
BeginTx(c) == [c EXCEPT !.saved = Append(@, c.tables)]

\* COMMIT, or RELEASE SAVEPOINT.
CommitTx(c) == [c EXCEPT !.saved = Front(@)]

\* A transaction that goes out of scope is rolled back, to its savepoint if
\* it is a nested one.
DropTx(c) == [tables |-> Last(c.saved), saved |-> Front(c.saved)]
-----------------------------------------------------------------------------
(* The DAO: the connection afterwards, and the outcome *)

Outcome(c, code) == [conn |-> c, code |-> code]

\* A statement that writes, on connection c.
Wrote(c, tables) == [c EXCEPT !.tables = tables]

WithUser(t, u, k) ==
  [users |-> t.users \cup {u}, keys |-> Put(t.keys, u, k), logins |-> t.logins,
   deleted |-> t.deleted]
WithLogin(t, u, m, p) == [t EXCEPT !.logins = Put(@, u, [email |-> m, password |-> p])]

\* Faulty: the user's row alone, without what the foreign keys cascade to.
WithoutRow(t, u) == [t EXCEPT !.users = @ \ {u}, !.deleted = @ \cup {u}]

\* Faulty: without a tombstone.
WithoutTrace(t, u) ==
  [t EXCEPT !.users = @ \ {u}, !.keys = Without(@, u), !.logins = Without(@, u)]

\* The tombstone is there, the user and by cascade the key and the login are not.
WithoutUser(t, u) ==
  [users |-> t.users \ {u}, keys |-> Without(t.keys, u), logins |-> Without(t.logins, u),
   deleted |-> t.deleted \cup {u}]

register_user(c, u, k) ==
  LET t == BeginTx(c) IN
  IF u \in t.tables.users THEN Outcome(DropTx(t), "ExistingUser")
  ELSE Outcome(CommitTx(Wrote(t, WithUser(t.tables, u, k))), "ok")

\* One statement in no transaction of its own.  The code for a duplicate key
\* is also that of a missing user, so both are "the login exists".
create_password_login(c, u, m, p) ==
  IF \/ u \notin c.tables.users
     \/ u \in DOMAIN c.tables.logins
     \/ \E v \in DOMAIN c.tables.logins : c.tables.logins[v].email = m
  THEN Outcome(c, "ExistingLogin")
  ELSE Outcome(Wrote(c, WithLogin(c.tables, u, m, p)), "ok")

\* A tombstone that is there already, of an earlier account, is an error.
delete_user(c, u) ==
  LET t == BeginTx(c) IN
  IF u \notin t.tables.users THEN Outcome(DropTx(t), "UnknownUser")
  ELSE IF u \in t.tables.deleted THEN Outcome(DropTx(t), "Sqlx")
  ELSE Outcome(CommitTx(Wrote(t, WithoutUser(t.tables, u))), "ok")
-----------------------------------------------------------------------------
(* The routes *)

Answer(request, u, code) == answer' = [request |-> request, user |-> u, code |-> code]

\* `&mut *state.sql.begin().await?`: a transaction begun for the DAO's call,
\* which goes out of scope with it.
Lent == BeginTx(Connection)
TakenBack(out) == [out EXCEPT !.conn = DropTx(@)]

\* A proof holds if it is signed with the key and made for this server.
Proves(i, signed, k, aud) == signed = k /\ aud = held[i]["server_id"]

\* Clients keep one cookie of the server.
Sealed(i, u) == [user |-> u, sealed |-> held[i]["session_key"]]

\* get_user: the cookie opens with the key of this instance.
Knows(i, cookie) == cookie.sealed = held[i]["session_key"]

ServerInfo(i) ==
  /\ Serving(i)
  /\ told' = told \cup {held[i]["server_id"]}
  /\ UNCHANGED <<startVars, db, cookies, answer>>

app_register(i, u, k, aud) ==
  /\ Serving(i)
  /\ IF Proves(i, k, k, aud)
     THEN LET out == TakenBack(register_user(Lent, u, k)) IN
          db' = out.conn.tables /\ Answer("register", u, out.code)
     ELSE UNCHANGED db /\ Answer("register", u, "Jwt")
  /\ UNCHANGED <<startVars, cookies, told>>

app_login(i, u, k, aud) ==
  /\ Serving(i)
  /\ IF u \notin DOMAIN db.keys
     THEN /\ Answer("login", u, IF u \in db.deleted THEN "DeletedUser" ELSE "InvalidCredentials")
          /\ UNCHANGED cookies
     ELSE IF Proves(i, k, db.keys[u], aud)
     THEN Answer("login", u, "ok") /\ cookies' = cookies \cup {Sealed(i, u)}
     ELSE Answer("login", u, "Jwt") /\ UNCHANGED cookies
  /\ UNCHANGED <<startVars, db, told>>

form_login(i, m, p) ==
  /\ Serving(i)
  /\ LET named == {u \in DOMAIN db.logins : db.logins[u].email = m}
         found == {u \in named : db.logins[u].password = p} IN
     /\ cookies' = cookies \cup {Sealed(i, u) : u \in found}
     /\ Answer("form_login", m, CASE named = {} -> "InvalidCredentials"
                                  [] found # {} -> "ok"
                                  [] OTHER -> "Argon2")
  /\ UNCHANGED <<startVars, db, told>>

\* The cookie is forgotten once the DAO is done, whatever is stored in the end.
account_delete(i, cookie) ==
  /\ Serving(i) /\ cookie \in cookies
  /\ IF Knows(i, cookie)
     THEN LET out == TakenBack(delete_user(Lent, cookie.user)) IN
          /\ db' = out.conn.tables
          /\ cookies' = IF out.code = "ok" THEN cookies \ {cookie} ELSE cookies
          /\ Answer("delete", cookie.user, out.code)
     ELSE UNCHANGED <<db, cookies>> /\ Answer("delete", cookie.user, "NotAuthenticated")
  /\ UNCHANGED <<startVars, told>>

app_password_register(i, cookie, m, p) ==
  /\ Serving(i) /\ cookie \in cookies
  /\ IF Knows(i, cookie)
     THEN LET out == TakenBack(create_password_login(Lent, cookie.user, m, p)) IN
          db' = out.conn.tables /\ Answer("password", cookie.user, out.code)
     ELSE UNCHANGED db /\ Answer("password", cookie.user, "NotAuthenticated")
  /\ UNCHANGED <<startVars, cookies, told>>

account_info(i, cookie) ==
  /\ Serving(i) /\ cookie \in cookies
  /\ IF Knows(i, cookie) /\ cookie.user \notin db.users
     THEN cookies' = cookies \ {cookie} /\ Answer("info", cookie.user, "Gone")
     ELSE /\ UNCHANGED cookies
          /\ Answer("info", cookie.user, IF Knows(i, cookie) THEN "ok" ELSE "NotAuthenticated")
  /\ UNCHANGED <<startVars, db, told>>
-----------------------------------------------------------------------------
\* The DAO on a connection without a transaction, as tests and scripts call it.
Directly(out) ==
  /\ db' = out.conn.tables
  /\ answer' = [request |-> "direct", code |-> out.code]
  /\ UNCHANGED <<startVars, cookies, told>>

DirectCalls ==
  \/ \E u \in Users, k \in Keys : Directly(register_user(Connection, u, k))
  \/ \E u \in Users : Directly(delete_user(Connection, u))
  \/ \E u \in Users, m \in Emails, p \in Passwords :
       Directly(create_password_login(Connection, u, m, p))

Requests(i) ==
  \/ ServerInfo(i)
  \/ \E u \in Users, k \in Keys, aud \in told :
       app_register(i, u, k, aud) \/ app_login(i, u, k, aud)
  \/ \E m \in Emails, p \in Passwords : form_login(i, m, p)
  \/ \E cookie \in cookies :
       \/ account_delete(i, cookie)
       \/ \E m \in Emails, p \in Passwords : app_password_register(i, cookie, m, p)
       \/ account_info(i, cookie)

Next ==
  \/ StartupNext /\ UNCHANGED accountVars
  \/ \E i \in Instances : Requests(i)
  \/ schema.recorded /\ DirectCalls
Spec == RoutesInit /\ [][Next]_routeVars

\* A process that runs goes on, and the database grants the migrator's lock in
\* the order in which it was asked for.
FairSpec ==
  /\ Spec
  /\ \A i \in Instances : /\ WF_routeVars(Proceed(i) /\ UNCHANGED accountVars)
                          /\ SF_routeVars(LockMigrations(i) /\ UNCHANGED accountVars)
-----------------------------------------------------------------------------
StartupTypes ==
  /\ schema \in [tables : 0 .. TableCount, recorded : BOOLEAN]
  /\ migrating \subseteq Instances
  /\ settings \in [SettingNames -> Values \cup {NoValue}]
  /\ at \in [Instances -> Stages]
  /\ held \in [Instances -> [SettingNames -> Values \cup {NoValue}]]

\* Values of their types; every account has its key, and every login its account.
TypeInv ==
  /\ StartupTypes
  /\ db.users \subseteq Users /\ db.deleted \subseteq Users
  /\ DOMAIN db.keys = db.users /\ DOMAIN db.logins \subseteq db.users
  /\ \A c \in cookies : c.user \in Users /\ c.sealed \in Values
  /\ told \subseteq Values

\* No instance reads a table that the migration has not made, even if another
\* instance crashed between two of its statements.
MigratedBeforeUse ==
  \A i \in Instances : at[i] \in SettingNames \cup {"serving"} => schema.tables = TableCount

\* A cookie that any instance handed out, and a proof made for the id any instance
\* told, hold at every instance that serves, also after crashes and restarts.
IdentityKept ==
  \A i \in Instances : Serving(i) =>
    /\ \A cookie \in cookies : Knows(i, cookie)
    /\ told \subseteq {held[i]["server_id"]}

\* Instances that race each other to insert a setting never all lose.
NotAllLose == \E i \in Instances : at[i] # "failed"

\* A cookie names an account or a deleted one: a client whose account is gone
\* can be told so.
SessionsTraced == \A cookie \in cookies : cookie.user \in db.users \cup db.deleted

\* A start comes to its end: it serves, loses a race, or crashes.
EveryStartEnds == \A i \in Instances : Starting(i) ~> ~Starting(i)
-----------------------------------------------------------------------------
\* What a route answered with success is what the tables hold (see README for
\* the code: the transaction of the route is never committed).
AnsweredStored ==
  answer.code = "ok" =>
    CASE answer.request = "register" -> answer.user \in db.users
      [] answer.request = "password" -> answer.user \in DOMAIN db.logins
      [] answer.request = "delete" -> answer.user \notin db.users
      [] OTHER -> TRUE
=============================================================================
