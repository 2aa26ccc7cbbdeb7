--------------------------- MODULE StartupProofs ----------------------------
(***************************************************************************)
(* For any number of instances that start, race, crash and start again: no      *)
(* table is used before it is made, not all starts lose their races, and the     *)
(* ids and cookies handed out hold everywhere.                                 *)
(***************************************************************************)
EXTENDS AccountRoutes, TLAPS

\* What is in memory at each stage of a start, against what is stored.
Sane ==
  /\ schema.recorded => schema.tables = TableCount
  /\ \A i \in Instances :
       /\ at[i] \in {"off", "failed", "migrate"} => held[i] = NoSettings
       /\ at[i] \in SettingNames \cup {"serving"} => schema.recorded
       /\ at[i] = "server_id" => held[i]["session_key"] = NoValue
       /\ at[i] \in {"session_key", "serving"} =>
            settings["server_id"] # NoValue /\ held[i]["server_id"] = settings["server_id"]
       /\ at[i] = "serving" =>
            settings["session_key"] # NoValue /\ held[i]["session_key"] = settings["session_key"]

\* An instance that is not about to lose a race.
Safe(i) ==
  /\ at[i] # "failed"
  /\ \A s \in SettingNames : at[i] = s /\ held[i][s] # NoValue => settings[s] = NoValue
SomeSafe == \E i \in Instances : Safe(i)

\* What clients were given is what is stored.
Given ==
  /\ \A id \in told : id = settings["server_id"] /\ settings["server_id"] # NoValue
  /\ \A c \in cookies : /\ c.sealed = settings["session_key"]
                        /\ settings["session_key"] # NoValue

StartupInv == StartupTypes /\ Sane /\ SomeSafe
-----------------------------------------------------------------------------
\* Before the first start nothing is in memory, stored or given.
LEMMA StartupInvInit == RoutesInit => StartupInv /\ Given
<1> SUFFICES ASSUME RoutesInit PROVE StartupInv /\ Given
  OBVIOUS
<1> USE DEF RoutesInit, StartupInit
<1>1. StartupTypes
  BY StartupAssumption DEF StartupTypes, Stages, SettingNames, NoSettings
<1>2. Sane
  BY DEF Sane, SettingNames, NoSettings
<1>3. SomeSafe
  BY StartupAssumption DEF SomeSafe, Safe, SettingNames, NoSettings
<1>4. Given
  BY DEF Given
<1> QED BY <1>1, <1>2, <1>3, <1>4 DEF StartupInv

\* Every step of a start, and a crash anywhere, leaves the tables of settings and
\* of the schema as they were or fills in what was missing.
LEMMA SettingsStay ==
  ASSUME StartupTypes, StartupNext
  PROVE \A s \in SettingNames : settings[s] # NoValue => settings'[s] = settings[s]
<1> PICK i \in Instances : Start(i) \/ Proceed(i) \/ Crash(i)
  BY DEF StartupNext
<1>1. CASE \E s \in SettingNames : SetSetting(i, s)
  <2> PICK s \in SettingNames : SetSetting(i, s)
    BY <1>1
  <2> QED BY DEF SetSetting, StartupTypes
<1>2. CASE ~\E s \in SettingNames : SetSetting(i, s)
  BY <1>2 DEF Start, Crash, Proceed, LockMigrations, CreateTable, RecordMigration,
              FinishMigration, LoadSetting
<1> QED BY <1>1, <1>2

\* The types are kept.
LEMMA StartupTypesKept == StartupTypes /\ StartupNext => StartupTypes'
<1> SUFFICES ASSUME StartupTypes, StartupNext PROVE StartupTypes'
  OBVIOUS
<1> PICK i \in Instances : Start(i) \/ Proceed(i) \/ Crash(i)
  BY DEF StartupNext
<1> USE DEF StartupTypes, Stages, SettingNames, NoSettings
<1>1. CASE Start(i)
  BY <1>1 DEF Start
<1>2. CASE LockMigrations(i)
  BY <1>2 DEF LockMigrations
<1>3. CASE CreateTable(i)
  BY <1>3, StartupAssumption DEF CreateTable
<1>4. CASE RecordMigration(i)
  BY <1>4 DEF RecordMigration
<1>5. CASE FinishMigration(i)
  BY <1>5 DEF FinishMigration
<1>6. ASSUME NEW s \in SettingNames, LoadSetting(i, s) PROVE StartupTypes'
  BY <1>6 DEF LoadSetting, Fresh, After
<1>7. ASSUME NEW s \in SettingNames, SetSetting(i, s) PROVE StartupTypes'
  BY <1>7 DEF SetSetting, After
<1>8. CASE Crash(i)
  BY <1>8 DEF Crash
<1> QED BY <1>1, <1>2, <1>3, <1>4, <1>5, <1>6, <1>7, <1>8 DEF Proceed

\* Memory and database stay in step.
LEMMA SaneKept == StartupTypes /\ Sane /\ StartupNext => Sane'
<1> SUFFICES ASSUME StartupTypes, Sane, StartupNext PROVE Sane'
  OBVIOUS
<1> PICK i \in Instances : Start(i) \/ Proceed(i) \/ Crash(i)
  BY DEF StartupNext
<1> USE DEF StartupTypes, Sane, SettingNames
<1>1. CASE Start(i)
  BY <1>1 DEF Start
<1>2. CASE LockMigrations(i)
  BY <1>2 DEF LockMigrations
<1>3. CASE CreateTable(i)
  BY <1>3, StartupAssumption DEF CreateTable
<1>4. CASE RecordMigration(i)
  BY <1>4 DEF RecordMigration
<1>5. CASE FinishMigration(i)
  BY <1>5 DEF FinishMigration, Migrates, NoSettings
<1>6. ASSUME NEW s \in SettingNames, LoadSetting(i, s) PROVE Sane'
  <2>1. CASE s = "server_id"
    BY <1>6, <2>1 DEF LoadSetting, After
  <2>2. CASE s = "session_key"
    BY <1>6, <2>2 DEF LoadSetting, After
  <2> QED BY <2>1, <2>2
<1>7. ASSUME NEW s \in SettingNames, SetSetting(i, s) PROVE Sane'
  <2>1. CASE s = "server_id"
    BY <1>7, <2>1 DEF SetSetting, After, NoSettings
  <2>2. CASE s = "session_key"
    BY <1>7, <2>2 DEF SetSetting, After, NoSettings
  <2> QED BY <2>1, <2>2
<1>8. CASE Crash(i)
  BY <1>8 DEF Crash
<1> QED BY <1>1, <1>2, <1>3, <1>4, <1>5, <1>6, <1>7, <1>8 DEF Proceed

\* Who stores a setting is safe from then on, and before that nobody loses.
LEMMA SomeSafeKept == StartupTypes /\ Sane /\ SomeSafe /\ StartupNext => SomeSafe'
<1> SUFFICES ASSUME StartupTypes, Sane, SomeSafe, StartupNext PROVE SomeSafe'
  OBVIOUS
<1> PICK j \in Instances : Safe(j)
  BY DEF SomeSafe
<1> PICK i \in Instances : Start(i) \/ Proceed(i) \/ Crash(i)
  BY DEF StartupNext
<1> USE DEF StartupTypes, Sane, SettingNames
<1>1. CASE Start(i) \/ Crash(i)
  <2>1. Safe(j)'
    BY <1>1 DEF Safe, Start, Crash, NoSettings
  <2> QED BY <2>1 DEF SomeSafe
<1>2. CASE LockMigrations(i) \/ CreateTable(i) \/ RecordMigration(i) \/ FinishMigration(i)
  <2>1. Safe(j)'
    BY <1>2 DEF Safe, LockMigrations, CreateTable, RecordMigration, FinishMigration, Migrates,
                NoSettings
  <2> QED BY <2>1 DEF SomeSafe
<1>3. ASSUME NEW s \in SettingNames, LoadSetting(i, s) PROVE SomeSafe'
  <2>1. Safe(j)'
    BY <1>3 DEF Safe, LoadSetting, After
  <2> QED BY <2>1 DEF SomeSafe
<1>4. ASSUME NEW s \in SettingNames, SetSetting(i, s) PROVE SomeSafe'
  <2>1. CASE settings[s] = NoValue
    <3>1. Safe(i)'
      BY <1>4, <2>1 DEF Safe, SetSetting, After
    <3> QED BY <3>1 DEF SomeSafe
  <2>2. CASE settings[s] # NoValue
    <3>1. j # i
      BY <1>4, <2>2 DEF Safe, SetSetting
    <3>2. Safe(j)'
      BY <1>4, <2>2, <3>1 DEF Safe, SetSetting
    <3> QED BY <3>2 DEF SomeSafe
  <2> QED BY <2>1, <2>2
<1> QED BY <1>1, <1>2, <1>3, <1>4 DEF Proceed
-----------------------------------------------------------------------------
\* What was given goes on holding, for what is stored stays.
LEMMA GivenStays ==
  ASSUME StartupTypes, StartupNext, Given, UNCHANGED accountVars
  PROVE  Given'
BY SettingsStay DEF Given, accountVars, SettingNames

\* A request leaves the start-up alone and gives what its instance holds.
LEMMA RequestsGive ==
  ASSUME StartupTypes, Sane, Given, NEW i \in Instances, Requests(i)
  PROVE  UNCHANGED startVars /\ Given'
<1>1. Serving(i) /\ UNCHANGED startVars
  BY DEF Requests, ServerInfo, app_register, app_login, form_login, account_delete,
         app_password_register, account_info
<1>2. /\ settings["server_id"] # NoValue /\ held[i]["server_id"] = settings["server_id"]
      /\ settings["session_key"] # NoValue /\ held[i]["session_key"] = settings["session_key"]
  BY <1>1 DEF Serving, Sane
<1>3. settings' = settings
  BY <1>1 DEF startVars
<1>4. told' \subseteq told \cup {held[i]["server_id"]}
  BY DEF Requests, ServerInfo, app_register, app_login, form_login, account_delete,
         app_password_register, account_info
<1>5. \A c \in cookies' : c \in cookies \/ \E u : c = Sealed(i, u)
  <2>1. CASE \E u \in Users, k \in Keys, aud \in told : app_login(i, u, k, aud)
    BY <2>1 DEF app_login
  <2>2. CASE \E m \in Emails, p \in Passwords : form_login(i, m, p)
    BY <2>2 DEF form_login
  <2>3. CASE \E cookie \in cookies : account_delete(i, cookie)
    BY <2>3 DEF account_delete
  <2>4. CASE \E cookie \in cookies : account_info(i, cookie)
    BY <2>4 DEF account_info
  <2> QED BY <2>1, <2>2, <2>3, <2>4 DEF Requests, ServerInfo, app_register, app_password_register
<1>6. \A u : Sealed(i, u).sealed = held[i]["session_key"]
  BY DEF Sealed
<1> QED BY <1>1, <1>2, <1>3, <1>4, <1>5, <1>6 DEF Given

\* The invariant of the start and what clients were given are kept by every step.
LEMMA StartupInvStep == StartupInv /\ Given /\ [Next]_routeVars => (StartupInv /\ Given)'
<1> SUFFICES ASSUME StartupInv, Given, [Next]_routeVars PROVE StartupInv' /\ Given'
  OBVIOUS
<1>1. CASE StartupNext /\ UNCHANGED accountVars
  BY <1>1, StartupTypesKept, SaneKept, SomeSafeKept, GivenStays DEF StartupInv
<1>2. ASSUME UNCHANGED startVars PROVE StartupInv'
  BY <1>2 DEF StartupInv, StartupTypes, Sane, SomeSafe, Safe, startVars
<1>3. CASE \E i \in Instances : Requests(i)
  BY <1>2, <1>3, RequestsGive DEF StartupInv
<1>4. CASE DirectCalls
  <2>1. UNCHANGED <<startVars, cookies, told>>
    BY <1>4 DEF DirectCalls, Directly
  <2> QED BY <2>1, <1>2 DEF Given, startVars
<1>5. CASE UNCHANGED routeVars
  <2>1. UNCHANGED <<startVars, cookies, told>>
    BY <1>5 DEF routeVars, accountVars
  <2> QED BY <2>1, <1>2 DEF Given, startVars
<1> QED BY <1>1, <1>3, <1>4, <1>5 DEF Next

\* In every behaviour.
LEMMA StartupInvAlways == Spec => [](StartupInv /\ Given)
BY StartupInvInit, StartupInvStep, PTL DEF Spec

\* However many instances start and crash, none reads a table before it is made
\* (main.rs: the settings are loaded after the migration).
THEOREM TablesBeforeUse == Spec => []MigratedBeforeUse
<1>1. StartupInv => MigratedBeforeUse
  BY DEF StartupInv, Sane, MigratedBeforeUse
<1> QED BY <1>1, StartupInvAlways, PTL

\* The plain INSERT of a setting (set_setting in server/mod.rs) ends the starts that
\* lose the race for it, and never all of them.
THEOREM SomeStartWins == Spec => []NotAllLose
<1>1. StartupInv => NotAllLose
  BY DEF StartupInv, SomeSafe, Safe, NotAllLose
<1> QED BY <1>1, StartupInvAlways, PTL

\* What one instance tells or seals, every other one accepts, then and after any
\* restart (main.rs: id and key come from the table of settings).
THEOREM OneIdentity == Spec => []IdentityKept
<1>1. StartupInv /\ Given => IdentityKept
  BY DEF StartupInv, Sane, Given, IdentityKept, Serving, Knows
<1> QED BY <1>1, StartupInvAlways, PTL
-----------------------------------------------------------------------------
\* A connection with tables t that goes back to b, if to anything.
Conn(t, b) == [tables |-> t, saved |-> b]

\* A transaction that is dropped leaves what there was before it, and one that is
\* committed leaves its tables and what the outer one goes back to.
LEMMA Nested ==
  ASSUME NEW t, NEW b, NEW S, t \in S, b \in Seq(S), NEW new
  PROVE  /\ BeginTx(Conn(t, b)) = Conn(t, Append(b, t))
         /\ DropTx(Conn(new, Append(b, t))) = Conn(t, b)
         /\ CommitTx(Conn(new, Append(b, t))) = Conn(new, b)
<1>1. /\ Last(Append(b, t)) = t
      /\ Front(Append(b, t)) = b
  BY DEF Last, Front
<1>2. BeginTx(Conn(t, b)) = Conn(t, Append(b, t))
  BY DEF BeginTx, Conn
<1>3. DropTx(Conn(new, Append(b, t))) = Conn(t, b)
  BY <1>1 DEF DropTx, Conn
<1>4. CommitTx(Conn(new, Append(b, t))) = Conn(new, b)
  BY <1>1 DEF CommitTx, Conn
<1> QED BY <1>2, <1>3, <1>4
\* What the DAO does inside of a transaction stays inside of it.
LEMMA DaoInside ==
  ASSUME NEW t, NEW b, NEW S, t \in S, b \in Seq(S), NEW u, NEW k, NEW m, NEW p
  PROVE  /\ \E new, code : register_user(Conn(t, b), u, k) = Outcome(Conn(new, b), code)
         /\ \E new, code : delete_user(Conn(t, b), u) = Outcome(Conn(new, b), code)
         /\ \E new, code : create_password_login(Conn(t, b), u, m, p) = Outcome(Conn(new, b), code)
<1> DEFINE c == Conn(t, Append(b, t))
<1>1. BeginTx(Conn(t, b)) = c
  BY Nested
<1>2. DropTx(c) = Conn(t, b)
  BY Nested
<1>3. ASSUME NEW new PROVE CommitTx(Wrote(c, new)) = Conn(new, b)
  <2>1. Wrote(c, new) = Conn(new, Append(b, t))
    BY DEF Wrote, Conn
  <2> QED BY <2>1, Nested
<1>4. ASSUME NEW new PROVE Wrote(Conn(t, b), new) = Conn(new, b)
  BY DEF Wrote, Conn
<1> HIDE DEF c
<1>5. \/ register_user(Conn(t, b), u, k) = Outcome(DropTx(c), "ExistingUser")
      \/ register_user(Conn(t, b), u, k) = Outcome(CommitTx(Wrote(c, WithUser(c.tables, u, k))), "ok")
  BY <1>1 DEF register_user
<1>6. \/ \E code : delete_user(Conn(t, b), u) = Outcome(DropTx(c), code)
      \/ delete_user(Conn(t, b), u) = Outcome(CommitTx(Wrote(c, WithoutUser(c.tables, u))), "ok")
  BY <1>1 DEF delete_user
<1>7. \/ create_password_login(Conn(t, b), u, m, p) = Outcome(Conn(t, b), "ExistingLogin")
      \/ \E new : create_password_login(Conn(t, b), u, m, p) = Outcome(Wrote(Conn(t, b), new), "ok")
  BY DEF create_password_login
<1> QED BY <1>2, <1>3, <1>4, <1>5, <1>6, <1>7

\* Once the route's transaction is taken back, the tables are what they were.
LEMMA NothingLeft ==
  /\ \A u, k : TakenBack(register_user(Lent, u, k)).conn.tables = db
  /\ \A u : TakenBack(delete_user(Lent, u)).conn.tables = db
  /\ \A u, m, p : TakenBack(create_password_login(Lent, u, m, p)).conn.tables = db
<1> DEFINE S == {db}
           b == <<db>>
<1>0. db \in S /\ <<>> \in Seq(S) /\ b \in Seq(S) /\ Append(<<>>, db) = b
  OBVIOUS
<1>1. Lent = Conn(db, b)
  <2>1. Connection = Conn(db, <<>>)
    BY DEF Connection, Conn
  <2>2. BeginTx(Conn(db, <<>>)) = Conn(db, Append(<<>>, db))
    BY <1>0, Nested
  <2> QED BY <1>0, <2>1, <2>2 DEF Lent
<1>2. ASSUME NEW new, NEW code PROVE TakenBack(Outcome(Conn(new, b), code)).conn.tables = db
  <2>1. DropTx(Conn(new, Append(<<>>, db))) = Conn(db, <<>>)
    BY <1>0, Nested
  <2>2. DropTx(Conn(new, b)) = Conn(db, <<>>)
    BY <1>0, <2>1
  <2>3. TakenBack(Outcome(Conn(new, b), code)).conn = DropTx(Conn(new, b))
    BY DEF TakenBack, Outcome
  <2> QED BY <2>2, <2>3 DEF Conn
<1> HIDE DEF S, b
<1>3. ASSUME NEW u, NEW k PROVE TakenBack(register_user(Lent, u, k)).conn.tables = db
  BY <1>0, <1>1, <1>2, DaoInside
<1>4. ASSUME NEW u PROVE TakenBack(delete_user(Lent, u)).conn.tables = db
  BY <1>0, <1>1, <1>2, DaoInside
<1>5. ASSUME NEW u, NEW m, NEW p
      PROVE  TakenBack(create_password_login(Lent, u, m, p)).conn.tables = db
  BY <1>0, <1>1, <1>2, DaoInside
<1> QED BY <1>3, <1>4, <1>5

\* The transaction that a route begins for the DAO is never committed, so whatever
\* the answer was, no account request changes the tables (routes.rs: app_register,
\* account_delete and app_password_register).
THEOREM RoutesNeverStore == Spec => [][(\E i \in Instances : Requests(i)) => UNCHANGED db]_routeVars
<1>1. ASSUME NEW i \in Instances, Requests(i) PROVE db' = db
  BY <1>1, NothingLeft DEF Requests, ServerInfo, app_register, app_login, form_login, account_delete,
         app_password_register, account_info
<1>2. [Next]_routeVars => [(\E i \in Instances : Requests(i)) => UNCHANGED db]_routeVars
  BY <1>1
<1> QED BY <1>2, PTL DEF Spec
-----------------------------------------------------------------------------
(* Accounts, and who may hold a cookie *)

\* The tables of accounts, with what foreign keys and cascades make of them.
Rows(a, f, g, d) == [users |-> a, keys |-> f, logins |-> g, deleted |-> d]
Tables(t) ==
  /\ t = Rows(t.users, t.keys, t.logins, t.deleted)
  /\ t.users \subseteq Users /\ t.deleted \subseteq Users
  /\ DOMAIN t.keys = t.users /\ DOMAIN t.logins \subseteq t.users

CookieTypes == \A c \in cookies : c.user \in Users /\ c.sealed \in Values

AccountInv == Tables(db) /\ CookieTypes /\ told \subseteq Values /\ SessionsTraced

\* No statement of the DAO loses trace of an account.
LEMMA DaoOnTables ==
  ASSUME NEW t, Tables(t), NEW u \in Users, NEW k, NEW m, NEW p
  PROVE  /\ Tables(WithUser(t, u, k))
         /\ Tables(WithoutUser(t, u))
         /\ u \in t.users => Tables(WithLogin(t, u, m, p))
         /\ \A x \in {WithUser(t, u, k), WithoutUser(t, u), WithLogin(t, u, m, p)} :
              t.users \cup t.deleted \subseteq x.users \cup x.deleted
<1> DEFINE a == t.users  f == t.keys  g == t.logins  d == t.deleted
<1>0. t = Rows(a, f, g, d)
  BY DEF Tables
<1>1. WithUser(Rows(a, f, g, d), u, k) = Rows(a \cup {u}, Put(f, u, k), g, d)
  BY DEF WithUser, Rows
<1>2. WithoutUser(Rows(a, f, g, d), u) = Rows(a \ {u}, Without(f, u), Without(g, u), d \cup {u})
  BY DEF WithoutUser, Rows
<1>3. WithLogin(Rows(a, f, g, d), u, m, p) =
        Rows(a, f, Put(g, u, [email |-> m, password |-> p]), d)
  BY DEF WithLogin, Rows
<1>4. /\ \A h, row : DOMAIN Put(h, u, row) = DOMAIN h \cup {u}
      /\ \A h : DOMAIN Without(h, u) = DOMAIN h \ {u}
  BY DEF Put, Without
<1>5. a \subseteq Users /\ d \subseteq Users /\ DOMAIN f = a /\ DOMAIN g \subseteq a
  BY DEF Tables
<1>6. ASSUME NEW aa, NEW ff, NEW gg, NEW dd, aa \subseteq Users, dd \subseteq Users,
             DOMAIN ff = aa, DOMAIN gg \subseteq aa
      PROVE  Tables(Rows(aa, ff, gg, dd))
  BY <1>6 DEF Rows, Tables
<1>6a. \A aa, ff, gg, dd : Rows(aa, ff, gg, dd).users = aa /\ Rows(aa, ff, gg, dd).deleted = dd
  BY DEF Rows
<1> HIDE DEF a, f, g, d
<1>7. Tables(WithUser(t, u, k))
  <2>1. a \cup {u} \subseteq Users /\ DOMAIN Put(f, u, k) = a \cup {u} /\ DOMAIN g \subseteq a \cup {u}
    BY <1>4, <1>5
  <2> QED BY <1>0, <1>1, <1>5, <1>6, <2>1
<1>8. Tables(WithoutUser(t, u))
  <2>1. /\ a \ {u} \subseteq Users /\ d \cup {u} \subseteq Users
        /\ DOMAIN Without(f, u) = a \ {u} /\ DOMAIN Without(g, u) \subseteq a \ {u}
    BY <1>4, <1>5
  <2> QED BY <1>0, <1>2, <1>5, <1>6, <2>1
<1>9. u \in a => Tables(WithLogin(t, u, m, p))
  <2> DEFINE row == [email |-> m, password |-> p]
  <2>1. u \in a => DOMAIN Put(g, u, row) \subseteq a
    BY <1>4, <1>5
  <2> QED BY <1>0, <1>3, <1>5, <1>6, <2>1
<1>10. /\ a \cup d \subseteq WithUser(t, u, k).users \cup WithUser(t, u, k).deleted
       /\ a \cup d \subseteq WithoutUser(t, u).users \cup WithoutUser(t, u).deleted
       /\ a \cup d \subseteq WithLogin(t, u, m, p).users \cup WithLogin(t, u, m, p).deleted
  BY <1>0, <1>1, <1>2, <1>3, <1>6a
<1> QED BY <1>7, <1>8, <1>9, <1>10 DEF a, d

\* A call without the route's transaction commits what the DAO did, or nothing.
LEMMA DirectlyDone ==
  ASSUME Tables(db), DirectCalls
  PROVE  Tables(db') /\ db.users \cup db.deleted \subseteq db'.users \cup db'.deleted
<1> DEFINE S == {db}
           c == Conn(db, Append(<<>>, db))
<1>0. db \in S /\ <<>> \in Seq(S)
  OBVIOUS
<1>1. /\ Connection = Conn(db, <<>>)
      /\ BeginTx(Connection) = c
      /\ DropTx(c) = Connection
  BY <1>0, Nested DEF Connection, Conn
<1>2. ASSUME NEW new PROVE CommitTx(Wrote(c, new)).tables = new
  <2>1. Wrote(c, new) = Conn(new, Append(<<>>, db))
    BY DEF Wrote, Conn
  <2>2. ASSUME NEW T, NEW b, b \in Seq(T), db \in T
        PROVE  CommitTx(Conn(new, Append(b, db))) = Conn(new, b)
    BY <2>2, Nested
  <2>3. CommitTx(Conn(new, Append(<<>>, db))) = Conn(new, <<>>)
    BY <1>0, <2>2
  <2> QED BY <2>1, <2>3 DEF Conn
<1>3. ASSUME NEW new PROVE Wrote(Connection, new).tables = new
  BY DEF Wrote, Connection
<1>4. c.tables = db /\ Connection.tables = db
  BY DEF Conn, Connection
<1>5. \A d, code : Outcome(d, code).conn = d
  BY DEF Outcome
<1> HIDE DEF S, c
<1>6. ASSUME NEW u \in Users, NEW k \in Keys, Directly(register_user(Connection, u, k))
      PROVE  db' \in {db, WithUser(db, u, k)}
  BY <1>1, <1>2, <1>4, <1>5, <1>6 DEF Directly, register_user
<1>7. ASSUME NEW u \in Users, Directly(delete_user(Connection, u))
      PROVE  db' \in {db, WithoutUser(db, u)}
  BY <1>1, <1>2, <1>4, <1>5, <1>7 DEF Directly, delete_user
<1>8. ASSUME NEW u \in Users, NEW m \in Emails, NEW p \in Passwords,
             Directly(create_password_login(Connection, u, m, p))
      PROVE  db' = db \/ (u \in db.users /\ db' = WithLogin(db, u, m, p))
  BY <1>3, <1>4, <1>5, <1>8 DEF Directly, create_password_login
<1> QED BY <1>6, <1>7, <1>8, DaoOnTables DEF DirectCalls

\* Requests leave the tables alone and give cookies to accounts that exist.
LEMMA RequestsTraced ==
  ASSUME StartupTypes, AccountInv, NEW i \in Instances, Requests(i),
         held[i]["server_id"] \in Values, held[i]["session_key"] \in Values
  PROVE  AccountInv'
<1>1. db' = db
  BY NothingLeft DEF Requests, ServerInfo, app_register, app_login, form_login, account_delete,
         app_password_register, account_info
<1>2. told' \subseteq Values
  BY DEF AccountInv, Requests, ServerInfo, app_register, app_login, form_login, account_delete,
         app_password_register, account_info
<1>3. \A c \in cookies' : c \in cookies \/ \E u \in db.users : c = Sealed(i, u)
  <2>1. CASE \E u \in Users, k \in Keys, aud \in told : app_login(i, u, k, aud)
    BY <2>1 DEF app_login, AccountInv, Tables
  <2>2. CASE \E m \in Emails, p \in Passwords : form_login(i, m, p)
    BY <2>2 DEF form_login, AccountInv, Tables
  <2>3. CASE \E cookie \in cookies : account_delete(i, cookie)
    BY <2>3 DEF account_delete
  <2>4. CASE \E cookie \in cookies : account_info(i, cookie)
    BY <2>4 DEF account_info
  <2> QED BY <2>1, <2>2, <2>3, <2>4 DEF Requests, ServerInfo, app_register, app_password_register
<1>4. \A u : Sealed(i, u).user = u /\ Sealed(i, u).sealed = held[i]["session_key"]
  BY DEF Sealed
<1>5. CookieTypes'
  BY <1>3, <1>4 DEF AccountInv, CookieTypes, Tables
<1>6. SessionsTraced'
  BY <1>1, <1>3, <1>4 DEF AccountInv, SessionsTraced
<1> QED BY <1>1, <1>2, <1>5, <1>6 DEF AccountInv

\* The tables, the cookies and the ids told keep their types, and every cookie its
\* account or tombstone.
LEMMA AccountInvStep ==
  StartupInv /\ AccountInv /\ [Next]_routeVars => AccountInv'
<1> SUFFICES ASSUME StartupInv, AccountInv, [Next]_routeVars PROVE AccountInv'
  OBVIOUS
<1>1. ASSUME UNCHANGED accountVars PROVE AccountInv'
  BY <1>1 DEF AccountInv, CookieTypes, SessionsTraced, accountVars
<1>2. ASSUME NEW i \in Instances, Requests(i) PROVE AccountInv'
  <2>1. Serving(i)
    BY <1>2 DEF Requests, ServerInfo, app_register, app_login, form_login, account_delete,
         app_password_register, account_info
  <2>2. held[i]["server_id"] \in Values /\ held[i]["session_key"] \in Values
    BY <2>1 DEF Serving, StartupInv, Sane, StartupTypes, SettingNames
  <2> QED BY <1>2, <2>2, RequestsTraced DEF StartupInv
<1>3. CASE DirectCalls
  <2>1. UNCHANGED <<cookies, told>>
    BY <1>3 DEF DirectCalls, Directly
  <2> QED BY <1>3, <2>1, DirectlyDone DEF AccountInv, CookieTypes, SessionsTraced
<1>4. CASE UNCHANGED routeVars
  BY <1>1, <1>4 DEF routeVars
<1> QED BY <1>1, <1>2, <1>3, <1>4 DEF Next

\* And so in every state.
LEMMA AccountInvAlways == Spec => []AccountInv
<1>1. RoutesInit => AccountInv
  BY DEF RoutesInit, AccountInv, Tables, Rows, CookieTypes, SessionsTraced, NoRows
<1> QED BY <1>1, AccountInvStep, StartupInvAlways, PTL DEF Spec

\* Types and keys hold in every state.
THEOREM RouteTypes == Spec => []TypeInv
<1>1. StartupInv /\ AccountInv => TypeInv
  BY DEF StartupInv, AccountInv, Tables, CookieTypes, TypeInv
<1> QED BY <1>1, AccountInvAlways, StartupInvAlways, PTL

\* A cookie's account exists or has left a tombstone (dao.rs: delete_user writes it in
\* the transaction that removes the account).
THEOREM CookiesTraced == Spec => []SessionsTraced
<1>1. AccountInv => SessionsTraced
  BY DEF AccountInv
<1> QED BY <1>1, AccountInvAlways, PTL
=============================================================================
