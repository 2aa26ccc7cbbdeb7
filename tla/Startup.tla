------------------------------ MODULE Startup -------------------------------
(***************************************************************************)
(* The start of the server (src/main.rs, src/server/mod.rs): migrate the       *)
(* database, then load two settings or draw and insert them.  Any number of      *)
(* instances of the program may start on one database, crash anywhere and be     *)
(* started again; what they hold in memory is then lost, what the database       *)
(* holds is not.                                                               *)
(***************************************************************************)
EXTENDS Naturals

CONSTANTS
  Instances,   \* processes of the server
  Values,      \* what the generators of ids and of session keys may draw
  TableCount   \* CREATE TABLE statements of the migration

ASSUME StartupAssumption == TableCount \in Nat /\ Instances # {}

VARIABLES
  schema,     \* [tables |-> how many there are, recorded |-> in _sqlx_migrations]
  migrating,  \* the instances holding sqlx's advisory lock: none or one
  settings,   \* table settings: setting -> value
  at,         \* instance -> what it does
  held        \* instance -> setting -> its value in memory

startVars == <<schema, migrating, settings, at, held>>

SettingNames == {"server_id", "session_key"}
NoValue == [missing |-> TRUE]
NoSettings == [s \in SettingNames |-> NoValue]

\* "server_id" and "session_key": the instance is about that setting.  A start
\* that an error ended is "failed", a process that was killed is "off".
Stages == {"off", "failed", "migrate", "serving"} \cup SettingNames
Starting(i) == at[i] \in {"migrate"} \cup SettingNames
Serving(i) == at[i] = "serving"

StartupInit ==
  /\ schema = [tables |-> 0, recorded |-> FALSE]
  /\ migrating = {}
  /\ settings = NoSettings
  /\ at = [i \in Instances |-> "off"]
  /\ held = [i \in Instances |-> NoSettings]

Start(i) ==
  /\ at[i] \in {"off", "failed"}
  /\ at' = [at EXCEPT ![i] = "migrate"]
  /\ UNCHANGED <<schema, migrating, settings, held>>

\* sqlx's migrator holds an advisory lock throughout; the statements of the
\* migration are not one transaction, so a crash leaves some of the tables.
LockMigrations(i) ==
  /\ at[i] = "migrate" /\ migrating = {}
  /\ migrating' = {i}
  /\ UNCHANGED <<schema, settings, at, held>>

Migrates(i) == at[i] = "migrate" /\ i \in migrating

\* CREATE TABLE IF NOT EXISTS, from the first statement that has work to do.
CreateTable(i) ==
  /\ Migrates(i) /\ ~schema.recorded /\ schema.tables < TableCount
  /\ schema' = [schema EXCEPT !.tables = @ + 1]
  /\ UNCHANGED <<migrating, settings, at, held>>

RecordMigration(i) ==
  /\ Migrates(i) /\ ~schema.recorded /\ schema.tables = TableCount
  /\ schema' = [schema EXCEPT !.recorded = TRUE]
  /\ UNCHANGED <<migrating, settings, at, held>>

\* Faulty: a migration that has failed is only logged.
FinishAnyway(i) ==
  /\ Migrates(i)
  /\ migrating' = {}
  /\ at' = [at EXCEPT ![i] = "server_id"]
  /\ UNCHANGED <<schema, settings, held>>

FinishMigration(i) ==
  /\ Migrates(i) /\ schema.recorded
  /\ migrating' = {}
  /\ at' = [at EXCEPT ![i] = "server_id"]
  /\ UNCHANGED <<schema, settings, held>>
-----------------------------------------------------------------------------
After(s) == IF s = "server_id" THEN "session_key" ELSE "serving"

\* A value nobody has drawn before.
Fresh(s) == {v \in Values : v # settings[s] /\ \A j \in Instances : v # held[j][s]}

\* Faulty: drawn without looking for a stored one.
DrawAlways(i, s) ==
  /\ at[i] = s /\ held[i][s] = NoValue
  /\ \E v \in Fresh(s) : held' = [held EXCEPT ![i][s] = v]
  /\ UNCHANGED <<schema, migrating, settings, at>>

\* load_setting: found, or else drawn, to be inserted next.
LoadSetting(i, s) ==
  /\ at[i] = s /\ held[i][s] = NoValue
  /\ \/ /\ settings[s] # NoValue
        /\ held' = [held EXCEPT ![i][s] = settings[s]]
        /\ at' = [at EXCEPT ![i] = After(s)]
     \/ /\ settings[s] = NoValue
        /\ \E v \in Fresh(s) : held' = [held EXCEPT ![i][s] = v]
        /\ UNCHANGED at
  /\ UNCHANGED <<schema, migrating, settings>>

\* Faulty: INSERT IGNORE, so the loser of a race goes on with its own value.
InsertOrIgnore(i, s) ==
  /\ at[i] = s /\ held[i][s] # NoValue
  /\ settings' = [settings EXCEPT ![s] = IF @ = NoValue THEN held[i][s] ELSE @]
  /\ at' = [at EXCEPT ![i] = After(s)]
  /\ UNCHANGED <<schema, migrating, held>>

\* Faulty: an insert that fails is tried again.
RetryInsert(i, s) ==
  /\ at[i] = s /\ held[i][s] # NoValue
  /\ \/ /\ settings[s] = NoValue
        /\ settings' = [settings EXCEPT ![s] = held[i][s]]
        /\ at' = [at EXCEPT ![i] = After(s)]
     \/ settings[s] # NoValue /\ UNCHANGED <<settings, at>>
  /\ UNCHANGED <<schema, migrating, held>>

\* set_setting without update: a plain INSERT.  Where another instance was
\* faster, the duplicate key ends this start.
SetSetting(i, s) ==
  /\ at[i] = s /\ held[i][s] # NoValue
  /\ \/ /\ settings[s] = NoValue
        /\ settings' = [settings EXCEPT ![s] = held[i][s]]
        /\ at' = [at EXCEPT ![i] = After(s)]
        /\ UNCHANGED held
     \/ /\ settings[s] # NoValue
        /\ at' = [at EXCEPT ![i] = "failed"]
        /\ held' = [held EXCEPT ![i] = NoSettings]
        /\ UNCHANGED settings
  /\ UNCHANGED <<schema, migrating>>

\* The database drops the connection of the process, and with it its lock.
Crash(i) ==
  /\ at[i] \notin {"off", "failed"}
  /\ at' = [at EXCEPT ![i] = "off"]
  /\ held' = [held EXCEPT ![i] = NoSettings]
  /\ migrating' = migrating \ {i}
  /\ UNCHANGED <<schema, settings>>

\* What a start does by itself, until it serves or ends.
Proceed(i) ==
  \/ LockMigrations(i) \/ CreateTable(i) \/ RecordMigration(i) \/ FinishMigration(i)
  \/ \E s \in SettingNames : LoadSetting(i, s) \/ SetSetting(i, s)

StartupNext == \E i \in Instances : Start(i) \/ Proceed(i) \/ Crash(i)
StartupSpec == StartupInit /\ [][StartupNext]_startVars
=============================================================================
