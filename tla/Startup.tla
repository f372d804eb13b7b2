------------------------------- MODULE Startup -------------------------------
(***************************************************************************)
(* From main to the two listeners (cmd/payformeproxy/main.go): a process   *)
(* reads its settings (internal/env), migrates the database                *)
(* (internal/db/migrate.go), and serves the admin UI and the proxy.  It    *)
(* may stop at any point, and is started again (docker-compose.yml:        *)
(* restart).  Several processes may share the database and the ports.      *)
(*                                                                         *)
(* Each SQL statement commits by itself, so that a stop leaves a half      *)
(* migrated database.  Indexes are left out: nothing depends on them.      *)
(***************************************************************************)
EXTENDS Integers, Sequences, SequencesExt, TLC

CONSTANTS
  Processes,    \* at most one runs per place where the program is started
  NoProcess,    \* the holder of a free port
  WalletIds,    \* wallets in the database, now or later
  Values,       \* what a variable may be set to
  Unset,        \* the empty string, which counts as not set
  Environments, \* what the environment may say: functions over Keys
  Files,        \* what .env may say: sequences of lines
  MaxStops      \* bound on the stops that nothing in the code causes

Keys == {"ADMIN_USER", "ADMIN_PASSWORD"}

\* A line "KEY=value"; a comment, an empty line or one without "=" has no key.
Line == [key : Keys \cup {"none"}, value : Values]

ASSUME StartupAssumption ==
  /\ NoProcess \notin Processes
  /\ {Unset, "admin"} \subseteq Values /\ Unset # "admin"
  /\ Environments \subseteq [Keys -> Values]
  /\ Files \subseteq Seq(Line)
  /\ MaxStops \in Nat

VARIABLES
  environment, \* variables set before the process starts
  dotenv,      \* the lines of .env
  tables,      \* tables that exist
  columns,     \* of the columns that came later, those that exist
  stored,      \* rows of wallets
  blank,       \* rows of wallets whose rpc_endpoint is ''
  proc,        \* where each process is
  adminPort,   \* who listens on ADMIN_ADDR
  proxyPort,   \* who listens on PROXY_ADDR
  stops        \* number of stops so far

settingVars  == <<environment, dotenv>>
databaseVars == <<tables, columns, stored, blank>>
processVars  == <<proc, adminPort, proxyPort, stops>>
startupVars  == <<settingVars, databaseVars, processVars>>

\* The files of internal/db/migrations, in order.
Tables == <<"proxy_users", "wallets", "transactions", "user_wallet">>

\* The calls of ensureColumn, in order.
Columns == <<[table |-> "transactions", name |-> "status"],
             [table |-> "wallets", name |-> "rpc_endpoint"],
             [table |-> "wallets", name |-> "rpc_token"]>>

Steps   == {"down", "create", "look", "add", "fill", "wire", "listen", "serving"}
Process == [pc : Steps, at : 1..Len(Tables), settings : [Keys -> Values],
            admin : {"none", "starting", "up", "failed"}]

Off == [pc |-> "down", at |-> 1, settings |-> [key \in Keys |-> Unset], admin |-> "none"]

-----------------------------------------------------------------------------
(* internal/env.                                                           *)

\* Fault model: a line overrides what is already set.
LoadLastWins(variables, lines) ==
  FoldLeft(LAMBDA set, line : IF line.key \in Keys THEN [set EXCEPT ![line.key] = line.value]
                              ELSE set, variables, lines)

\* A variable that is set and not empty keeps its value.
Load(variables, lines) ==
  FoldLeft(LAMBDA set, line : IF line.key \in Keys /\ set[line.key] = Unset
                              THEN [set EXCEPT ![line.key] = line.value]
                              ELSE set, variables, lines)

Get(variables, key) == IF variables[key] = Unset THEN "admin" ELSE variables[key]

-----------------------------------------------------------------------------
(* Migrate and ensureColumn.                                               *)

Goto(p, pc, at) == proc' = [proc EXCEPT ![p] = [@ EXCEPT !.pc = pc, !.at = at]]

\* log.Fatal, os.Exit or the end of the container: the ports are free again.
Exits(p) == /\ proc' = [proc EXCEPT ![p] = Off]
            /\ adminPort' = IF adminPort = p THEN NoProcess ELSE adminPort
            /\ proxyPort' = IF proxyPort = p THEN NoProcess ELSE proxyPort

Start(p) ==
  /\ proc[p].pc = "down"
  /\ LET set == Load(environment, dotenv)
     IN proc' = [proc EXCEPT ![p] = [Off EXCEPT !.pc = "create",
                                      !.settings = [key \in Keys |-> Get(set, key)]]]
  /\ UNCHANGED <<settingVars, databaseVars, adminPort, proxyPort, stops>>

\* CREATE TABLE IF NOT EXISTS: a table that exists keeps the columns it has.
CreateTable(p) ==
  /\ proc[p].pc = "create"
  /\ LET table == Tables[proc[p].at]
     IN /\ tables' = tables \cup {table}
        /\ columns' = IF table \in tables THEN columns
                      ELSE columns \cup {c \in ToSet(Columns) : c.table = table}
  /\ IF proc[p].at = Len(Tables) THEN Goto(p, "look", 1) ELSE Goto(p, "create", proc[p].at + 1)
  /\ UNCHANGED <<settingVars, stored, blank, adminPort, proxyPort, stops>>

NextColumn(p) ==
  /\ IF proc[p].at = Len(Columns) THEN Goto(p, "fill", 1) ELSE Goto(p, "look", proc[p].at + 1)
  /\ UNCHANGED <<adminPort, proxyPort>>

\* Fault model: the column is added without a look.
AddUnseen(p) == /\ proc[p].pc = "look" /\ Goto(p, "add", proc[p].at)
                /\ UNCHANGED <<settingVars, databaseVars, adminPort, proxyPort, stops>>

\* Fault model: a database that has every column is taken to be up to date.
LookUnlessComplete(p) ==
  /\ proc[p].pc = "look"
  /\ IF proc[p].at = 1 /\ ToSet(Columns) \subseteq columns
     THEN Goto(p, "wire", 1) /\ UNCHANGED <<adminPort, proxyPort>>
     ELSE IF Columns[proc[p].at] \in columns THEN NextColumn(p)
     ELSE Goto(p, "add", proc[p].at) /\ UNCHANGED <<adminPort, proxyPort>>
  /\ UNCHANGED <<settingVars, databaseVars, stops>>

\* PRAGMA table_info, and the decision to add.
LookForColumn(p) ==
  /\ proc[p].pc = "look"
  /\ IF Columns[proc[p].at] \in columns THEN NextColumn(p)
     ELSE Goto(p, "add", proc[p].at) /\ UNCHANGED <<adminPort, proxyPort>>
  /\ UNCHANGED <<settingVars, databaseVars, stops>>

\* ALTER TABLE ADD COLUMN, an error when another process was faster.  The
\* wallets that are there get the default, an empty endpoint.
AddColumn(p) ==
  /\ proc[p].pc = "add"
  /\ LET column == Columns[proc[p].at]
     IN IF column \in columns THEN Exits(p) /\ UNCHANGED <<columns, blank>>
        ELSE /\ columns' = columns \cup {column}
             /\ blank' = IF column.name = "rpc_endpoint" THEN stored ELSE blank
             /\ NextColumn(p)
  /\ UNCHANGED <<settingVars, tables, stored, stops>>

\* UPDATE wallets SET rpc_endpoint = ... WHERE rpc_endpoint = '', on every start.
FillEndpoints(p) ==
  /\ proc[p].pc = "fill"
  /\ blank' = {}
  /\ Goto(p, "wire", 1)
  /\ UNCHANGED <<settingVars, tables, columns, stored, adminPort, proxyPort, stops>>

-----------------------------------------------------------------------------
(* The two servers.                                                        *)

\* admin.New, and the goroutine that is to serve the admin UI.
Wire(p) ==
  /\ proc[p].pc = "wire"
  /\ proc' = [proc EXCEPT ![p] = [@ EXCEPT !.pc = "listen", !.admin = "starting"]]
  /\ UNCHANGED <<settingVars, databaseVars, adminPort, proxyPort, stops>>

\* A port that is taken is only logged: the process goes on without admin UI.
ListenAdmin(p) ==
  /\ proc[p].admin = "starting"
  /\ proc' = [proc EXCEPT ![p].admin = IF adminPort = NoProcess THEN "up" ELSE "failed"]
  /\ adminPort' = IF adminPort = NoProcess THEN p ELSE adminPort
  /\ UNCHANGED <<settingVars, databaseVars, proxyPort, stops>>

\* A port that is taken ends the process.
ListenProxy(p) ==
  /\ proc[p].pc = "listen"
  /\ IF proxyPort = NoProcess
     THEN Goto(p, "serving", 1) /\ proxyPort' = p /\ UNCHANGED adminPort
     ELSE Exits(p)
  /\ UNCHANGED <<settingVars, databaseVars, stops>>

\* A file of the CA is missing, SQLite is busy, a signal, the machine fails.
Stop(p) ==
  /\ proc[p].pc # "down" /\ stops < MaxStops
  /\ stops' = stops + 1
  /\ Exits(p)
  /\ UNCHANGED <<settingVars, databaseVars>>

\* Service.Create puts the chain's endpoint where the form has none.
CreateWallet(w) ==
  /\ adminPort # NoProcess /\ ToSet(Columns) \subseteq columns
  /\ w \notin stored
  /\ stored' = stored \cup {w}
  /\ UNCHANGED <<settingVars, tables, columns, blank, processVars>>

\* The operator edits .env; a process that runs does not notice.
Edit == /\ dotenv' \in Files
        /\ UNCHANGED <<environment, databaseVars, processVars>>

-----------------------------------------------------------------------------
\* A new database, or one from before some of the columns, with its wallets.
StartupInit ==
  /\ environment \in Environments /\ dotenv \in Files
  /\ \/ tables = {} /\ columns = {} /\ stored = {}
     \/ tables = ToSet(Tables) /\ columns \in SUBSET ToSet(Columns) /\ stored \in SUBSET WalletIds
  /\ blank = {}
  /\ proc = [p \in Processes |-> Off]
  /\ adminPort = NoProcess /\ proxyPort = NoProcess /\ stops = 0

Migrating(p) == CreateTable(p) \/ LookForColumn(p) \/ AddColumn(p) \/ FillEndpoints(p)
=============================================================================
