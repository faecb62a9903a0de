----------------------------- MODULE PanelStart -----------------------------
(***************************************************************************)
(* The start of the panel's process and the schema of its database.        *)
(*                                                                         *)
(* The container is restarted whenever the process ends.  Every start      *)
(* creates the configuration files that do not exist, imports the database *)
(* when it has no table, and runs every migration; an error is a panic.    *)
(* No step is undone: a start that dies leaves what it has done to the     *)
(* next one, which looks only at whether a file or any table exists.       *)
(* Nodes charge traffic meanwhile.                                         *)
(***************************************************************************)
EXTENDS Naturals, Sequences

CONSTANTS MaxCrashes   \* bound on crashes of the process and time-outs

ASSUME CrashesAssumption == MaxCrashes \in Nat

VARIABLES
  start,     \* [pc, step]: what the process does, and the step it is at
  file,      \* "absent", "empty", "full"
  tables,    \* number of the statements of Import that were executed
  schema,    \* names of the migration statements in force
  daily,     \* account_traffic_daily: has it the old history, new charges?
  server,    \* account_server_traffic_daily, likewise
  early,     \* a charge came before the history was copied
  crashes

schemaVars == <<file, tables, schema, daily, server, early>>
startVars == <<start, schemaVars, crashes>>

-----------------------------------------------------------------------------
(* The files of core/config.go in the order of its init.                   *)
ConfigFile ==
  <<"AccountTemplate.json", "NodeServerTemplate.json", "config.ini",
    "rbac_model.conf", "clash-rule.yaml", "template-sing-box.json",
    "template-sing-box-outbound.json", "template-xray.json">>

(* What SqlInit creates and fills, statement by statement; of the tables   *)
(* only those that a migration touches, and the last two, which none does. *)
Import ==
  <<"account", "casbin_rule", "node", "node_hysteria2", "node_server",
    "node_xray", "role", "system", "system row">>

Imported == {Import[i] : i \in 1 .. tables}

Column(name, table) == [kind |-> "column", name |-> name, on |-> table]
Table(name) == [kind |-> "table", name |-> name, on |-> "account"]
Permission(name) == [kind |-> "permission", name |-> name, on |-> "casbin_rule"]

(* The statements of the migrations in the order of InitMySQL; columns of  *)
(* one ALTER series and permissions of one loop are one statement here.    *)
Migration ==
  << Column("remark", "account"), Column("external_port", "node"),
     Column("naive_uot", "node"), Column("xray_options", "node_xray"),
     Column("client_types", "node"), Permission("client exports"),
     Column("port_hopping", "node_hysteria2"),
     Column("grpc_tls", "node_server"), Table("kernel_upgrade_task"),
     Permission("kernels"),
     Column("traffic_limits", "node_server"), Table("account_traffic_total"),
     Table("account_server_traffic_daily"), Table("account_traffic_daily"),
     [kind |-> "check", name |-> "history", on |-> "account"],
     [kind |-> "copy", name |-> "history", on |-> "account"],
     Permission("traffic"),
     Column("removing", "node_server"), Table("node_removal_cleanup"),
     Permission("administration") >>

(* What a database of the release before the daily totals has.             *)
Former == {Migration[i].name : i \in 1 .. 13}

Nowhere == [history |-> FALSE, charges |-> FALSE]

(* A new host, or one with the former release's database and its agents;   *)
(* install.sh has written config.ini, or the panel is started without it.  *)
StartInit ==
  /\ start = [pc |-> "down", step |-> 1]
  /\ \E upgraded \in BOOLEAN, written \in BOOLEAN :
       /\ upgraded => written
       /\ file = [f \in {ConfigFile[i] : i \in 1 .. Len(ConfigFile)} |->
                    IF upgraded \/ (written /\ f = "config.ini") THEN "full" ELSE "absent"]
       /\ tables = IF upgraded THEN Len(Import) ELSE 0
       /\ schema = IF upgraded THEN Former ELSE {}
       /\ server = [Nowhere EXCEPT !.history = upgraded]
  /\ daily = Nowhere /\ early = FALSE
  /\ crashes = 0

Serving == start.pc = "serving"

Stage(pc) == start.pc = pc
Goes(pc, step) == start' = [pc |-> pc, step |-> step]
Panics == Goes("down", 1)

-----------------------------------------------------------------------------
(* docker run --restart always                                             *)
Boot ==
  /\ Stage("down")
  /\ Goes("files", 1)
  /\ UNCHANGED <<schemaVars, crashes>>

(* if !util.Exists(path): os.Create, and WriteString in a second step.     *)
CreateFile ==
  /\ Stage("files") /\ start.step <= Len(ConfigFile)
  /\ LET f == ConfigFile[start.step]
     IN  IF file[f] = "absent"
           THEN Goes("write", start.step) /\ file' = [file EXCEPT ![f] = "empty"]
           ELSE Goes("files", start.step + 1) /\ UNCHANGED file
  /\ UNCHANGED <<tables, schema, daily, server, early, crashes>>

WriteFile ==
  /\ Stage("write")
  /\ file' = [file EXCEPT ![ConfigFile[start.step]] = "full"]
  /\ Goes("files", start.step + 1)
  /\ UNCHANGED <<tables, schema, daily, server, early, crashes>>

(* InitConfig and the connection: an empty config.ini names no database.   *)
(* The import runs when the schema has no table at all.                    *)
Connect ==
  /\ Stage("files") /\ start.step > Len(ConfigFile)
  /\ \/ file["config.ini"] = "empty" /\ Panics
     \/ file["config.ini"] = "full" /\ tables = 0 /\ Goes("import", 1)
     \/ file["config.ini"] = "full" /\ tables # 0 /\ Goes("migrate", 1)
  /\ UNCHANGED <<schemaVars, crashes>>

SqlInit ==
  /\ Stage("import")
  /\ tables' = tables + 1
  /\ IF tables' = Len(Import) THEN Goes("migrate", 1) ELSE Goes("import", start.step + 1)
  /\ UNCHANGED <<file, schema, daily, server, early, crashes>>

Statement == Migration[start.step]
Migrating(kinds) ==
  /\ Stage("migrate") /\ start.step <= Len(Migration)
  /\ Statement.kind \in kinds

Continues == Goes("migrate", start.step + 1)

(* Seeded fault: "Duplicate column name" is an error like any other.       *)
MigrateStrictly ==
  /\ Migrating({"column", "table", "permission"})
  /\ IF Statement.on \in Imported /\ ~(Statement.kind = "column" /\ Statement.name \in schema)
       THEN schema' = schema \cup {Statement.name} /\ Continues
       ELSE Panics /\ UNCHANGED schema
  /\ UNCHANGED <<file, tables, daily, server, early, crashes>>

(* A column that exists already is no error, a table is created IF NOT     *)
(* EXISTS, a permission is counted first; a table that is missing is one.  *)
Migrate ==
  /\ Migrating({"column", "table", "permission"})
  /\ IF Statement.on \in Imported
       THEN schema' = schema \cup {Statement.name} /\ Continues
       ELSE Panics /\ UNCHANGED schema
  /\ UNCHANGED <<file, tables, daily, server, early, crashes>>

(* Seeded fault: the history is copied only into a table that this start   *)
(* has created, as far as the process knows: not after its first crash.    *)
CheckDailyAtFirst ==
  /\ Migrating({"check"})
  /\ IF daily = Nowhere /\ crashes = 0
       THEN Continues
       ELSE Goes("migrate", start.step + 2)
  /\ UNCHANGED <<schemaVars, crashes>>

(* SELECT EXISTS(SELECT 1 FROM account_traffic_daily): any row will do.    *)
CheckDaily ==
  /\ Migrating({"check"})
  /\ IF daily = Nowhere THEN Continues ELSE Goes("migrate", start.step + 2)
  /\ UNCHANGED <<schemaVars, crashes>>

(* INSERT ... SELECT: a charge that came after the check has both its rows *)
(* and makes a duplicate key.                                              *)
CopyHistory ==
  /\ Migrating({"copy"})
  /\ IF daily.charges
       THEN Panics /\ UNCHANGED daily
       ELSE Continues /\ daily' = server
  /\ UNCHANGED <<file, tables, schema, server, early, crashes>>

(* Redis, the certificate authority (CertificateRotation), the finalizer   *)
(* (NodeRemoval), cron and the unfinished kernel tasks (KernelTask).       *)
Serve ==
  /\ Stage("migrate") /\ start.step > Len(Migration)
  /\ Goes("serving", 1)
  /\ UNCHANGED <<schemaVars, crashes>>

StartStep ==
  \/ Boot \/ CreateFile \/ WriteFile \/ Connect \/ SqlInit
  \/ Migrate \/ CheckDaily \/ CopyHistory \/ Serve

(* The process is killed, or a statement exceeds its read time-out of one  *)
(* second, which is a panic.                                               *)
StartCrash ==
  /\ ~Stage("down") /\ crashes < MaxCrashes
  /\ crashes' = crashes + 1
  /\ Panics
  /\ UNCHANGED schemaVars

(* An agent of the new release charges traffic in one transaction, which   *)
(* needs all its tables; a new host has no nodes yet.                      *)
AgentCharges ==
  /\ server.history /\ ~server.charges
  /\ {"account_traffic_total", "account_server_traffic_daily", "account_traffic_daily"}
       \subseteq schema
  /\ server' = [server EXCEPT !.charges = TRUE]
  /\ daily' = [daily EXCEPT !.charges = TRUE]
  /\ early' = ~daily.history
  /\ UNCHANGED <<start, file, tables, schema, crashes>>

-----------------------------------------------------------------------------
(* A start died between the creation of config.ini and its text, or within *)
(* the import before the last table that a migration changes: no later     *)
(* start repairs either.                                                   *)
Damaged ==
  \/ file["config.ini"] = "empty" /\ ~Stage("write")
  \/ /\ tables # 0 /\ ~Stage("import")
     /\ \E i \in DOMAIN Migration : Migration[i].on \notin Imported

(* Whatever step of whatever start the process dies at, a later start ends *)
(* in a serving panel: files that exist are kept, columns, tables, rows    *)
(* and permissions that exist are no error.  The exceptions are the two    *)
(* damages that the code does not repair.                                  *)
PanelComesUp == ~Serving ~> Serving \/ Damaged

(* A serving panel has the traffic history of the former release in its    *)
(* daily totals, whatever start was interrupted, unless a node charged     *)
(* traffic before the history was copied (then the code gives it up).      *)
HistoryComplete == Serving /\ server.history => daily.history \/ early
=============================================================================
