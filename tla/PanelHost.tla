------------------------------ MODULE PanelHost ------------------------------
(***************************************************************************)
(* The panel's process from its start on: PanelStart brings it up, and     *)
(* while it serves, PanelAccounts and FileTasks handle requests.  It may   *)
(* die at any time with all it has in memory; the database, Redis and the  *)
(* files stay for the next start.                                          *)
(***************************************************************************)
EXTENDS PanelStart, PanelAccounts, FileTasks

CONSTANT MaxLoad   \* bound on what happens in a behaviour, in all

ASSUME LoadAssumption == MaxLoad \in Nat

hostVars == <<startVars, accountVars, taskVars>>

(* With six: two requests for accounts or three events of file tasks, and  *)
(* less of either with a crash of the panel or an agent that charges.      *)
Charged == IF server.charges THEN 1 ELSE 0
Bounded == 3 * (crashes' + events' + Charged') + 2 * taskEvents' <= MaxLoad

(* Only the former release's database has a user already; a panel with an  *)
(* ordinary user has closed its registration.                              *)
Init ==
  /\ StartInit /\ AccountsInit /\ TasksInit
  /\ (Row = {}) = (tables = 0)
  /\ setting = \A i \in Row : account[i].fresh

Starts == StartStep /\ UNCHANGED <<accountVars, taskVars>>
Charges == AgentCharges /\ UNCHANGED <<accountVars, taskVars>>
Accounts == Serving /\ AccountsStep /\ UNCHANGED <<startVars, taskVars>>
Files == Serving /\ TasksStep /\ UNCHANGED <<startVars, accountVars>>
Crash == StartCrash /\ AccountsCrash /\ TasksCrash

Next ==
  /\ Starts \/ Charges \/ Accounts \/ Files \/ Crash
  /\ Bounded

(* Docker restarts the container and cron calls the scan every minute.     *)
Scans ==
  /\ Serving
  /\ ScanSelects \/ ScanDisables
  /\ UNCHANGED <<startVars, taskVars>>

FairSpec ==
  /\ Init /\ [][Next]_hostVars
  /\ WF_hostVars(Starts)
  /\ WF_hostVars(Scans)
=============================================================================
