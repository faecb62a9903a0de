------------------------------ MODULE KernelTask ------------------------------
(***************************************************************************)
(* A kernel upgrade task of the panel.                                     *)
(*                                                                         *)
(* CreateKernelTask stores one row per node and kernel and leaves them to  *)
(* runKernelTask: the items of the canary node first, one after the other, *)
(* then the others, a few at a time.  executeKernelTaskItem takes the      *)
(* node's mutex, starts the operation on the node under the row's          *)
(* idempotency key, polls it, and writes what it sees into the row; the    *)
(* write's error is ignored.  RetryKernelTask gives failed rows a new      *)
(* attempt and a run of their own.  A panel that restarts runs every       *)
(* unfinished row again.  Meanwhile a node may be uninstalled or deleted.  *)
(*                                                                         *)
(* One task is modelled: tasks meet in the nodes' mutexes, as two items of *)
(* one node and two runs of the task do.  A remote call holds the          *)
(* lifecycle lock for reading from the look at the registration to the     *)
(* answer, so it is one step here; a lost answer is an outcome of it.      *)
(***************************************************************************)
EXTENDS Naturals, FiniteSets

CONSTANTS
  Item,              \* rows of the task: a node and one of its kernels
  Node,
  NodeOf,            \* [Item -> Node]
  Canary,            \* the canary node, or NoNode
  NoNode,
  Absent,            \* no such row
  Legacy,            \* nodes that need the operator's token (no mTLS)
  Slots,             \* items executed at a time (3 in the code)
  LongErrors,        \* does a rollback's error overflow its column?
  RetryWhileRunning, \* retries through the API, not offered by the web page
  MaxAttempts,       \* bound on the attempts of a row
  MaxRuns, MaxRestarts,
  MaxFaults          \* lost writes, offline nodes, lost answers, time-outs

ASSUME NodesAssigned ==
  /\ NodeOf \in [Item -> Node]
  /\ NoNode \notin Node
  /\ Canary \in Node \cup {NoNode}
  /\ Legacy \subseteq Node

ASSUME BoundsNatural ==
  /\ Slots \in Nat \ {0} /\ MaxAttempts \in Nat \ {0} /\ MaxRuns \in Nat \ {0}
  /\ MaxRestarts \in Nat /\ MaxFaults \in Nat
  /\ LongErrors \in BOOLEAN /\ RetryWhileRunning \in BOOLEAN

Run == 1..MaxRuns

\* The key of attempt k is k; a row has key 0 until it is named.
Key == 0..MaxAttempts

Over == {"succeeded", "failed", "rolled_back"}

Row == [stage : Over \cup {"queued", "active"}, result : {"", "succeeded", "failed"},
        attempt : 1..MaxAttempts, key : Key, op : BOOLEAN]

ASSUME AbsentAssumption == Absent \notin Row

\* Outcomes of an operation on its node; "unrestored" is a failed operation
\* whose rollback failed too, with an error too long for its column.
Outcome == Over \cup {o \in {"unrestored"} : LongErrors}

\* A worker that has its turn, and one that holds its node's mutex.
Holding == {"locked", "asked", "started", "polling"}
Busy == Holding \cup {"waiting"}

VARIABLES
  up,        \* the panel process
  server,    \* node_server: "registered", "removing", "gone"
  row,       \* kernel_upgrade_task_item
  status,    \* kernel_upgrade_task.status; "none": no task yet, "deleted"
  request,   \* the holder of nodeMaintenanceAdmission
  run,       \* runKernelTask: where it stands, the counts it read
  worker,    \* [Run -> [Item -> where executeKernelTaskItem stands]]
  copy,      \* [Run -> [Item -> the item as that goroutine knows it]]
  op,        \* the nodes: [Item -> [Key -> operation]]
  restarts, lost, trouble   \* what went wrong so far

goroutines == <<run, worker, copy>>
database == <<row, status, lost>>
vars == <<up, server, row, status, request, run, worker, copy, op,
          restarts, lost, trouble>>

Idle == [kind |-> "none", items |-> {}]
Unused == [pc |-> "unused", view |-> "none", token |-> FALSE]

Rows == {i \in Item : row[i] # Absent}
CanaryItem(i) == NodeOf[i] = Canary

\* Rows that may be retried.
Failed(i) == row[i].stage \in {"failed", "rolled_back"}

Alive(r) == run[r].pc \notin {"unused", "done"}

\* Item i still has to be brought to an end by run r.
Pending(r, i) == Alive(r) /\ worker[r][i] \in Busy \cup {"todo"}

NodeFree(n) ==
  \A r \in Run, i \in Item : NodeOf[i] = n => worker[r][i] \notin Holding

Init ==
  /\ up = TRUE
  /\ server = [n \in Node |-> "registered"]
  /\ row = [i \in Item |-> Absent]
  /\ status = "none"
  /\ request = Idle
  /\ run = [r \in Run |-> Unused]
  /\ worker = [r \in Run |-> [i \in Item |-> "none"]]
  /\ copy = [r \in Run |-> [i \in Item |-> Absent]]
  /\ op = [i \in Item |-> [k \in Key |-> "none"]]
  /\ restarts = 0
  /\ lost = 0
  /\ trouble = 0

-----------------------------------------------------------------------------
(* UpdateKernelTaskItem: the whole row, if it is still there.  A value     *)
(* that does not fit its column fails the statement, which says nothing.   *)
Write(i, item, fits) ==
  \/ /\ row' = IF fits /\ row[i] # Absent THEN [row EXCEPT ![i] = item] ELSE row
     /\ UNCHANGED lost
  \/ /\ lost + trouble < MaxFaults
     /\ lost' = lost + 1
     /\ UNCHANGED row

NewRun == CHOOSE r \in Run : run[r].pc = "unused" /\ \A q \in 1..(r - 1) : run[q].pc # "unused"

RunsLeft == \E r \in Run : run[r].pc = "unused"

\* go runKernelTask(items)
Launch(items, table, gated, token) ==
  /\ run' = [run EXCEPT ![NewRun] =
       [pc |-> IF gated THEN "opening" ELSE "opening_all", view |-> "none", token |-> token]]
  /\ worker' = [worker EXCEPT ![NewRun] =
                  [i \in Item |-> IF i \in items THEN "todo" ELSE "none"]]
  /\ copy' = [copy EXCEPT ![NewRun] =
                [i \in Item |-> IF i \in items THEN table[i] ELSE Absent]]

-----------------------------------------------------------------------------
(* CreateKernelTask, under the admission lock.  The rows are committed     *)
(* with a provisional key and named one by one; the lifecycle lock is held *)
(* from the commit to the end.                                             *)
Registered(items) == \A i \in items : server[NodeOf[i]] = "registered"

RequestOnly == UNCHANGED <<up, server, op, restarts, trouble>>

CreateAsks ==
  /\ up /\ request = Idle
  /\ status = "none"
  /\ Registered(Item)
  /\ request' = [kind |-> "create", items |-> Item]
  /\ RequestOnly
  /\ UNCHANGED <<goroutines, database>>

CreateCommits ==
  /\ request.kind = "create"
  /\ Registered(Item)
  /\ row' = [i \in Item |-> [stage |-> "queued", result |-> "", attempt |-> 1,
                             key |-> 0, op |-> FALSE]]
  /\ status' = "queued"
  /\ request' = [request EXCEPT !.kind = "name"]
  /\ RequestOnly
  /\ UNCHANGED <<goroutines, lost>>

CreateNames(i) ==
  /\ request.kind = "name" /\ i \in request.items
  /\ \/ /\ row' = [row EXCEPT ![i].key = 1]
        /\ request' = [request EXCEPT !.items = @ \ {i}]
        /\ UNCHANGED lost
     \/ /\ lost + trouble < MaxFaults
        /\ lost' = lost + 1
        /\ request' = Idle
        /\ UNCHANGED row
  /\ RequestOnly
  /\ UNCHANGED <<goroutines, status>>

CreateLaunches ==
  /\ request = [kind |-> "name", items |-> {}]
  /\ Launch(Item, row, Canary # NoNode, TRUE)
  /\ request' = Idle
  /\ RequestOnly
  /\ UNCHANGED database

(* The preflight found a node that changed, is updating its container or   *)
(* cannot be reached.                                                      *)
RequestRefused ==
  /\ request.kind \in {"create", "retry"}
  /\ request' = Idle
  /\ RequestOnly
  /\ UNCHANGED <<goroutines, database>>

(* RetryKernelTask: the failed rows as they are now, then the preflight.   *)
(* The web page offers it once the task's status says that it is over.     *)
RetryAsks(items) ==
  /\ up /\ request = Idle
  /\ RunsLeft
  /\ items # {} /\ items \subseteq {i \in Rows : Failed(i)}
  /\ \A i \in items : row[i].attempt < MaxAttempts
  /\ RetryWhileRunning \/ status \in {"failed", "partial"}
  /\ Registered(items)
  /\ request' = [kind |-> "retry", items |-> items]
  /\ RequestOnly
  /\ UNCHANGED <<goroutines, database>>

\* ResetKernelTaskItems
Again(item) ==
  [stage |-> "queued", result |-> "", attempt |-> item.attempt + 1,
   key |-> item.attempt + 1, op |-> FALSE]

(* Seeded fault: the old result stays in the row.                          *)
RetryKeepsResult ==
  LET again == {i \in request.items \cap Rows : Failed(i)}
      table == [i \in Item |-> IF i \in again THEN [Again(row[i]) EXCEPT !.result = row[i].result]
                               ELSE row[i]]
  IN  /\ request.kind = "retry"
      /\ again # {}
      /\ Registered(again)
      /\ \A i \in again : row[i].attempt < MaxAttempts
      /\ row' = table
      /\ status' = "queued"
      /\ Launch(again, table, FALSE, TRUE)
      /\ request' = Idle
      /\ RequestOnly
      /\ UNCHANGED lost

RetryCommits ==
  LET again == {i \in request.items \cap Rows : Failed(i)}
      table == [i \in Item |-> IF i \in again THEN Again(row[i]) ELSE row[i]]
  IN  /\ request.kind = "retry"
      /\ again # {}
      /\ Registered(again)
      /\ \A i \in again : row[i].attempt < MaxAttempts
      /\ row' = table
      /\ status' = "queued"
      /\ Launch(again, table, FALSE, TRUE)
      /\ request' = Idle
      /\ RequestOnly
      /\ UNCHANGED lost

-----------------------------------------------------------------------------
(* runKernelTask.  RefreshKernelTaskStatus counts the rows and then writes *)
(* the status, in two statements.  What a goroutine knew is dropped when   *)
(* it returns.                                                             *)
RunOnly == UNCHANGED <<up, server, request, op, restarts, trouble>>

Goto(r, pc) == run' = [run EXCEPT ![r].pc = pc, ![r].view = "none"]

(* Seeded fault: the status tells of failed rows before the others end.    *)
StatusEager ==
  LET stages == {row[i].stage : i \in Rows}
  IN  CASE Rows = {} -> status
        [] stages = {"succeeded"} -> "succeeded"
        [] stages \cap {"failed", "rolled_back"} # {} -> "partial"
        [] OTHER -> "running"

StatusOfRows ==
  LET stages == {row[i].stage : i \in Rows}
  IN  CASE Rows = {} -> status
        [] Rows # {} /\ ~(stages \subseteq Over) -> "running"
        [] stages = {"succeeded"} -> "succeeded"
        [] Rows # {} /\ stages \subseteq {"failed", "rolled_back"} -> "failed"
        [] OTHER -> "partial"

Counts(r) ==
  /\ run[r].pc \in {"opening", "opening_all", "closing"}
  /\ run[r].view = "none"
  /\ run' = [run EXCEPT ![r].view = StatusOfRows]
  /\ RunOnly
  /\ UNCHANGED <<worker, copy, database>>

AfterReport(pc) ==
  CASE pc = "opening" -> "canary" [] pc = "opening_all" -> "others" [] OTHER -> "done"

Reports(r) ==
  /\ run[r].view # "none"
  /\ \/ status' = (IF status = "deleted" THEN status ELSE run[r].view) /\ UNCHANGED lost
     \/ lost + trouble < MaxFaults /\ lost' = lost + 1 /\ UNCHANGED status
  /\ Goto(r, AfterReport(run[r].pc))
  /\ worker' = [worker EXCEPT ![r] = [i \in Item |-> IF run[r].pc = "closing" THEN "none" ELSE @[i]]]
  /\ RunOnly
  /\ UNCHANGED <<copy, row>>

\* The canary's items come one after the other, the others Slots at a time.
TakesTurn(r, i) ==
  /\ worker[r][i] = "todo"
  /\ \/ run[r].pc = "canary" /\ CanaryItem(i) /\ \A j \in Item : worker[r][j] \notin Busy \cup {"failed"}
     \/ run[r].pc = "others" /\ Cardinality({j \in Item : worker[r][j] \in Busy}) < Slots
  /\ worker' = [worker EXCEPT ![r][i] = "waiting"]
  /\ RunOnly
  /\ UNCHANGED <<run, copy, database>>

CanaryPasses(r) ==
  /\ run[r].pc = "canary"
  /\ \A i \in Item : CanaryItem(i) => worker[r][i] \in {"none", "done"}
  /\ Goto(r, "others")
  /\ RunOnly
  /\ UNCHANGED <<worker, copy, database>>

(* Seeded fault: a failed canary does not hold the others back.            *)
CanaryIgnored(r) ==
  /\ run[r].pc = "canary"
  /\ \E i \in Item : worker[r][i] = "failed"
  /\ Goto(r, "others")
  /\ RunOnly
  /\ UNCHANGED <<worker, copy, database>>

CanaryFails(r) ==
  /\ run[r].pc = "canary"
  /\ \E i \in Item : worker[r][i] = "failed"
  /\ Goto(r, "stopping")
  /\ RunOnly
  /\ UNCHANGED <<worker, copy, database>>

\* Item i of run r is over; what its goroutine knew of it is gone.
Forgets(r, i) == copy' = [copy EXCEPT ![r][i] = Absent]

\* failKernelTaskItem
FailsItem(r, i) ==
  /\ worker' = [worker EXCEPT ![r][i] = "failed"]
  /\ Write(i, [copy[r][i] EXCEPT !.stage = "failed", !.result = "failed"], TRUE)
  /\ Forgets(r, i)

\* "canary node failed": the rows of the other nodes, and only those.
GivesUp(r, i) ==
  /\ run[r].pc = "stopping"
  /\ worker[r][i] = "todo" /\ ~CanaryItem(i)
  /\ FailsItem(r, i)
  /\ RunOnly
  /\ UNCHANGED <<run, status>>

(* Seeded fault: a run that stops at the canary does not refresh.          *)
FinishesSilently(r) ==
  /\ \/ /\ run[r].pc = "others"
        /\ \A i \in Item : worker[r][i] \in {"none", "done", "failed"}
        /\ Goto(r, "closing")
     \/ /\ run[r].pc = "stopping"
        /\ \A i \in Item : CanaryItem(i) \/ worker[r][i] # "todo"
        /\ Goto(r, "done")
  /\ RunOnly
  /\ UNCHANGED <<worker, copy, database>>

Finishes(r) ==
  /\ \/ /\ run[r].pc = "others"
        /\ \A i \in Item : worker[r][i] \in {"none", "done", "failed"}
     \/ /\ run[r].pc = "stopping"
        /\ \A i \in Item : CanaryItem(i) \/ worker[r][i] # "todo"
  /\ Goto(r, "closing")
  /\ RunOnly
  /\ UNCHANGED <<worker, copy, database>>

-----------------------------------------------------------------------------
(* executeKernelTaskItem, in the goroutine of item i in run r.             *)
WorkerOnly == UNCHANGED <<up, server, request, run, restarts>>

Step(r, i, from, to) ==
  /\ worker[r][i] = from
  /\ worker' = [worker EXCEPT ![r][i] = to]

\* withKernelTaskServer: nobody holds the lifecycle lock for writing, the
\* node is registered and stays.
Callable(i) == request.kind # "name" /\ server[NodeOf[i]] = "registered"

LocksNode(r, i) ==
  /\ Step(r, i, "waiting", "locked")
  /\ NodeFree(NodeOf[i])
  /\ WorkerOnly
  /\ UNCHANGED <<copy, database, op, trouble>>

\* A run that RecoverKernelTasks started has no token to show.
Answers(r, i) == Callable(i) /\ (run[r].token \/ NodeOf[i] \notin Legacy)

Inventories(r, i) ==
  /\ Step(r, i, "locked", "asked")
  /\ Answers(r, i)
  /\ WorkerOnly
  /\ UNCHANGED <<copy, database, op, trouble>>

\* The node knows the key, or starts an operation.
Admit(i, k) == op' = [op EXCEPT ![i][k] = IF @ = "none" THEN "active" ELSE @]

StageOf(o) == IF o = "unrestored" THEN "failed" ELSE o

Starts(r, i) ==
  /\ Step(r, i, "asked", "started")
  /\ Answers(r, i)
  /\ Admit(i, copy[r][i].key)
  /\ copy' = [copy EXCEPT ![r][i].stage = StageOf(op'[i][copy[r][i].key]), ![r][i].op = TRUE]
  /\ WorkerOnly
  /\ UNCHANGED <<database, trouble>>

Saves(r, i) ==
  /\ Step(r, i, "started", "polling")
  /\ Write(i, copy[r][i], TRUE)
  /\ WorkerOnly
  /\ UNCHANGED <<copy, status, op, trouble>>

PollsActive(r, i) ==
  /\ worker[r][i] = "polling"
  /\ Answers(r, i)
  /\ op[i][copy[r][i].key] = "active"
  /\ Write(i, copy[r][i], TRUE)
  /\ WorkerOnly
  /\ UNCHANGED <<worker, copy, status, op, trouble>>

(* Seeded fault: whatever did not fail is recorded as a success.           *)
SeenOptimist(item, o) ==
  [item EXCEPT !.stage = StageOf(o),
               !.result = IF StageOf(o) = "failed" THEN "failed" ELSE "succeeded"]

\* What the row says of an operation that ended.
Seen(item, o) ==
  [item EXCEPT !.stage = StageOf(o),
               !.result = IF o = "succeeded" THEN "succeeded" ELSE "failed"]

\* The rollback's error goes into rollback_result, a varchar(32).
Polls(r, i) ==
  LET o == op[i][copy[r][i].key]
  IN  /\ Step(r, i, "polling", IF o = "succeeded" THEN "done" ELSE "failed")
      /\ Answers(r, i)
      /\ o \in Outcome
      /\ Write(i, Seen(copy[r][i], o), ~(LongErrors /\ o = "unrestored"))
      /\ Forgets(r, i)
      /\ WorkerOnly
      /\ UNCHANGED <<status, op, trouble>>

\* The registration is gone, or being removed, or the node wants a token.
TurnedAway(r, i) ==
  /\ worker[r][i] \in {"locked", "asked", "polling"}
  /\ request.kind # "name"
  /\ ~Answers(r, i)
  /\ FailsItem(r, i)
  /\ WorkerOnly
  /\ UNCHANGED <<status, op, trouble>>

(* The node is offline, refuses, or its operation takes over 15 minutes:   *)
(* the panel stops looking, whatever the node goes on to do.               *)
StopsLooking(r, i) ==
  /\ worker[r][i] \in {"locked", "asked", "polling"}
  /\ lost + trouble < MaxFaults
  /\ trouble' = trouble + 1
  /\ FailsItem(r, i)
  /\ WorkerOnly
  /\ UNCHANGED <<status, op>>

LosesAnswer(r, i) ==
  /\ worker[r][i] = "asked"
  /\ Answers(r, i)
  /\ lost + trouble < MaxFaults
  /\ trouble' = trouble + 1
  /\ Admit(i, copy[r][i].key)
  /\ FailsItem(r, i)
  /\ WorkerOnly
  /\ UNCHANGED status

Execute(r, i) ==
  \/ TakesTurn(r, i) \/ LocksNode(r, i) \/ Inventories(r, i) \/ Starts(r, i)
  \/ Saves(r, i) \/ PollsActive(r, i) \/ Polls(r, i) \/ TurnedAway(r, i)
  \/ StopsLooking(r, i) \/ LosesAnswer(r, i) \/ GivesUp(r, i)

RunTask(r) == Counts(r) \/ Reports(r) \/ CanaryPasses(r) \/ CanaryFails(r) \/ Finishes(r)

-----------------------------------------------------------------------------
(* The node's agent brings every admitted operation to an outcome.         *)
Settles(i, k) ==
  /\ op[i][k] = "active"
  /\ \E o \in Outcome : op' = [op EXCEPT ![i][k] = o]
  /\ UNCHANGED <<up, server, request, goroutines, database, restarts, trouble>>

-----------------------------------------------------------------------------
(* A node is uninstalled: not while a row of it has no result.             *)
RegistryOnly == UNCHANGED <<up, request, goroutines, op, restarts, lost, trouble>>

BeginNodeServerRemoval(n) ==
  /\ up /\ request = Idle
  /\ server[n] = "registered"
  /\ \A i \in Rows : NodeOf[i] = n => row[i].result # ""
  /\ server' = [server EXCEPT ![n] = "removing"]
  /\ RegistryOnly
  /\ UNCHANGED <<row, status>>

CancelUnstartedNodeServerRemoval(n) ==
  /\ up /\ request.kind # "name"
  /\ server[n] = "removing"
  /\ server' = [server EXCEPT ![n] = "registered"]
  /\ RegistryOnly
  /\ UNCHANGED <<row, status>>

\* clearNodeServerData, with the history; a task without rows goes too.
ClearHistory(n) ==
  /\ row' = [i \in Item |-> IF NodeOf[i] = n THEN Absent ELSE row[i]]
  /\ status' = IF status # "none" /\ \A i \in Rows : NodeOf[i] = n THEN "deleted" ELSE status

CompleteNodeServerRemoval(n) ==
  /\ up /\ request.kind # "name"
  /\ server[n] = "removing"
  /\ server' = [server EXCEPT ![n] = "gone"]
  /\ ClearHistory(n) \/ UNCHANGED <<row, status>>
  /\ RegistryOnly

\* Web-only: it asks nobody.
DeleteNodeServerRecords(n) ==
  /\ up /\ request.kind # "name"
  /\ server[n] # "gone"
  /\ server' = [server EXCEPT ![n] = "gone"]
  /\ ClearHistory(n)
  /\ RegistryOnly

-----------------------------------------------------------------------------
(* The panel dies and starts again.                                        *)
Crash ==
  /\ up /\ restarts < MaxRestarts
  /\ restarts' = restarts + 1
  /\ up' = FALSE
  /\ request' = Idle
  /\ run' = [r \in Run |-> Unused]
  /\ worker' = [r \in Run |-> [i \in Item |-> "none"]]
  /\ copy' = [r \in Run |-> [i \in Item |-> Absent]]
  /\ UNCHANGED <<server, database, op, trouble>>

(* Seeded fault: only what had started is run again.                       *)
UnfinishedStarted(table) ==
  [i \in {j \in Item : table[j] # Absent /\ table[j].stage = "active"} |-> table[i]]

\* SelectKernelTaskItemsByStage
Unfinished(table) ==
  [i \in {j \in Item : table[j] # Absent /\ table[j].stage \notin Over} |-> table[i]]

\* MarkInterruptedKernelItemsFailed
Interrupted(item) ==
  IF item # Absent /\ item.stage = "active" /\ ~item.op
    THEN [item EXCEPT !.stage = "failed", !.result = "failed"] ELSE item

RecoverKernelTasks ==
  /\ ~up
  /\ up' = TRUE
  /\ row' = [i \in Item |-> Interrupted(row[i])]
  /\ LET again == Unfinished(row')
     IN  IF DOMAIN again = {} THEN UNCHANGED goroutines
         ELSE Launch(DOMAIN again, again, FALSE, FALSE)
  /\ UNCHANGED <<server, status, request, op, restarts, lost, trouble>>

Next ==
  \/ CreateAsks \/ CreateCommits \/ CreateLaunches \/ RequestRefused \/ RetryCommits
  \/ \E i \in Item : CreateNames(i)
  \/ \E items \in SUBSET Item : RetryAsks(items)
  \/ \E r \in Run : RunTask(r)
  \/ \E r \in Run, i \in Item : Execute(r, i)
  \/ \E i \in Item, k \in Key : Settles(i, k)
  \/ \E n \in Node : \/ BeginNodeServerRemoval(n) \/ CancelUnstartedNodeServerRemoval(n)
                    \/ CompleteNodeServerRemoval(n) \/ DeleteNodeServerRecords(n)
  \/ Crash \/ RecoverKernelTasks

Spec == Init /\ [][Next]_vars

(* Goroutines go on, a mutex is handed over in turn, a node settles what   *)
(* it admitted, and Docker starts the panel again.                         *)
FairSpec ==
  /\ Spec
  /\ \A r \in Run : WF_vars(RunTask(r))
  /\ \A r \in Run, i \in Item : WF_vars(Execute(r, i))
  /\ \A i \in Item, k \in Key : WF_vars(Settles(i, k))
  /\ WF_vars(CreateLaunches) /\ \A i \in Item : WF_vars(CreateNames(i))
  /\ WF_vars(RecoverKernelTasks)

-----------------------------------------------------------------------------
TypeOK ==
  /\ up \in BOOLEAN
  /\ server \in [Node -> {"registered", "removing", "gone"}]
  /\ row \in [Item -> Row \cup {Absent}]
  /\ status \in {"none", "queued", "running", "succeeded", "failed", "partial", "deleted"}
  /\ request \in [kind : {"none", "create", "name", "retry"}, items : SUBSET Item]
  /\ run \in [Run -> [pc : {"unused", "opening", "opening_all", "canary", "others",
                           "stopping", "closing", "done"},
                     view : {"none", "queued", "running", "succeeded", "failed",
                             "partial", "deleted"},
                     token : BOOLEAN]]
  /\ worker \in [Run -> [Item -> {"none", "todo", "done", "failed"} \cup Busy]]
  /\ copy \in [Run -> [Item -> Row \cup {Absent}]]
  /\ op \in [Item -> [Key -> {"none", "active"} \cup Outcome]]
  /\ restarts \in Nat /\ lost \in Nat /\ trouble \in Nat

(* Retries, runs and restarts never put two goroutines on one row: the     *)
(* second writer would undo what the first one recorded.                   *)
OneRunPerItem ==
  \A i \in Item, q, r \in Run : Pending(q, i) /\ Pending(r, i) => q = r

(* A row claims success or a restored version only when the operation of   *)
(* its current attempt ended that way on the node.                         *)
ResultIsTheOperations ==
  \A i \in Rows :
    /\ row[i].result = "succeeded" => op[i][row[i].key] = "succeeded"
    /\ row[i].stage = "rolled_back" => op[i][row[i].key] = "rolled_back"

(* Unless the panel restarts, no other node's first attempt starts before  *)
(* every kernel of the canary node has been upgraded.                      *)
CanaryGate ==
  [][\A i \in Item, k \in {0, 1} :
       /\ restarts = 0 /\ Canary # NoNode /\ ~CanaryItem(i)
       /\ op[i][k] = "none" /\ op'[i][k] # "none"
       => \A c \in Item : CanaryItem(c) => op[c][1] = "succeeded"]_vars

(* A row whose stage is final and that nobody works on has its result:     *)
(* removals and container updates wait for the result.  (One restart and   *)
(* no lost write: the start of an operation that has ended already is      *)
(* answered, and saved, with its final stage before the first poll.)       *)
OverHasResult ==
  \A i \in Rows :
    row[i].stage \in Over /\ (\A r \in Run : ~Pending(r, i)) /\ restarts <= 1 /\ lost = 0
    => row[i].result # ""

(* While a node is being uninstalled no goroutine has work left on it.     *)
RemovalExcludesTask ==
  \A i \in Item, r \in Run : Pending(r, i) => server[NodeOf[i]] # "removing"

(* When the last run is over, the task's status is the one of its rows.    *)
StatusIsCurrent ==
  up /\ request = Idle /\ Rows = Item /\ restarts = 0 /\ lost = 0
     /\ (\A r \in Run : ~Alive(r)) /\ (\E r \in Run : run[r].pc = "done")
  => status = StatusOfRows

(* What nobody works on any more is settled: each row has its result, and  *)
(* the task has the status of its rows.                                    *)
EndedTaskIsSettled == OverHasResult /\ StatusIsCurrent

(* Every row gets a result, by its run or by the one a restart gives it.   *)
ItemSettles ==
  \A i \in Item :
    row[i] # Absent /\ row[i].result = "" ~> (row[i] = Absent \/ row[i].result # "")
=============================================================================
