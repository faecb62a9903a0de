------------------------------ MODULE NodeRemoval ------------------------------
(***************************************************************************)
(* Uninstalling a node from the panel, and forgetting it afterwards.       *)
(*                                                                         *)
(* The panel marks the registration, asks the node's host service to       *)
(* remove everything, and deletes its own rows only with the host's        *)
(* receipt.  The same transaction puts the receipt into an outbox.  The    *)
(* host keeps its service, its keys and the receipt until the panel has    *)
(* committed: /finalize makes it call the panel back, the callback clears  *)
(* the outbox, and only its 204 lets the host erase itself.                *)
(* Every call may be lost or answered too late, and both programs may die  *)
(* at any point; what the host does while update.sh or uninstall.sh run is *)
(* in HostMaintenance.                                                     *)
(*                                                                         *)
(* The module also has the panel's two other maintenance requests as far   *)
(* as they meet a removal: container updates and kernel tasks.             *)
(***************************************************************************)
EXTENDS Naturals

CONSTANTS
  Node,
  Receipt,           \* random tokens
  None,
  MaxPanelCrashes, MaxServiceCrashes,
  MaxLost,           \* calls that are lost, or served after the caller gave up
  MaxRepairs         \* interventions of an operator on a host

Mode == {"keep", "purge"}

(* None is neither a node nor anything that is written down.               *)
ASSUME NoneAssumption ==
  /\ None \notin Node
  /\ None \notin [mode : Mode, receipt : Receipt] \cup [mode : Mode, live : BOOLEAN]

VARIABLES
  (* The panel's database *)
  server,     \* node_server: "registered", "removing", "uninstalled", "forgotten"
  history,    \* traffic and task rows of the node exist
  outbox,     \* the rows of node_removal_cleanup
  tasks,      \* nodes with kernel task items that have no result
  (* The panel's memory *)
  op,         \* the holder of each node's removal mutex
  admission,  \* nodeMaintenanceAdmission: the node it is held for
  update,     \* the node whose container update is being requested
  batch,      \* what the finalizer still has to work on
  (* Each host *)
  installed,  \* project containers are there
  job,        \* a container update job is active
  product,    \* the product lock directory: "free", "held", "stale"
  result,     \* result.json: mode and receipt
  callback,   \* finalize.json exists
  cleanup,    \* "none", "marked", "erased", "gone"
  service,    \* "up", "executing", "executed", "down"
  serving,    \* the removal request that is executed
  loop,       \* finalizationLoop: "off", "calling", "acked"
  (* The network *)
  requests,   \* /remove requests on their way to a host or waiting there
  updates,    \* hosts a /container/update request is on its way to
  finals,     \* /finalize requests on their way
  (* What happened *)
  faults,     \* [kind -> how often]
  touched,    \* an uninstall has begun on the host since it was installed
  superseded  \* install.sh has replaced what was there

database == <<server, history, outbox, tasks>>
memory == <<op, admission, update, batch>>
host == <<installed, job, product, result, callback, cleanup, service,
          serving, loop>>
network == <<requests, updates, finals>>
past == <<faults, touched, superseded>>
vars == <<database, memory, host, network, past>>

Free == [at |-> "free", mode |-> None, fresh |-> FALSE, receipt |-> None]

Registration == {"registered", "removing", "uninstalled", "forgotten"}

Init ==
  /\ server = [n \in Node |-> "registered"]
  /\ history = [n \in Node |-> TRUE]
  /\ outbox = {}
  /\ tasks = {}
  /\ op = [n \in Node |-> Free]
  /\ admission = None
  /\ update = None
  /\ batch = {}
  /\ installed = [n \in Node |-> TRUE]
  /\ job = [n \in Node |-> FALSE]
  /\ product = [n \in Node |-> "free"]
  /\ result = [n \in Node |-> None]
  /\ callback = [n \in Node |-> FALSE]
  /\ cleanup = [n \in Node |-> "none"]
  /\ service = [n \in Node |-> "up"]
  /\ serving = [n \in Node |-> None]
  /\ loop = [n \in Node |-> "off"]
  /\ requests = {}
  /\ updates = {}
  /\ finals = {}
  /\ faults = [k \in {"panel", "service", "lost", "repair"} |-> 0]
  /\ touched = {}
  /\ superseded = {}

Happens(kind, max) ==
  /\ faults[kind] < max
  /\ faults' = [faults EXCEPT ![kind] = @ + 1]

Rows(n) == {item \in outbox : item.node = n}

-----------------------------------------------------------------------------
(* The panel: one uninstall or deletion of a node at a time, under the     *)
(* mutex of that node (op), with the global admission until the mark is    *)
(* committed.  nodeLifecycle is held for reading by a container update     *)
(* from its look at the rows to the host's answer (update), and for        *)
(* writing by the transactions below.                                      *)
PanelOnly == UNCHANGED <<host, updates, finals, past>>

(* beginNodeServerUninstall up to the preflight.  A server that is already *)
(* marked skips it: an earlier attempt may have removed the container.     *)
Uninstall(n, m) ==
  /\ op[n] = Free
  /\ admission = None
  /\ server[n] \in {"registered", "removing"}
  /\ admission' = n
  /\ LET fresh == server[n] = "registered"
     IN  op' = [op EXCEPT ![n] = [at |-> IF fresh THEN "preflight" ELSE "begin",
                                  mode |-> m, fresh |-> fresh, receipt |-> None]]
  /\ PanelOnly
  /\ UNCHANGED <<database, update, batch, requests>>

Withdraw(n) ==
  /\ op' = [op EXCEPT ![n] = Free]
  /\ admission' = None

(* checkNodeContainerJobIdle: the inventory says whether a job is active.  *)
PreflightPasses(n) ==
  /\ op[n].at = "preflight"
  /\ service[n] = "up"
  /\ ~job[n]
  /\ op' = [op EXCEPT ![n].at = "begin"]
  /\ PanelOnly
  /\ UNCHANGED <<database, admission, update, batch, requests>>

PreflightRefuses(n) ==
  /\ op[n].at = "preflight"
  /\ service[n] # "up" \/ job[n]
  /\ Withdraw(n)
  /\ PanelOnly
  /\ UNCHANGED <<database, update, batch, requests>>

(* BeginNodeServerRemoval; then the call to the host goes out.             *)
Begin(n) ==
  /\ op[n].at = "begin"
  /\ update = None
  /\ n \notin tasks
  /\ server' = [server EXCEPT ![n] = "removing"]
  /\ admission' = None
  /\ op' = [op EXCEPT ![n].at = "remove"]
  /\ requests' = requests \cup {[node |-> n, mode |-> op[n].mode, live |-> TRUE]}
  /\ PanelOnly
  /\ UNCHANGED <<history, outbox, tasks, update, batch>>

BeginRefused(n) ==
  /\ op[n].at = "begin"
  /\ update = None
  /\ n \in tasks
  /\ Withdraw(n)
  /\ PanelOnly
  /\ UNCHANGED <<database, update, batch, requests>>

(* The panel's client stops waiting after 190 s, or the connection breaks. *)
(* The request may have been lost, or be served all the same.              *)
GivesUp(n) ==
  /\ op[n].at = "remove"
  /\ Happens("lost", MaxLost)
  /\ op' = [op EXCEPT ![n] = Free]
  /\ LET call == [node |-> n, mode |-> op[n].mode, live |-> TRUE]
     IN  \/ requests' = requests \ {call}
         \/ call \in requests /\ requests' = (requests \ {call}) \cup {[call EXCEPT !.live = FALSE]}
  /\ serving' = [serving EXCEPT ![n] = IF @ = None THEN None ELSE [@ EXCEPT !.live = FALSE]]
  /\ UNCHANGED <<database, admission, update, batch, installed, job, product,
                 result, callback, cleanup, service, loop, updates, finals,
                 touched, superseded>>

(* Seeded fault: a refused attempt resets the mark of an earlier one.      *)
CancelAlways(n) ==
  /\ op[n].at = "cancel"
  /\ update = None
  /\ op' = [op EXCEPT ![n] = Free]
  /\ server' = [server EXCEPT ![n] = IF @ = "removing" /\ Rows(n) = {}
                                       THEN "registered" ELSE @]
  /\ PanelOnly
  /\ UNCHANGED <<history, outbox, tasks, admission, update, batch, requests>>

(* CancelUnstartedNodeServerRemoval, if this attempt set the mark and the  *)
(* host said that an update is active.                                     *)
Cancel(n) ==
  /\ op[n].at = "cancel"
  /\ update = None
  /\ op' = [op EXCEPT ![n] = Free]
  /\ server' = [server EXCEPT ![n] = IF op[n].fresh /\ @ = "removing" /\ Rows(n) = {}
                                       THEN "registered" ELSE @]
  /\ PanelOnly
  /\ UNCHANGED <<history, outbox, tasks, admission, update, batch, requests>>

Item(n) == [node |-> n, mode |-> op[n].mode, receipt |-> op[n].receipt]

(* Seeded fault: the rows are deleted before the call is answered.         *)
CompleteEarly(n) ==
  /\ op[n].at \in {"remove", "complete"}
  /\ update = None
  /\ server[n] = "removing"
  /\ server' = [server EXCEPT ![n] = "uninstalled"]
  /\ history' = [history EXCEPT ![n] = @ /\ op[n].mode # "purge"]
  /\ tasks' = tasks \ {n}
  /\ outbox' = outbox \cup {Item(n)}
  /\ op' = [op EXCEPT ![n].at = "finalize"]
  /\ PanelOnly
  /\ UNCHANGED <<admission, update, batch, requests>>

(* CompleteNodeServerRemoval: rows, registration and outbox in one         *)
(* transaction, with what the receipt was given for.                       *)
Complete(n) ==
  /\ op[n].at = "complete"
  /\ update = None
  /\ server[n] = "removing"
  /\ server' = [server EXCEPT ![n] = "uninstalled"]
  /\ history' = [history EXCEPT ![n] = @ /\ op[n].mode # "purge"]
  /\ tasks' = IF op[n].mode = "purge" THEN tasks \ {n} ELSE tasks
  /\ outbox' = outbox \cup {Item(n)}
  /\ op' = [op EXCEPT ![n].at = "finalize"]
  /\ PanelOnly
  /\ UNCHANGED <<admission, update, batch, requests>>

(* finishRemovalCleanup: the row is looked up again, as a deletion may have *)
(* discarded it; a host that cannot be reached is tried at the next pass.  *)
Finalize(n) ==
  /\ op[n].at = "finalize"
  /\ op' = [op EXCEPT ![n] = Free]
  /\ \/ /\ Item(n) \in outbox
        /\ finals' = finals \cup {Item(n)}
        /\ UNCHANGED faults
     \/ /\ Item(n) \notin outbox
        /\ UNCHANGED <<finals, faults>>
     \/ Happens("lost", MaxLost) /\ UNCHANGED finals
  /\ UNCHANGED <<database, admission, update, batch, host, requests, updates,
                 touched, superseded>>

(* deleteNodeServer: a Web-only action, whatever the host is doing.        *)
DeleteRecords(n) ==
  /\ op[n] = Free
  /\ update = None
  /\ server[n] \in {"registered", "removing"}
  /\ server' = [server EXCEPT ![n] = "forgotten"]
  /\ history' = [history EXCEPT ![n] = FALSE]
  /\ tasks' = tasks \ {n}
  /\ outbox' = outbox \ Rows(n)
  /\ PanelOnly
  /\ UNCHANGED <<memory, requests>>

(* InitNodeRemovalFinalizer: every 30 s the rows (at most 50), one after   *)
(* the other; a node whose mutex is taken is left for the next pass.       *)
FinalizerReads ==
  /\ batch = {}
  /\ batch' = outbox
  /\ outbox # {}
  /\ PanelOnly
  /\ UNCHANGED <<database, op, admission, update, requests>>

FinalizerTakes ==
  \E item \in batch :
    /\ batch' = batch \ {item}
    /\ op' = IF op[item.node] = Free
               THEN [op EXCEPT ![item.node] = [at |-> "finalize", mode |-> item.mode,
                                               fresh |-> FALSE, receipt |-> item.receipt]]
               ELSE op
    /\ PanelOnly
    /\ UNCHANGED <<database, admission, update, requests>>

(* startNodeContainerUpdate, up to its call; it gives up after 5 s with    *)
(* the request possibly still on its way.                                  *)
RequestUpdate(n) ==
  /\ admission = None
  /\ server[n] = "registered"
  /\ n \notin tasks
  /\ admission' = n
  /\ update' = n
  /\ updates' = updates \cup {n}
  /\ UNCHANGED <<database, op, batch, host, requests, finals, past>>

UpdateAnswered(n) ==
  /\ update = n
  /\ admission' = None
  /\ update' = None
  /\ \/ n \notin updates /\ UNCHANGED <<updates, faults>>
     \/ n \in updates /\ Happens("lost", MaxLost) /\ updates' \in {updates, updates \ {n}}
  /\ UNCHANGED <<database, op, batch, host, requests, finals, touched, superseded>>

(* Seeded fault: a task is created without the admission lock.             *)
CreateTaskUnlocked(n) ==
  /\ server[n] = "registered"
  /\ service[n] = "up" /\ ~job[n]
  /\ n \notin tasks
  /\ tasks' = tasks \cup {n}
  /\ PanelOnly
  /\ UNCHANGED <<server, history, outbox, memory, requests>>

(* createKernelTask: rows are written under the same admission, after an   *)
(* inventory that shows no job.  KernelTask has the rest.                  *)
CreateTask(n) ==
  /\ admission = None
  /\ update = None
  /\ server[n] = "registered"
  /\ service[n] = "up" /\ ~job[n]
  /\ n \notin tasks
  /\ tasks' = tasks \cup {n}
  /\ PanelOnly
  /\ UNCHANGED <<server, history, outbox, memory, requests>>

TaskEnds(n) ==
  /\ n \in tasks
  /\ tasks' = tasks \ {n}
  /\ PanelOnly
  /\ UNCHANGED <<server, history, outbox, memory, requests>>

(* Locks, goroutines and unanswered calls are gone; the rows stay.         *)
PanelCrashes ==
  /\ Happens("panel", MaxPanelCrashes)
  /\ op' = [n \in Node |-> Free]
  /\ admission' = None
  /\ update' = None
  /\ batch' = {}
  /\ requests' = {[call EXCEPT !.live = FALSE] : call \in requests}
  /\ serving' = [n \in Node |-> IF serving[n] = None THEN None
                                ELSE [serving[n] EXCEPT !.live = FALSE]]
  /\ UNCHANGED <<database, installed, job, product, result, callback, cleanup,
                 service, loop, updates, finals, touched, superseded>>

-----------------------------------------------------------------------------
(* The host: s.mu serves one request at a time.                            *)
HostOnly == UNCHANGED <<database, admission, update, batch, superseded>>

(* The panel takes an answer if it still waits for that very call.         *)
Reply(call, at, receipt) ==
  op' = IF call.live
          THEN [op EXCEPT ![call.node].at = at, ![call.node].receipt = receipt]
          ELSE op

ReplyError(call) == op' = IF call.live THEN [op EXCEPT ![call.node] = Free] ELSE op

(* A removal that was done before is answered with its receipt; with the   *)
(* other mode, or after the cleanup, it is a conflict.                     *)
AnswerAgain(call) ==
  LET n == call.node IN
  /\ service[n] = "up"
  /\ result[n] # None
  /\ requests' = requests \ {call}
  /\ IF cleanup[n] = "none" /\ call.mode = result[n].mode
       THEN Reply(call, "complete", result[n].receipt)
       ELSE ReplyError(call)
  /\ HostOnly
  /\ UNCHANGED <<host, updates, finals, faults, touched>>

(* 409 container_update_active: a job, or somebody has the product lock.   *)
RefuseRemoval(call) ==
  LET n == call.node IN
  /\ service[n] = "up"
  /\ result[n] = None
  /\ job[n] \/ product[n] # "free"
  /\ requests' = requests \ {call}
  /\ Reply(call, "cancel", None)
  /\ HostOnly
  /\ UNCHANGED <<host, updates, finals, faults, touched>>

(* A host that is down, erased or cannot read its state answers no better. *)
FailRemoval(call) ==
  /\ service[call.node] \notin {"executing", "executed"}
  /\ service[call.node] = "up" => Happens("lost", MaxLost)
  /\ service[call.node] = "down" => UNCHANGED faults
  /\ requests' = requests \ {call}
  /\ ReplyError(call)
  /\ HostOnly
  /\ UNCHANGED <<host, updates, finals, touched>>

BeginExecute(call) ==
  LET n == call.node IN
  /\ service[n] = "up"
  /\ result[n] = None
  /\ ~job[n]
  /\ product[n] = "free"
  /\ product' = [product EXCEPT ![n] = "held"]
  /\ service' = [service EXCEPT ![n] = "executing"]
  /\ serving' = [serving EXCEPT ![n] = [mode |-> call.mode, live |-> call.live]]
  /\ requests' = requests \ {call}
  /\ touched' = touched \cup {n}
  /\ HostOnly
  /\ UNCHANGED <<op, installed, job, result, callback, cleanup, loop, updates,
                 finals, faults>>

Answered(n) == [node |-> n, mode |-> serving[n].mode, live |-> serving[n].live]

Executed(n) ==
  /\ service[n] = "executing"
  /\ installed' = [installed EXCEPT ![n] = FALSE]
  /\ service' = [service EXCEPT ![n] = "executed"]
  /\ HostOnly
  /\ UNCHANGED <<op, job, product, result, callback, cleanup, serving, loop,
                 network, faults, touched>>

(* uninstall.sh failed, perhaps in the middle, or the receipt could not be *)
(* written: 500, and the product lock is given back.                       *)
ExecuteFails(n) ==
  /\ service[n] \in {"executing", "executed"}
  /\ Happens("lost", MaxLost)
  /\ service' = [service EXCEPT ![n] = "up"]
  /\ product' = [product EXCEPT ![n] = "free"]
  /\ serving' = [serving EXCEPT ![n] = None]
  /\ ReplyError(Answered(n))
  /\ HostOnly
  /\ UNCHANGED <<installed, job, result, callback, cleanup, loop, network, touched>>

(* result.json is written before the answer goes out.                      *)
SaveReceipt(n) ==
  /\ service[n] = "executed"
  /\ \E r \in Receipt :
       /\ result' = [result EXCEPT ![n] = [mode |-> serving[n].mode, receipt |-> r]]
       /\ Reply(Answered(n), "complete", r)
  /\ service' = [service EXCEPT ![n] = "up"]
  /\ product' = [product EXCEPT ![n] = "free"]
  /\ serving' = [serving EXCEPT ![n] = None]
  /\ HostOnly
  /\ UNCHANGED <<installed, job, callback, cleanup, loop, network, faults, touched>>

Matches(item) ==
  LET r == result[item.node] IN r # None /\ r.receipt = item.receipt /\ r.mode = item.mode

(* /finalize: finalize.json, then the loop.                                *)
ServeFinalize(item) ==
  LET n == item.node IN
  /\ finals' = finals \ {item}
  /\ IF service[n] = "up" /\ cleanup[n] = "none" /\ Matches(item)
       THEN /\ callback' = [callback EXCEPT ![n] = TRUE]
            /\ loop' = [loop EXCEPT ![n] = IF @ = "off" THEN "calling" ELSE @]
       ELSE /\ service[n] \in {"up", "down"}
            /\ UNCHANGED <<callback, loop>>
  /\ HostOnly
  /\ UNCHANGED <<op, installed, job, product, result, cleanup, service, serving,
                 requests, updates, faults, touched>>

(* /container/update: a removal in progress or done refuses it.            *)
ServeUpdate(n) ==
  /\ n \in updates
  /\ service[n] \notin {"executing", "executed"}
  /\ updates' = updates \ {n}
  /\ job' = [job EXCEPT ![n] = @ \/ (/\ service[n] = "up"
                                     /\ result[n] = None
                                     /\ product[n] = "free")]
  /\ HostOnly
  /\ UNCHANGED <<op, installed, product, result, callback, cleanup, service,
                 serving, loop, requests, finals, faults, touched>>

JobEnds(n) ==
  /\ job[n]
  /\ job' = [job EXCEPT ![n] = FALSE]
  /\ HostOnly
  /\ UNCHANGED <<op, installed, product, result, callback, cleanup, service,
                 serving, loop, network, faults, touched>>

(* Seeded fault: the loop erases the host without waiting for the 204.     *)
CallbackIgnored(n) ==
  /\ service[n] = "up"
  /\ loop[n] = "calling"
  /\ loop' = [loop EXCEPT ![n] = "acked"]
  /\ HostOnly
  /\ UNCHANGED <<op, installed, job, product, result, callback, cleanup, service,
                 serving, network, faults, touched>>

(* finalizationLoop calls the panel; CompleteHostRemoval deletes the row   *)
(* with this receipt, and a missing row is a success as well.              *)
OutboxWithout(n, r) == {item \in outbox : item.node # n \/ item.receipt # r}

Callback(n) ==
  /\ service[n] = "up"
  /\ loop[n] = "calling"
  /\ cleanup[n] \in {"none", "marked", "erased"}
  /\ LET r == result[n].receipt
         accepted == \A item \in Rows(n) : item.receipt = r
     IN  /\ outbox' = OutboxWithout(n, r)
         /\ \/ accepted /\ loop' = [loop EXCEPT ![n] = "acked"] /\ UNCHANGED faults
            \/ Happens("lost", MaxLost) /\ UNCHANGED loop
  /\ UNCHANGED <<server, history, tasks, memory, installed, job, product, result,
                 callback, cleanup, service, serving, network, touched, superseded>>

(* cleanupMaintenance: the marker, then the directory with keys and        *)
(* receipt, then library and unit.  It is run by the loop under s.mu, and  *)
(* by a program that finds the marker when it starts.                      *)
NextCleanup(n) ==
  CASE cleanup[n] = "none" -> "marked"
    [] cleanup[n] = "marked" -> "erased"
    [] OTHER -> "gone"

CleanupStep(n) ==
  /\ \/ service[n] = "up" /\ loop[n] = "acked"
     \/ service[n] = "down" /\ cleanup[n] \in {"marked", "erased"}
  /\ cleanup[n] # "gone"
  /\ cleanup' = [cleanup EXCEPT ![n] = NextCleanup(n)]
  /\ callback' = [callback EXCEPT ![n] = @ /\ cleanup'[n] \in {"none", "marked"}]
  /\ IF cleanup'[n] = "gone"
       THEN /\ service' = [service EXCEPT ![n] = "down"]
            /\ loop' = [loop EXCEPT ![n] = "off"]
            /\ result' = [result EXCEPT ![n] = None]
       ELSE UNCHANGED <<service, loop, result>>
  /\ HostOnly
  /\ UNCHANGED <<op, installed, job, product, serving, network, faults, touched>>

(* A step of it failed: the loop calls back and tries again.               *)
CleanupFails(n) ==
  /\ service[n] = "up"
  /\ loop[n] = "acked"
  /\ Happens("lost", MaxLost)
  /\ loop' = [loop EXCEPT ![n] = "calling"]
  /\ HostOnly
  /\ UNCHANGED <<op, installed, job, product, result, callback, cleanup, service,
                 serving, network, touched>>

(* The service is killed, or the machine loses power: a product lock it    *)
(* held stays behind, what is in its directory survives.                   *)
ServiceDies(n) ==
  /\ service[n] # "down"
  /\ Happens("service", MaxServiceCrashes)
  /\ service' = [service EXCEPT ![n] = "down"]
  /\ product' = [product EXCEPT ![n] = IF @ = "held" THEN "stale" ELSE @]
  /\ op' = IF serving[n] # None /\ serving[n].live THEN [op EXCEPT ![n] = Free] ELSE op
  /\ serving' = [serving EXCEPT ![n] = None]
  /\ loop' = [loop EXCEPT ![n] = "off"]
  /\ result' = [result EXCEPT ![n] = IF cleanup[n] = "erased" THEN None ELSE @]
  /\ HostOnly
  /\ UNCHANGED <<installed, job, callback, cleanup, network, touched>>

(* Seeded fault: the saved finalization is not resumed.                    *)
ServiceBootsIdle(n) ==
  /\ service[n] = "down"
  /\ cleanup[n] = "none"
  /\ service' = [service EXCEPT ![n] = "up"]
  /\ HostOnly
  /\ UNCHANGED <<op, installed, job, product, result, callback, cleanup, serving,
                 loop, network, faults, touched>>

(* New and Run: receipt and finalization are loaded and resumed.           *)
ServiceBoots(n) ==
  /\ service[n] = "down"
  /\ cleanup[n] = "none"
  /\ service' = [service EXCEPT ![n] = "up"]
  /\ loop' = [loop EXCEPT ![n] = IF callback[n] THEN "calling" ELSE "off"]
  /\ HostOnly
  /\ UNCHANGED <<op, installed, job, product, result, callback, cleanup, serving,
                 network, faults, touched>>

(* An operator removes a stale lock directory, as the documentation says.  *)
ClearLock(n) ==
  /\ product[n] = "stale"
  /\ Happens("repair", MaxRepairs)
  /\ product' = [product EXCEPT ![n] = "free"]
  /\ HostOnly
  /\ UNCHANGED <<op, installed, job, result, callback, cleanup, service, serving,
                 loop, network, touched>>

(* install.sh by hand on the same host: a fresh installation, for this or  *)
(* another registration, supersedes any receipt.                           *)
Reinstall(n) ==
  /\ service[n] \in {"up", "down"}
  /\ ~job[n]
  /\ Happens("repair", MaxRepairs)
  /\ installed' = [installed EXCEPT ![n] = TRUE]
  /\ result' = [result EXCEPT ![n] = None]
  /\ callback' = [callback EXCEPT ![n] = FALSE]
  /\ cleanup' = [cleanup EXCEPT ![n] = "none"]
  /\ service' = [service EXCEPT ![n] = "up"]
  /\ loop' = [loop EXCEPT ![n] = "off"]
  /\ touched' = touched \ {n}
  /\ superseded' = superseded \cup {n}
  /\ UNCHANGED <<database, memory, job, product, serving, network>>

-----------------------------------------------------------------------------
PanelStep(n) ==
  \/ \E m \in Mode : Uninstall(n, m)
  \/ PreflightPasses(n) \/ PreflightRefuses(n)
  \/ Begin(n) \/ BeginRefused(n)
  \/ GivesUp(n) \/ Cancel(n) \/ Complete(n) \/ Finalize(n)
  \/ DeleteRecords(n)
  \/ RequestUpdate(n) \/ UpdateAnswered(n)
  \/ CreateTask(n) \/ TaskEnds(n)

Serve ==
  \/ \E call \in requests : \/ AnswerAgain(call) \/ RefuseRemoval(call)
                            \/ FailRemoval(call) \/ BeginExecute(call)
  \/ \E item \in finals : ServeFinalize(item)

HostStep(n) ==
  \/ Executed(n) \/ ExecuteFails(n) \/ SaveReceipt(n)
  \/ ServeUpdate(n) \/ JobEnds(n)
  \/ Callback(n) \/ CleanupStep(n) \/ CleanupFails(n)
  \/ ServiceDies(n) \/ ServiceBoots(n)
  \/ ClearLock(n) \/ Reinstall(n)

Next ==
  \/ \E n \in Node : PanelStep(n) \/ HostStep(n)
  \/ Serve
  \/ FinalizerReads \/ FinalizerTakes
  \/ PanelCrashes

Spec == Init /\ [][Next]_vars

(* The panel's goroutines run and its calls have deadlines; systemd starts *)
(* a service that failed; requests that were sent are served or lost.      *)
Fairness ==
  /\ \A n \in Node :
       /\ WF_vars(PreflightPasses(n) \/ PreflightRefuses(n) \/ Begin(n)
                  \/ BeginRefused(n) \/ Cancel(n) \/ Complete(n) \/ Finalize(n))
       /\ WF_vars(UpdateAnswered(n))
       /\ WF_vars(ServeUpdate(n))
       /\ WF_vars(Executed(n) \/ SaveReceipt(n))
       /\ WF_vars(Callback(n))
       /\ WF_vars(CleanupStep(n))
       /\ WF_vars(ServiceBoots(n))
  /\ WF_vars(Serve)
  /\ WF_vars(FinalizerReads) /\ WF_vars(FinalizerTakes)

FairSpec == Spec /\ Fairness

-----------------------------------------------------------------------------
Outbox == [node : Node, mode : Mode, receipt : Receipt]

Operation ==
  [at : {"free", "preflight", "begin", "remove", "cancel", "complete", "finalize"},
   mode : Mode \cup {None}, fresh : BOOLEAN, receipt : Receipt \cup {None}]

(* The type invariant of the panel's rows and memory, the hosts and the    *)
(* network: what an operation needs at a step it has by then.              *)
TypeOK ==
  /\ server \in [Node -> Registration] /\ history \in [Node -> BOOLEAN]
  /\ tasks \subseteq Node /\ outbox \subseteq Outbox
  /\ op \in [Node -> Operation]
  /\ \A n \in Node :
       /\ op[n].at # "free" => op[n].mode \in Mode
       /\ op[n].at \in {"complete", "finalize"} => op[n].receipt \in Receipt
  /\ admission \in Node \cup {None} /\ update \in Node \cup {None} /\ batch \subseteq Outbox
  /\ installed \in [Node -> BOOLEAN] /\ job \in [Node -> BOOLEAN]
  /\ callback \in [Node -> BOOLEAN]
  /\ product \in [Node -> {"free", "held", "stale"}]
  /\ cleanup \in [Node -> {"none", "marked", "erased", "gone"}]
  /\ service \in [Node -> {"up", "executing", "executed", "down"}]
  /\ loop \in [Node -> {"off", "calling", "acked"}]
  /\ result \in [Node -> [mode : Mode, receipt : Receipt] \cup {None}]
  /\ serving \in [Node -> [mode : Mode, live : BOOLEAN] \cup {None}]
  /\ \A n \in Node : service[n] \in {"executing", "executed"} <=> serving[n] # None
  /\ requests \subseteq [node : Node, mode : Mode, live : BOOLEAN]
  /\ updates \subseteq Node /\ finals \subseteq Outbox
  /\ faults \in [{"panel", "service", "lost", "repair"} -> Nat]
  /\ touched \subseteq Node /\ superseded \subseteq Node

(* A registration that uninstallNodeServer deleted belongs to a host that  *)
(* was removed, in the mode its rows were deleted for, unless somebody has *)
(* installed it again.                                                     *)
DeletedOnlyAfterUninstall ==
  \A n \in Node \ superseded :
    server[n] = "uninstalled" =>
      /\ ~installed[n]
      /\ result[n] # None => history[n] = (result[n].mode = "keep")

(* While the outbox has a row the host keeps what the row needs: receipt   *)
(* and channel are erased only after the panel's callback handler has      *)
(* deleted the row.                                                        *)
ReceiptOutlivesOutbox ==
  \A item \in outbox :
    item.node \notin superseded => Matches(item) /\ cleanup[item.node] = "none"

(* A registration is usable again only if its host was never touched: the  *)
(* mark is reset by the attempt that set it and on a refusal alone.        *)
UsableMeansUntouched ==
  \A n \in Node : server[n] = "registered" => n \notin touched

(* While a container update is being requested the node has neither kernel *)
(* task items nor a removal mark, although neither the task's nor the      *)
(* removal's preflight lasts until its commit.                             *)
UpdateRequestIsAlone ==
  update # None => update \notin tasks /\ server[update] = "registered"

(* Every row of the outbox is cleared and its host erased, whatever single *)
(* crash or loss comes between, if nobody installs the host again.         *)
CleanupCompletes ==
  \A n \in Node :
    Rows(n) # {} ~> (Rows(n) = {} /\ cleanup[n] = "gone") \/ n \in superseded
=============================================================================
