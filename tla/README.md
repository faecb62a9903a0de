# TLA+ models of Trojan Panel Next

Trojan Panel Next is a control panel for proxy servers. A **panel** (Go API,
MariaDB, Redis, a Vue page) manages **nodes**; on each node a container runs the
**agent** (gRPC, SQLite, Redis) and the proxy processes, and the host runs a small
**maintenance service** and shell scripts that replace or remove the container.

These modules model the parts of it whose correctness depends on the order of
events: versioned kernels that are switched, observed and rolled back; container
updates and removals that must not meet them; the panel's tasks that drive all of it
over an unreliable network; the rows, calls and locks behind a node; the authority
that both sides trust; the proxies and users each node serves; and the panel's own
process, with its schema, its accounts and its files.

- `KernelManager` - the agent's kernel version manager
- `HostMaintenance` - the host service, its update workers, `update.sh`, `uninstall.sh`
- `NodeAdmission` - the abstract contract that these two implement
- `KernelTask` - the panel's kernel upgrade tasks, with removals and restarts
- `NodeRemoval` - uninstalling a node: the panel's flag and outbox, the host's receipt
- `NodeRegistry` - creating, editing, moving and deleting nodes on servers that move and go
- `CertificateRotation` - the panel's mutual-TLS authority and its replacement
- `AgentProxies` - the proxy processes of a node and the traffic quota
- `UserSync` - the users of a proxy instance and the traffic that is charged to them
- `PanelStart` - a start of the panel: configuration files, import of the schema, migrations
- `PanelAccounts` - account rows, the requests and the scan that write them, cached settings
- `FileTasks` - exports and imports that a goroutine does, and their deletion
- `PanelHost` - the panel's process: the last three together, and its death at any time
- `*_proofs` - theorems about the module of the same name (eight modules; `NodeAgent_proofs` is
  about `AgentProxies` and `UserSync`)
- `MC*` and `*.cfg` - the instances TLC checks

Source paths below are relative to `src/apps` or `src/scripts` as the context says;
`PROJECT.json` maps every definition to its lines.

## 1. Inventory

### 1.1 Node agent: kernel version manager
`apps/node-agent/kernel/{manager,process_lifecycle,maintenance}.go`

*State.* `operations` and `idempotency` (memory, under `mu`), `operations/<id>.json`,
one mutex per kernel, `versions/<v>/metadata.json` (installed, successful), the
`current` link, the running instances, the marker `container-update.json` and the
flock `maintenance.lock` (shared with the host).
*Operations.* `Start`, `run` (download, verify, publish or validate, preflight,
switch, restart, observe, mark, prune, finish; rollback), `loadOperations`.
*Hard.* A goroutine per operation; every stage is saved and the error of the write
is dropped; a crash falls between any two writes; the panel repeats requests.
*Correct when* the link never dangles, a rollback restores what was live, a key is
one operation, outcomes are final, every operation ends, and no operation runs
beside a container update.

### 1.2 Node host maintenance
`apps/node-agent/hostagent/{container,server}.go`, `cmd/host-agent`,
`scripts/deploy/{update,uninstall}.sh`

*State.* `update.json` and the marker (two files, written one after the other),
`maintenance.lock`, the product lock directory, systemd units, the containers,
removal receipts.
*Operations.* inventory/update/remove/finalize requests, `RecoverUpdate`,
`RunUpdate` in a unit of its own, the scripts with their exit traps.
*Hard.* Five programs that communicate by files and locks; each may be killed
anywhere; `update.sh` stops the service that may be serving a removal.
*Correct when* updates, removals and kernel operations exclude one another, the
marker covers every moment in which containers are in pieces, and it is released.

### 1.3 Panel: kernel upgrade tasks
`apps/control-plane/api/service/kernel_upgrade.go`, `dao/kernel_upgrade.go`

*State.* rows of `kernel_upgrade_task(_item)`, `nodeMaintenanceAdmission`, a mutex per
node, a lifecycle lock, and the goroutines' copies of the rows.
*Operations.* create, retry, run (canary first, then three at a time), execute,
poll, refresh, recover at start, clean-up after 60 days.
*Hard.* Goroutines write whole rows from copies; errors of writes are dropped;
restarts re-run rows; servers are uninstalled or deleted meanwhile.
*Correct when* one goroutine works on a row, an attempt starts one operation, a
result is what the node did, every row gets one, the canary gates the others, and
no node is uninstalled under a task.

### 1.4 Panel: node removal and container update requests
`service/{node_removal,node_container}.go`, `dao/{node_removal,node_container}.go`,
`core/host_{removal,container}.go` - module `NodeRemoval`

*State.* `node_server.removing`, the outbox `node_removal_cleanup`, the host's `result.json`
and `finalize.json`.
*Hard.* A finalizer, the node's own finalization loop and a callback repeat and
cross one another; every call may be lost or served after its caller gave up.
*Correct when* a registration disappears only after the host is gone, a cancelled one
is usable because nothing was touched, and a receipt is kept until both sides have
seen it.

### 1.5 Panel: nodes and node servers
`service/{node,node_server,node_xray,...}.go`, `dao/{node,node_server,node_*}.go` -
module `NodeRegistry`

*State.* the tables `node`, `node_server` and a sub-table per node type; Redis locks named
after the operation; `nodeLifecycle`, a readers-writer lock; the proxies on the hosts.
*Hard.* One edit is two calls to hosts, whose answers nobody looks at, and up to three
statements without a common transaction; locks of different names do not exclude
each other; a removal waits for the readers of `nodeLifecycle` and keeps new ones out.
*Correct when* rows and sub-tables agree, a host runs what its rows say, nothing starts
on a host whose removal has begun, and nobody waits for ever.

### 1.6 Panel: certificates and PKI rotation
`pki/manager.go`, `service/certificate.go` - module `CertificateRotation`

*State.* the authority's directory of generations, `state.json`, the exported bundle; the
trust file of each node.
*Hard.* files and directories change one after the other; nodes enrol, are rebound and
fail during a rotation that needs all of them.
*Correct when* a restart always finds an authority it can open, the identity moves only
to a CA that the nodes have accepted, and a rotation ends.

### 1.7 Node agent: process supervisor, traffic quota, account synchronisation
`core/process/*.go`, `app/{app,traffic_quota}.go`, `app/*/`, `dao/account.go` - modules
`AgentProxies` and `UserSync`

*State.* a map from API port to child process, one mutex used with `TryLock`, configuration
files and SQLite rows, the quota; users of each instance, traffic counters.
*Hard.* `Stop` defers `Unlock` before it tries the lock; the quota's check and the
start it allows are separate; passes overlap, delete users by an index read before, and
restarts bring back old lists; counters are reset when they are read.
*Correct when* no proxy goes on above its quota and every configured one comes back below
it, an instance ends up with exactly the valid accounts, and no traffic is charged twice.
The Redis copy of the configuration rows (`service/node_config.go`) is not modelled.

### 1.8 Panel: its process
`main.go`, `core/config.go`, `dao/mysql.go` - module `PanelStart`; `service/{account,system}.go`,
`dao/account.go` - `PanelAccounts`; `service/{account_backup,file_task}.go`, `dao/file_task.go` -
`FileTasks`; all three in `PanelHost`

*State.* `config.ini` and templates, the tables and what the migrations have changed in them,
the traffic history in its old and new tables; account rows; locks of eight seconds and the
copy of the settings in Redis; `file_task` rows, their goroutines, exported files.
*Operations.* a start, every request that writes an account or the settings, the scan of each
minute, exports, imports and deletions of files.
*Hard.* Nothing is a transaction: a start, a request and a goroutine may end after any
statement; names are looked up in one statement and used in the next; each operation has a lock
of its own; agents of a newer release use the database while it is migrated.
*Correct when* a start that was interrupted is made good by a later one, history is copied once,
no disabled account keeps quota, a credential belongs to the name in its row, the cached
setting is the stored one, and what shows success can be downloaded.

### 1.9 The rest
Roles, subscriptions, statistics pages, mail, the black list, deployment tokens, the HTTP API
with its middleware, the release cache, the web page, the installer and the documentation site
keep little control state (single statements, formatting, routing). They are listed in
`PROJECT.json` as partly or not modelled.

### 1.10 How the parts interact

```
 web page --HTTP--> panel --gRPC (Start/Get operation)--------> agent
                      |                                          |  files: operations/*.json,
                      |                                          |  container-update.json,
                      |                                          |  flock maintenance.lock
                      +--HTTPS (inventory/update/remove)-----> host service
                                                                 | systemd-run
                                                               worker -> update.sh
                                        operator by hand ----> update.sh, uninstall.sh
```

The agent and the host never call one another: they decide from each other's files
under one flock. `NodeAdmission` is that relation and nothing else. The panel sees
an operation only through `Start` and `Get`; `KernelTask` keeps of the node what these
two can tell apart (per key: no operation, active, an outcome).

## 2. Hazards
`PROJECT.json` lists each with its line. The groups:

- *stale state*: `FromVersion` is read at admission and used minutes later; a retry's
  choice of rows is older than its reset; a rotation pass lists the nodes once; a user is
  deleted by an index; a restart starts from a snapshot; a cache is filled after a deletion or
  with a setting that has changed; a form brings the name an account had.
- *crash between two writes*: any two steps of `run`; record and marker of `saveUpdate`;
  a row's stage and its result; generation, `state.json` and export; execution and receipt;
  the creation of a file and its content, two statements of an import or of two migrations.
- *dropped errors*: `finish`, `UpdateKernelTaskItem`, `RefreshKernelTaskStatus`, the answers of
  `GrpcAddNode` and `GrpcRemoveNode`.
- *checked, then done*: a name that is counted before it is inserted, names that are selected
  before their quota is taken, an export path that has the time in seconds.
- *several actors*: goroutines of one kernel, two runs of a task, update against
  removal against operation, a worker dying while its script restores, edits that cross
  deletions, an Unlock of a mutex somebody else holds, groups of accounts that delete one
  another's users.
- *unreliable calls*: a lost answer to `Start` or `/remove`, `systemd-run` timing out after the
  unit began, polling abandoned after 15 minutes, a meter read and reset for nobody.
- *waiting*: a writer that waits for readers while it keeps new ones out.
- *things that must end*: an operation, a row, an active marker, an outbox entry, a rotation.

## 3. Modules and code

### 3.1 KernelManager
One action per step of `run` between two points where another program, goroutine or
crash can be seen: `Acquire`, `Downloaded`, `Publish`/`Validate`, `BeginPreflight`,
`BeginSwitch`, `Switch`, `BeginRestart`, `Restarted`, `Observed`, `Prune`, `Succeed`,
`BeginRollback`, `SwitchBack`, `RestartedBack`, `RolledBack`, and the early returns
`Refuse` and `RollbackFailed`. `pc[id]` is where the goroutine stands, which the saved
`stage` is not: the link may already have moved while the file still says
`switching`. `Persist` has two outcomes, as the callers ignore its error. `Recover` is
one file of `loadOperations`, in any order, `Boot` the end of it.

Abstractions: a release is a version that can be downloaded or not (`Refuse` may
happen wherever the code returns an error); `Installed` stamps are a clock that
counts publications; `serving` is what the instances execute, `Down` if one is not
running; the host is `BeginUpdate`/`EndUpdate`, guarded by the files as the host's
check is. `before` is a history variable, the link at the moment the goroutine got
the mutex. The initial states are nodes with a history: any installed version may be
live. `Overlap` says whether the panel admits an operation on a kernel that
has an unfinished one; the agent itself does not forbid it.

### 3.2 HostMaintenance
`service`, `worker[j]`, `script[s]`, `uninstall` are the places where each program
stands; every place where it can die with a different mixture of files is one.
`ServiceLocks(t)` takes the flock for a request, `Reconcile`/`Mark` is
`reconcileUpdate` (record, then marker), `UpdateQueued`/`UpdateMarked`/`WorkerLaunched`
the admission of an update, `LaunchFailed` a `systemd-run` that failed or timed out after
the unit had started, `RemovalStarts`/`RemovalEnds` the removal. The worker's actions
are `RunUpdate`; `WorkerDies` ends the control group and lets the script's exit trap
run (`deactivating`), `UnitKilled` does not. The script's actions follow `update.sh`:
product lock, admission, stop of the service, stop of the container, deployment,
commit, and the trap `finish_update` (`ScriptFails`, `ScriptRestores`,
`ScriptCannotRestore`, `ClearMarker`). Images, health checks and file formats are outcomes.
The agent is its admission and the end of its operations: `KernelManager`
is the detailed view of it.

### 3.3 NodeAdmission
`active` (unfinished operations) and `updating`. `Admit` requires no update, `Begin` requires
no operation, `Settle` may end several at once (an agent that restarts). Both
components implement it: `KernelManager` with the unfinished files,
`HostMaintenance` with the unfinished operations and an active marker. It is the
place where the two models meet; what either assumes of the other
(`BeginUpdate` there, `AgentAdmits` here) is a step of the contract that the other one
is shown to keep.

### 3.4 KernelTask
`row` is the database, `copy[r][i]` the item as the goroutine of run `r` knows it,
`op[i][k]` the node's operation under the key of attempt `k`. Creation and retry are
requests under `nodeMaintenanceAdmission` (`request`) with a preflight between the look
and the commit; `Launch` is `go runKernelTask`. `Execute(r, i)` has one action per
statement of `executeKernelTaskItem` that another program can observe: mutex,
inventory, start, save, polls, and the four ways in which it gives up. `TurnedAway` is a
registration that is gone or a node that wants the operator's token, `StopsLooking` an
offline node or a time-out, `LosesAnswer` a started operation whose answer is lost.
`Crash`/`RecoverKernelTasks` is a panel restart. The four registry actions are what a
removal, its cancellation, its completion and a Web-only deletion do to these rows.

One task is modelled: tasks meet only in node mutexes, as the items of one node
and the runs of one task do here. A remote call is one step because it
holds the lifecycle lock for reading from the look to the answer.

### 3.5 NodeRemoval
The panel's side is `op[n]`: where the one operation that holds the node's removal mutex
stands (`Uninstall`, preflight, `Begin`, the call, `Cancel` or `Complete`, `Finalize`) with
what it knows: its mode, whether it set the flag itself (`fresh`), the receipt. `Withdraw` is
the Web-only deletion, `FinalizerReads`/`FinalizerTakes` the periodic finalizer over the
outbox. The host's side is the service (`BeginExecute`, `Executed`, `SaveReceipt`), the
callback loop and the cleanup that erases the receipt, the keys and the service itself,
one step per file that a restart looks at. A request is a record that may be served after its
caller has gone (`live` is false then). `UpdateAnswered`, `RequestUpdate`, `CreateTask` are the other
holders of `nodeMaintenanceAdmission`.

### 3.6 NodeRegistry
`req[r]` is a request with the rows and arguments it has read; `pc` names the call or
statement it has made last. `Removes`, `CreateAdds`, `UpdateAdds` are the calls to a host:
they may be lost, and they change `proxies` at the address that the request holds, not at the one the
server has by then. `Writes` is what a removal does under the write lock of `nodeLifecycle`
(begin, cancel, complete, forget); `writer` waiting keeps `RLock` closed, as Go's
`RWMutex` does. `excused` collects the hosts on which a call or a statement failed, requests
on one node crossed, or nodes were forgotten: what the rows say of those is not what runs there.
`Settings(i)` is the look-up of a sub-table's row by the id in the row of node `i`, and `HasURL(i)`
whether the code that builds URLs and subscriptions finds one (`service/node.go`).

### 3.7 CertificateRotation
One pass of the five-minute job, step by step: renewal, staging a successor, sweeping,
listing the nodes, an offer to each, activation and retirement (`at` is the place, `then`
where it goes after a commit). `Store` writes a generation, `Commit` `state.json` and then
the export; a `Crash` falls anywhere and `Open` is what the next start accepts. Time is what
the code compares: a leaf or a CA comes due, the grace ends. `Join` and `Leave` are
operators; nodes that come after the listing are `late`. A deployment package (`DownloadPackage`) is
built for a registered mTLS node from the exported bundle, if all of it is valid
(`ReadDeploymentCA`). The operators keep one (`package`, a bound), of any day; a host that is
installed from it, perhaps passes later, trusts its CAs from then on (`InstallPackage`).

### 3.8 AgentProxies
Every goroutine that starts or stops an Xray instance goes through `TryLock`, then `Start` or
`Stop`, or is refused and runs the deferred `Unlock` - of a mutex that is not its own; a mutex
that is not locked ends the program, as in Go. What a goroutine does next depends on where
it came from (`Succeeds`, `Fails`): a panel's call, the agent's start, the quota's loop, a
kernel's replacement. An addition asks for the quota first, then writes the file and starts
(`AddNode`, `WriteConfig`, the supervisor), and inserts its row last. NaiveProxy instances have a lock that
is held throughout, so file and process are one step (`AddNaive`). `orphans` are children that live and are no longer in the
map. `Stop` kills what `IsRunning` saw and the map still holds, fails when what it saw has gone,
and reports success without killing when it saw nothing, as it may if another goroutine starts the instance
after an Unlock that was not its own. A configuration file is opened, which truncates it, and then written (`CreateConfig`,
`WriteConfig`): an addition that fails in between, or an agent that ends there, leaves it empty (`torn`).
Every start and every return from the quota parses the files first, for a migration
(`Migrates`), and starts nothing if one of them does not parse (`MigrationFails`).

### 3.9 UserSync
One instance of either kind, which `Xray` tells; the initial states have both. A pass is a goroutine per group (`CronHandlerUser`), which lists the users once and then deletes
and adds one by one; each deletion and addition is a look-up and a request. The panel
deletes accounts, disables them and gives quota beside it. `Collect` takes and resets the
counters, `Charge` adds them to account and total in one transaction. `spent` and `used` are
history variables, the traffic that really passed. NaiveProxy's users are a list whose entries are
deleted by position; Xray has no such list, only traffic counters that it creates with a
user's first connection and keeps when the user goes (`counter`), and the code takes a counter for
a user: it lists and looks up the counters, then adds or removes by name (`Listed`, `AddXrayUser`,
`RemoveXrayUser`).

### 3.10 PanelStart
`start` is the place of the process: the files (`CreateFile`, then `WriteFile`), the look for
any table (`Connect`), `Import` one statement after the other, and `Migration`, the migrations
in the order of `InitMySQL`, each with its own idea of what is no error: a column that exists, a table
that exists, a permission that is counted first. Everything else panics, and `Boot` is Docker's next
try. Tables that no migration touches, the columns of one series and the permissions of one loop are one
statement. `StartCrash` falls anywhere. `AgentCharges` is an agent of the new release on another host,
which charges as soon as its tables exist.

### 3.11 PanelAccounts
A request is a record with the place (`pc`) of its next statement and what it has read or was
given; `Asks` creates it, `Proceeds` and `Ends` are its ways on, `Fails` is a statement or call that
does not succeed and leaves the lock behind, as the code does. A credential is a pair of a name and a
password, which is all that a hash tells apart. `ScanSelects` and `ScanDisables` are the
two statements of `CronScanAccounts`. `AccountExpires`, `LockExpires` and `CacheExpires` are time.
`crossed` and `outdated` are history variables: the readers that hold a setting from before an update,
and whether the copy in Redis came from such a reader or survived an update that failed to drop it. The mark goes with the
copy, so that the exception it makes does not outlast what it excuses.

### 3.12 FileTasks
`task` is the table, `job` the goroutine of a row, `deletion` the request that deletes one, `saved`
the directory. Two exports of one second may have one path (`twice` remembers it).

### 3.13 PanelHost
The steps of the three modules, those of the last two while the process serves; `Crash` ends
it with all requests, goroutines and the scan. Database, Redis and files stay. Initially the database
is empty or one of the former release.

### 3.14 Seeded faults
Definitions whose comment begins with "Seeded fault" are not part of the model: each is
a variant of the definition that follows it with a mistake that could have been made in
the code (a dropped guard, a lost Unlock, a swapped choice). `PROJECT.json` pairs each
with the property that must fail when it takes that definition's place, so that every
checked property is known to be able to fail.

## 4. The runs

All runs set `CHECK_DEADLOCK FALSE`: operations, jobs, attempts and faults are bounded,
and with all of them used up the system rests. Symmetry is used for identifiers
that are random or opaque in the code, and only where no liveness is checked.

| run | question | bounds |
|---|---|---|
| `kernel_serial` | With one unfinished operation per kernel and no lost write: does a rollback restore what was live, does recovery undo only what it settles, is an unobserved live version reported? | 1 kernel, 3 versions (2 installed), 2 operations, 2 restarts, keep 2 |
| `kernel_overlap` | With queued operations, a lost write and a restart: link, keys, finality, service, contract; and does every admitted operation end? | 2 versions, keep 1, 2 operations, 1 restart, 1 lost write |
| `host_safety` | Exclusion of updates and removals, cover of the marker, finality, contract | 2 jobs, 1 kernel operation, one death of each program |
| `host_liveness` | Is the marker of a job released whatever write a service crash follows? | 1 job, 1 crash of the service |
| `task_safety` | One goroutine per row, true results, an ended task has results and status, removal, canary | canary node and another (without mTLS), 2 attempts, 2 runs, 1 restart, 1 fault |
| `task_liveness` | Does every row get a result or disappear? | 2 kernels of one node, 2 attempts, 1 restart, retries at any time |
| `node_removal` | Deletion after uninstall, receipts, cancelled removals, update requests, and is every outbox row cleared? | 1 node, 2 receipts, 1 crash of each program, 1 lost or late call, 1 repair |
| `certificate_rotation` | Does the authority open, is nobody stranded, does the rotation end? | 2 nodes, 2 CAs, 4 generations, 1 package, 1 fault, 2 changes of the fleet (907,387 states) |
| `agent_proxies` | Do proxies stop above the quota and come back below it? | 2 Xray instances, one of them configured before, 1 NaiveProxy, 2 handlers, 2 events, 2 flips of the quota (416,915 states) |
| `user_sync` | Is traffic charged once, and does the list settle? | NaiveProxy or Xray, 2 accounts, 2 passes, 1 removal, 1 collector, quota 2, 3 events, one group (478,017 states) |
| `node_registry` | Do rows, sub-tables and proxies agree, does nothing start during a removal, does everybody get a turn? | 2 servers, 3 addresses, 2 ports, 2 types (one with a sub-table), 2 rows, 2 requests at a time, 3 in all, 1 fault (216,157 states) |
| `panel_host` | Does the panel come up with its history, do accounts lose quota and keep credentials, is the cached setting current, can exports be downloaded? | 2 rows, 2 names, 2 passwords, 2 requests at a time, 2 tasks, 2 paths, 2 crashes, `MaxLoad` 6 (191,952 states) |

Why the bounds are enough to be of interest. Two operations are the smallest number that
can overlap, queue behind one another, or have one recovered after the other succeeded;
three versions with a retention of two make `prune` remove something while current is
an old version. Kernels share nothing but the tables, so one is checked and
the theorems cover any number. Two restarts let recovery run on what recovery
wrote. Two jobs let the worker of a job that was recorded as failed meet its
successor. Two attempts give a row a second run and a second key; one lost write, lost
answer or unreachable node at any place covers each error path once. `Slots` is 1 or 2
for the code's 3, which is its order of magnitude against two or three items. Removals of
different nodes meet in nothing but the finalizer's batch and `nodeMaintenanceAdmission`; the
theorems are for any number. Four generations are current, pending, previous and one that a
crash left behind. Two handlers beside boot, quota and kernel give every pair of callers of
the `TryLock` mutex. Two accounts are a user and the one whose index it takes over. In
`node_registry`, `Grpc` has one port: an agent's port is a finding of its own (section 7). In
`panel_host`, what happens in a behaviour is weighed (`Bounded`), or three independent parts would
multiply: two crashes, or two account requests or faults, or three events of file tasks, or one of
one and one of another. Two crashes let a start meet what an interrupted start left of an
interrupted one; two requests are enough for every crossing of section 7; three file events are
two exports and a deletion, or an export, a failure and a deletion.

The older modules have a type invariant `TypeOK`, which is proved and not run. In
`PanelHost_proofs` and `CertificateRotation_proofs` types are part of the inductive invariants.
`UserSync`'s numbers have theirs in `Books`
(`NodeAgent_proofs`), its lists have none.

What some properties leave out, on purpose:

- `RollbackRestoresPrevious` and `RecoveryUndoesOnlyItsTarget` are checked without
  overlap and without lost writes. With overlap the first fails (section 7, 1);
  with a lost final write, recovery settles an operation that had succeeded and
  moves the link back - a consequence of `_ = m.persistLocked(op)`.
- `EndedTaskIsSettled` is about rows (`OverHasResult`) and the task's status (`StatusIsCurrent`).
  The first allows one restart. The answer to `Start` for an operation that has
  ended is its final stage; it is saved before the first poll writes a result, and a
  second restart at that point leaves a final row without one.
- `OneRunPerItem` is checked with retries as the web page offers them, once the task's
  status is `failed` or `partial`. A direct retry while the task runs can meet the row
  in the moment described above.
- `StatusIsCurrent` excludes restarts: a run that dies between its last row and
  its refresh leaves `running` behind.
- `CanaryGate` excludes restarts: recovery runs unfinished rows without the gate
  (`runKernelTask(taskId, 0, ...)`).
- `AdmissionReopens` considers crashes of the service. A worker that dies after its final
  record and before the marker leaves it `running` until the service starts again or
  another update is marked.
- `DeletedOnlyAfterUninstall` and the receipts' property leave out hosts that somebody has
  installed again (`superseded`): the new installation has a new service and no receipt.
- `NobodyIsStranded` and, proved only, `ActivatedIsAcknowledged` leave out nodes that came after the pass
  listed them (`late`); the next pass offers to them. `RotationCompletes` excuses an expired CA and
  a node that knows none of the panel's CAs: the code cannot help either.
- `QuotaStopsProxies` is about Xray's instances: NaiveProxy's are restarted above the quota
  (section 7). `ProxiesComeBack` excuses instances that a logged error has left
  down, and behaviours in which an empty configuration file stays (section 7).
- `ServedAsRegistered` is about hosts that are not `excused`, and `DetailsExist` about behaviours
  without a failed statement: neither the calls nor the statements are retried.
- `AccountsSettle` is checked with one group. With `GroupSize` 1 and two accounts it fails, as
  the code does with more than 50 (section 7). Of Xray it excepts users whose counter is missing
  or older than they are.
- `PanelComesUp` excepts a start that died between the creation of `config.ini` and its content, and an
  import of which some statements are done (`Damaged`). `HistoryComplete` excepts a charge that
  came before the copy (`early`), `CachedSettingIsCurrent` a copy that a reader stored
  who crossed an update, or that an update failed to drop, while that copy lasts (`outdated`), `DownloadsExist` paths given twice and files whose row could not be deleted,
  `CredentialsMatch` edits from a form older than a rename. Each exception of this run is a finding
  of section 7 (13 to 15, 19, 23, 26).

## 5. Fairness

- *Goroutines* (`Run(id)`, `RunTask`, `Execute`): weak. Every call in them ends, and the Go runtime schedules runnable goroutines; `sync.Mutex` hands a starving waiter the lock.
  Not every end is a deadline, though. Downloads have the HTTP client's two minutes, `Observe` a
  timer and a context of 60 s, polling 15 minutes, Hysteria2's preflight two seconds per file.
  `Restart` gets the same 60 s but ignores its context: it kills and starts children and *tries*
  locks, and waits for nothing. Xray's preflight has neither: `xray run -test` runs under a context
  without deadline (`context.WithoutCancel`, `kernel/manager.go:304`), and that it ends, because it
  reads a configuration and exits, is an assumption about Xray that the code does not enforce. If it
  hung, its operation would not settle and would keep the kernel's mutex; `AdmittedOperationSettles`
  and what rests on it (`Settles` below) hold under this assumption.
- *Restarts* (`Boot`, `Recover`, `AgentBoots`, `RecoverKernelTasks`, `ServiceLocks("recover")`):
  Docker's restart policy and systemd's `Restart=` start what died.
- *The flock* is polled every 20 or 50 ms without a queue, and held briefly: a program
  that keeps asking is assumed to get it, hence strong fairness for the worker and for
  the service's recovery. Requests from outside, crashes, faults, retries, removals and
  everything an operator does are not fair.
- *The node* (`Settles`): weak, which `AdmittedOperationSettles` of `KernelManager` justifies.
- `WorkerStep` and `ScriptStep` are fair as disjunctions, so a script may fail or succeed but
  does not stand still; deployments have their own time limits.
- *NodeRemoval*: weak for each goroutine of the panel (its calls have deadlines), for the
  service's own steps and restart, and for requests on the network, which are served or lost.
- *CertificateRotation*: weak for a pass - the cron job starts it every five minutes - and for the
  node's answer. Time need not pass.
- *AgentProxies*: weak per goroutine, for the agent's start, the quota's job every ten seconds and
  Docker's restart. Panel calls, exits and kernel operations are not fair.
- *UserSync*: weak for the cron jobs and each goroutine; strong for the restart of an instance
  that has exited, because a waiting writer of a Go `RWMutex` keeps new readers out.
- *NodeRegistry*: weak for each request and for the writer.
- *PanelHost*: weak for the steps of a start - Docker's restart policy (`install.sh`) repeats it -
  and for the scan that cron calls every minute. Requests, goroutines, charges, crashes and time are
  not fair.

## 6. What is proved

`KernelManager_proofs`, with TLAPS, for any sets of kernels, versions, keys and operations,
any retention, any number of restarts and of lost writes:

| theorem | statement |
|---|---|
| `TablesStayConsistent` | `Spec => []TableInv` (the inductive invariant) |
| `TypeCorrect` | `Spec => []TypeOK` |
| `KeysAreUsedOnce` | `Spec => []OneOperationPerKey` |
| `UpdatesAreExclusive` | `Spec => []UpdateExcludesOperations` |
| `OutcomesAreFinal` | `Spec => OutcomeIsFinal` |
| `LinkNeverDangles` | `Spec => []CurrentInstalled` |
| `KeepsContract` | `Spec => ImplementsContract` |
| `TurnsAreTaken` | `Spec => []Contract!TakingTurns` |
| `EndedOperationsAreServed` | `Spec => EndedOperationIsServed` |
| `OperationsAreAttended` | `Spec => []NobodyIsForgotten` |
| `UnprovenVersionsAreReported` | `~Overlap` implies `Spec => [](faults = 0 => UnprovenCurrentIsReported)` |
| `RollbacksRestoreThePrevious` | `~Overlap`, `MaxPersistFailures = 0` imply `Spec => RollbackRestoresPrevious` |
| `RecoveryUndoesItsOwn` | `~Overlap`, `MaxPersistFailures = 0` imply `Spec => RecoveryUndoesOnlyItsTarget` |

*Assumptions.* `ValuesDistinct` (the model values that stand for "none" differ from what
they are told apart from) and `BoundsAreNumbers` (`KeepVersions` is positive, the initial
ages are at most the clock). Nothing bounds the sets, and they need not be finite but for
what `Cardinality` means in `Kept`; no theorem depends on how many versions `prune` keeps.

*Argument.* No property is inductive by itself. `OneOperationPerKey` speaks of the files
while `Start` consults the memory, so it needs that both tables agree once the agent is
up (`TablesAgree`); `UpdateExcludesOperations` speaks of goroutines while the host reads
files, so it needs that a goroutine's operation is on disk and unfinished
(`LiveIsUnfinished`) and that an update found all files settled (`UpdateFindsAllSettled`).
`TableInv` is their conjunction with `TypeOK`. All eighteen steps of a goroutine change the
tables in one way (`Advance`: only its own entry, never its key, and it stays unfinished
unless the goroutine ends), which `RunAdvances` shows once; `AdvancePreserves` then needs no
case per step. `StartPreserves` and `RecoverPreserves` are the other two writers.
`OutcomesAreFinal` follows because a settled file has no goroutine and recovery is the
identity on it. `LinkNeverDangles` needs little of it beyond `TypeOK`: whoever moves the link looks at the
directory first, and `prune` keeps the current version. `KeepsContract` maps each action to
a step of `NodeAdmission`, `TurnsAreTaken` carries the contract's own invariant back.

`EndedOperationsAreServed` needs `Attended`: a goroutine that is past `Acquire` owns its kernel's
mutex (`Mutex`), so from its restart until its end nobody else moves that kernel's link or
instances (`Serves`). It holds with overlap, lost writes and crashes. `OperationsAreAttended` is what a
run can show of `AdmittedOperationSettles` without fairness: no operation without an outcome lacks a goroutine,
and no mutex is held by one that has ended.

Rollback and recovery are about one operation of a kernel at a time, as the panel admits them
(`~Overlap`). `Serial` says what then holds: the stage on disk is that of the goroutine's
place (`Placed`), memory is what is on disk (`Saved`), a kernel has one unfinished operation (`Single`),
the link is where this operation's place says, at the version before it or at its target
(`Positioned`, `LinkAt`), and a live version that was never observed is being tried, or has a
failed operation that reports it (`Reports`). A crash may leave `Placed`'s goroutine gone and the link at either version, and recovery is proved from that
state. The two action properties need that no write was lost: with one, the file may
be older than the link (section 4). `UnprovenVersionsAreReported` only needs it so far (`faults = 0`), for any
`MaxPersistFailures`. That they fail with overlap is finding 1: these two assumptions are the ones under which `kernel_serial` checks
the properties, and not limits of the proof.

### 6.1 The other modules

| module | theorem | statement |
|---|---|---|
| `HostMaintenance_proofs` | `TypeCorrect`, `UpdatesExcludeRemovals`, `MarkerAlwaysCovers`, `HostKeepsItsSide` | `[]TypeOK`, `[]UpdateExcludesRemoval`, `[]MarkerCoversSwitch`, `ImplementsContract` |
| `KernelTask_proofs` | `TypeCorrect`, `ResultsAreTrue`, `CanaryGoesFirst` | `[]TypeOK`, `[]ResultIsTheOperations`, `CanaryGate` |
| | `OneRunForEachItem`, `NoWorkOnLeavingNodes` | `[](restarts = 0 => OneRunPerItem)`, `[](restarts = 0 => RemovalExcludesTask)` |
| | `EndedTasksAreSettled` | `[](restarts = 0 /\ ~RetryWhileRunning => EndedTaskIsSettled)` |
| `NodeRemoval_proofs` | `TypeCorrect`, `DeletionFollowsUninstall`, `ReceiptsOutliveTheOutbox`, `UsableNodesAreUntouched`, `UpdateRequestsAreAlone` | `[]TypeOK` and the four invariants of `node_removal` |
| `CertificateRotation_proofs` | `AuthorityAlwaysOpens`, `PackagesTrustThePanel`, `ActivationIsAcknowledged`, `NobodyIsEverStranded` | `[]AuthorityOpens`, `[]DeploymentTrustsPanel`, and the two action properties |
| `NodeAgent_proofs` | `TypeCorrect` | `[]TypeOK` of `AgentProxies` |
| | `TrafficIsChargedOnce` | `[]ChargedOnce` of `UserSync`, for a finite `Collector` |
| `NodeRegistry_proofs` | `TypeCorrect`, `NoProxyIsStartedDuringRemoval`, `EveryNodeHasItsSettings`, `HostsServeTheirRows` | `[]TypeOK`, `NothingStartsDuringRemoval`, `[]DetailsExist`, and `[]ServedAsRegistered` where agents listen at the registered port |
| `PanelHost_proofs` | `SuccessCanBeDownloaded`, `ServingHasHistory`, `CacheFollowsTable`, `CredentialsStayTrue` | `[]DownloadsExist`, `[]HistoryComplete`, `[]CachedSettingIsCurrent`, `CredentialsMatch` |

All of them hold for any values of the constants that satisfy the modules' named assumptions,
none of which bounds a set (`TrafficIsChargedOnce` alone wants `Collector` finite, or the sum
would mean nothing): model values for "none" differ from what they are told apart from,
bounds are numbers, every item has a node, the ports of the two kinds of proxies are disjoint,
no two servers are ever registered at one address (`PlaceAssumption`; two rows for
one host are outside of what the panel keeps apart), and the node that `NodeRegistry` begins with
was made at its server's address (`FirstAssumption`).

*HostMaintenance.* Two invariants. `Owned`: whoever is past its own reservation - a script, the
service's removal, the uninstaller - is named in the product lock directory. A program that
dies leaves the directory behind, which only keeps the others out. `Covered`, for the marker and
the contract, follows a job through five programs: `Turn` says who may hold the flock, and
that only its holder is between two of its writes; `Pending`, that a job which has been launched and is not
finished owns an active marker; `Answering`, what the service has found and written of a request so far;
`Working`, that the record stays the job's while its script may still act, so that no
successor takes the marker from it; `ByHand`, that a script which an operator runs has no job's. With it the marker
is active whenever containers are in pieces, and every step is one of `NodeAdmission` or a stutter.

*KernelTask.* `Typed` is `TypeOK` with two facts: a goroutine with work has a copy of its row (`Known`), and
no row goes between a task's commit and its launch (`Named`). `Faithful` (results) needs `Told`: rows and
copies that claim success or a rollback agree with the operation of their key. It survives
restarts and lost writes, because a copy only ever holds an answer; `Bookkeeping` and `Opening` say
which goroutines a run may have, and that nothing else goes on until the launch. The others are
about a panel that has not restarted. `Undisturbed`: a goroutine's copy is of the row's attempt
and the row has no result yet (`Current`), it is alone with the row (`Alone`), no operation is
ahead of its row's attempt (`Numbered`), and only rows of nodes that are gone have
disappeared (`Dropped`). `OneRunPerItem` and `RemovalExcludesTask` follow, as both retries and removals look for a
result. TLC shows why the restart matters: recovery's run stores the final stage of an
operation that ended while the panel was down before its worker has polled it, such a row counts as failed, and
a retry through the API starts a second goroutine (one restart, `RetryWhileRunning = TRUE`).
`Gate` follows the first run: it reaches `others` only when the canary's items have succeeded,
and its goroutines work on first attempts only. `Serial`, `Settled` and `Orderly` are about the end of a
task: turns within a run, the result beside a stage, one run at a time, whose last report is of the rows as they
are. They need that retries come from a page that shows the task as ended: two runs side by side may report in
the wrong order, and the status stays the older one (TLC again). `NewRunIsFree` is the one
place where a theorem about well-founded orders is used: the least free run exists.

*NodeRemoval.* `Removal` adds to `TypeOK` what is known at a distance: `Attended`, a call that is
still waited for belongs to the operation that sent it; `Ordered`, what each step of an
operation knows about the registration; `Untouched`, nobody is on the way to a host that is
usable or may be again; `Kept`, what the host keeps and for how long; `Receipted`, an
operation deletes with the receipt and the mode that the host has saved. None of the four properties is
inductive without the network's part.

*CertificateRotation.* `Authority` adds what each place of the pass relies on (`Where`), who
has accepted the pending CA (`Acked`) and who has kept the current one and will be asked
(`Retained`). Opening is inductive with `Where` alone; activation needs `Acked`, and that
retiring strands nobody needs `Retained`. `Exports` is about the packages: whatever is exported
holds the CA that signs now, because an activation only takes a CA that was offered, and an offer comes after the
export of both.

*AgentProxies.* A step gives one goroutine a new record; `WellFormed` is what such a record
may look like, proved per group of actions.

*UserSync.* `Ledger` is `ChargedOnce` with the types it needs (`Books`). The difficulty is the sum over the
collectors (`Held`), a fold that no installed prover can do induction on. `SummedIsCount` shows that it is the
number of `Units` that the collectors hold; a wrong sum would have a smallest set of collectors
(`SmallestSet`, from the library's theorem that the strict subsets of a finite set are well-founded), and there is none.
`OneCollectorChanges` then says that a step of one collector changes the sum by as much as its own
entry, and every action is arithmetic. Of the actions only the ones that touch the books matter: users, goroutines and
indices are free. The theorem is about any number of collectors at once, the run about one.

*NodeRegistry.* `Guarded` adds that a request has read what it needs (`Prepared`), that a server
is at one of its places (`Sited`), and that a registration cannot end while a request that
read it holds `nodeLifecycle` (`Held`): a request's call then never goes to a server
whose removal has begun. `Books` is about rows and sub-tables: automatic ids are ahead of all that are in use
(`Numbered`), settings that were inserted for a request are nobody else's (`Owned`), no two nodes have
the same, and a request deletes only those of its node (`Distinct`), so that settings
are missing only while a request is about to replace them or to delete the node (`Kept`). That this request
also does so needs `Reachable`: nobody unregisters the node's server under it. `Balance` is about hosts: the tenants of a host
are the nodes there whose proxy no request has stopped, and the requests that have started one
without a row yet. A port has one tenant (`Apart`), the proxies are the tenants' (`Served`), and a request passes its port on
to the row it writes. The rest is what excuses do not cover: a request's copy is its row unless
requests crossed (`Fresh`), a host emptied by `uninstall.sh` stays empty (`Swept`), and a waiting
removal's reason lasts (`Announced`). `HostsServeTheirRows` assumes that agents listen at the ports
their servers are registered with (`AgentsListen`), as the run does with its one port: finding 10 is what happens otherwise.

*PanelHost.* Four invariants, two of them about accounts, each kept by the steps of its part, by the crash, and by
stuttering. `FilesKept`: what a goroutine knows at each place of its row and its file, and that a
file is named by one task unless it was given twice. `HistoryKept`: a start that is past the copy
(`PastCopy`) has the history in both tables, and the tables' order in the list of migrations.
`CacheKept`: a reader on its way to the cache holds the stored setting or has crossed an
update, and an outdated copy is marked or has a request that will drop it. `Signatures`: every row is a record, and a
request that will write a hash has made it from the name whose rows it will write, so that only an edit by
id can meet a row of another name. `NoneAssumption` says that the
value for "none" is not such a request. The theorems are for the composition, any number of
rows, requests, crashes and any load.

*Model-checked only.* What `KernelTask`'s properties say after a restart, and all liveness:
`AdmittedOperationSettles`, `AdmissionReopens`, `ItemSettles`, `CleanupCompletes`, `RotationCompletes`,
`QuotaStopsProxies`, `ProxiesComeBack`, `AccountsSettle`, `NobodyWaitsForever`, `PanelComesUp`,
`QuotaSettles`. The prover does not reason about `ENABLED`, so fairness stays with TLC. Every other
property that a run checks has a theorem.

## 7. Findings

1. **A queued operation rolls back to the wrong version** (`RollbackRestoresPrevious` fails with
   `Overlap = TRUE`, as in `kernel_overlap`'s instance with three versions). `Start` copies
   the link at admission (`kernel/manager.go:286`), the goroutine may wait for another
   operation of the same kernel, and `rollback` puts back what that one had replaced.
2. **A removal starts beside a kernel operation** (`uninstall.sh:187`). `docs/deployment_EN.md:611`
   and `docs/api.md:74` promise mutual exclusion; `uninstall.sh` and `Server.remove` look at
   the update only. Seen as a violation of `RemovalExcludesOperations` in `host_safety`'s instance.
3. **The canary node's second kernel stays queued for ever** (`service/kernel_upgrade.go:311`).
   When its first item fails, `runKernelTask` fails the other nodes' rows and returns.
   `ItemSettles` fails with `NodeOf <- MCPair` and `Canary = a`.
4. **A long rollback error keeps a row open for ever** (`service/kernel_upgrade.go:404`). It is
   written into a `varchar(32)`; the strict database refuses the row and the error is dropped.
   `ItemSettles` fails with `LongErrors = TRUE`.
5. **Stop unlocks a mutex it does not hold** (`core/process/process.go:36`): the deferred `Unlock`
   runs although `TryLock` failed. Two children may then be started at once, one of them lost
   to the map, and a second `Unlock` ends the agent.
6. **NaiveProxy restarts above the quota** (`app/naiveproxy/certificate.go:77`).
   `MaintainCertificates` starts what does not run without asking `CanStartProxy`.
7. **Users are dropped from a traffic collection** (`util/map.go:14`). `SplitMap` closes the last
   group after its first element.
8. **Groups of accounts delete one another's users** (`app/app.go:178`): each group's goroutine
   deletes every user that is not in its own group of 50. `AccountsSettle` fails with
   `GroupSize = 1` and two accounts.
9. **An edit and a deletion of one node cross** (`service/node.go:432`): their Redis locks have
   different names, and a proxy may stay on a host without a row. `ServedAsRegistered` fails
   with `Crossed` always false.
10. **A moved node keeps the old server's gRPC port** (`service/node.go:641`). `ServedAsRegistered`
    fails with two ports in `Grpc` and the second server's agent on the second one.
11. **A server moves although a node is being created on it** (`service/node_server.go:158`): the
    nodes are counted under the read lock that the creation holds as well.
12. **A failed insertion of the new sub-table row is answered as success**
     (`service/node.go:697`), after the old one is gone. `DetailsExist` fails without its exception.
13. **An interrupted start leaves an empty `config.ini`** (`core/config.go:138`) that no later start
    fills. `PanelComesUp` fails without `Damaged`.
14. **An interrupted import is never completed** (`dao/mysql.go:44`): one table is enough to skip it.
15. **A charge before the copy hides the traffic history** (`dao/mysql.go:163`), or makes the copy a
    duplicate key. `HistoryComplete` fails without `early`.
16. **A start gives a client back that an administrator took away** (`dao/mysql.go:313`), although the
    comment above it says that selections are preserved.
17. **Two cron jobs never run** (`middleware/cron.go:18`, `:24`): their schedules have six fields
    and the parser takes five. No reminder is sent and no old kernel task is cleaned up.
18. **Two accounts may have one name** (`service/account.go:21`).
19. **An edit after a rename locks the owner out** (`service/account.go:178`). `CredentialsMatch` fails
    without `StaleEdit`.
20. **A rename brings an old password back** (`service/account.go:123`).
21. **The scan takes a renewed account's quota** (`service/account.go:287`); nothing gives it back.
22. **A file task may show "doing" for ever, or resist deletion** (`service/account_backup.go:135`,
    `service/file_task.go:25`).
23. **Exports of one second share a file** (`service/account_backup.go:115`). `DownloadsExist` fails
    without its exceptions.
24. **The agent takes Xray's counters for its users** (`app/xray/api.go:263`): a disabled user that
    never connected stays, one that is valid again is not added.
25. **A failed addition leaves an empty configuration file** (`app/xray/xray.go:72`), behind which no
    later start gets: `InitXrayApp` returns at the first file that does not parse. `ProxiesComeBack`
    fails without its exception.
26. **A reader that crosses a settings update brings the old ones back** (`service/system.go:112`).
    It missed the key before the update and stores it after the update has deleted it; the old
    settings are then served for up to thirty minutes. A deletion that fails has the same effect, its error is
    dropped (`service/system.go:290`). `CachedSettingIsCurrent` fails without `outdated`, with two requests and no fault.

## 8. Not modelled

Deadlines are not clocks: a time-out is a step that may be taken. Corrupted files, full disks
other than as a failed write, symbolic link and permission checks, archives and version
syntax are outcomes of the steps that meet them. Of the modelled components these parts are
left out: the clean-up of old kernel tasks (which never runs, section 7), the Web host's own update,
the Redis copy of the node configuration, password changes of served users and Hysteria2's
collector, retired node types, names and settings of nodes, deployment archives and tokens. Of the
panel's process: logging, the policy engine, the texts in `client_types`, the system administrator's row,
which is never disabled, and rows, migrations and tables that repeat one that is there.

A large part of the repository has no behaviour that a model would add to a test: generated
gRPC bindings (5,300 lines, twice the same file), subscription formats for a dozen clients,
pages of lists, roles, statistics, mail texts, configuration files, the installer's dependency checks. The modules
do not cover those lines, nor any line that they do not translate.

## 9. Plan

Done, in this order: `KernelManager`, `NodeAdmission`, `HostMaintenance`, `KernelTask`,
`NodeRemoval`, `CertificateRotation`, `AgentProxies`, `UserSync`, `NodeRegistry`, `PanelStart`,
`PanelAccounts`, `FileTasks`, `PanelHost`, with the proofs of section 6. Next, by importance:

1. Proofs: an invariant for the locks of `NodeRegistry` (who waits for whom), as `OperationsAreAttended` is for the
   manager's mutex; `KernelTask` after a restart, in the form its runs allow.
2. The Redis copy of the node configuration beside its rows.
