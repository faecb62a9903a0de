------------------------------ MODULE NodeRegistry -----------------------------
(***************************************************************************)
(* What the panel knows of its nodes, and what runs on their hosts.        *)
(*                                                                         *)
(* A node is a row of the table node, a row in the sub-table of its type,  *)
(* and a proxy process the panel starts and stops on a host by a gRPC call *)
(* whose answer it does not look at.  Three requests create, edit and      *)
(* delete nodes, each in several steps under a Redis lock of its own kind; *)
(* others change the address of a server, which the rows of its nodes      *)
(* copy.  nodeLifecycle, a readers-writer lock, keeps them apart from the  *)
(* removal of a server, whose other steps are in NodeRemoval; what a host  *)
(* does to keep a proxy running is in AgentProxies.                        *)
(***************************************************************************)
EXTENDS Naturals, FiniteSets

CONSTANTS
  Server, Present,   \* the servers; those that are registered at first
  Ip, Place,         \* the IP addresses an operator gives a server
  Home,              \* the address it is registered with
  Grpc, AgentPort,   \* gRPC ports; the one the agent at an address listens on
  Port, Type,
  Detailed,          \* the node types that have a sub-table
  MaxId,             \* rows of the table node
  First,             \* the row that is there at first
  MaxConcurrent,     \* requests at the same time
  None,
  MaxRequests,       \* requests and removals in a behaviour
  MaxFaults          \* calls and statements that fail

Id == 1 .. MaxId
Request == 1 .. MaxConcurrent
Address == [ip : Ip, grpc : Grpc]
Row == [server : Server, at : Address, port : Port, type : Type, sub : Nat]
NodeLock == {"create", "update", "delete"}

(* Two servers are never registered with one host.                         *)
ASSUME PlaceAssumption ==
  /\ Home \in [Server -> Address]
  /\ \A s \in Server : Home[s].ip \in Place[s]
  /\ \A s, t \in Server : s # t => Place[s] \cap Place[t] = {}

ASSUME NoneAssumption == None \notin Row \cup Address

(* The node that is there at first was made at its server's address.       *)
ASSUME FirstAssumption ==
  First \in Row /\ First.server \in Present /\ First.at = Home[First.server]

ASSUME BoundAssumption ==
  MaxId \in Nat \ {0} /\ MaxConcurrent \in Nat /\ MaxRequests \in Nat /\ MaxFaults \in Nat

VARIABLES
  server,    \* node_server: address and state
  node,      \* the table node
  details,   \* the rows of the sub-tables
  inserted,  \* the last automatic id of each
  locks,     \* the Redis locks
  writer,    \* the removal that waits for nodeLifecycle or has it
  req,       \* the requests
  proxies,   \* the proxies that run at each address
  begun, faults,
  excused    \* hosts whose proxies are known to differ from the rows

database == <<server, node, details, inserted>>
bounds == <<begun, faults>>
vars == <<database, locks, writer, req, proxies, bounds, excused>>

Kind == NodeLock \cup {"rebind", "import"}
Pc == {"idle", "begun", "read", "removed", "added", "dropped", "stored"}

Idle == [pc |-> "idle", kind |-> "create", id |-> 1, server |-> None, to |-> None,
         port |-> None, type |-> None, old |-> None, sub |-> 0]

Work == [pc : Pc, kind : Kind, id : Id, server : Server \cup {None},
         to : Address \cup {None}, port : Port \cup {None}, type : Type \cup {None},
         old : Row \cup {None}, sub : Nat]

TypeOK ==
  /\ server \in [Server -> [at : Address,
                            status : {"new", "registered", "removing", "uninstalled", "gone"}]]
  /\ node \in [Id -> Row \cup {None}]
  /\ details \subseteq Type \X Nat
  /\ inserted \in [Type -> Nat]
  /\ locks \in [NodeLock -> Request \cup {None}]
  /\ writer \in [server : Server, job : {"begin", "cancel", "complete", "forget"}] \cup {None}
  /\ req \in [Request -> Work]
  /\ proxies \in [Ip -> SUBSET (Port \X Type)]
  /\ begun \in 0 .. MaxRequests
  /\ faults \in [call : Nat, statement : Nat]
  /\ excused \subseteq Ip

Init ==
  /\ server = [s \in Server |->
                  [at |-> Home[s], status |-> IF s \in Present THEN "registered" ELSE "new"]]
  /\ node = [i \in Id |-> IF i = 1 THEN First ELSE None]
  /\ details = IF First.type \in Detailed THEN {<<First.type, First.sub>>} ELSE {}
  /\ inserted = [t \in Type |-> IF t = First.type THEN First.sub ELSE 0]
  /\ proxies = [h \in Ip |-> IF h = First.at.ip THEN {<<First.port, First.type>>} ELSE {}]
  /\ locks = [k \in NodeLock |-> None] /\ writer = None
  /\ req = [r \in Request |-> Idle]
  /\ begun = 0 /\ faults = [call |-> 0, statement |-> 0]
  /\ excused = {}

Rows == {node[i] : i \in Id} \ {None}
RowsOf(s) == {row \in Rows : row.server = s}
Registered(s) == server[s].status = "registered"
Begins == begun < MaxRequests /\ begun' = begun + 1
Fails(what) == /\ faults.call + faults.statement < MaxFaults
               /\ faults' = [faults EXCEPT ![what] = @ + 1]

(* What a request's failed statement may leave behind.                     *)
Touched(r) == {a.ip : a \in {req[r].to, IF req[r].old = None THEN None ELSE req[r].old.at} \ {None}}

-----------------------------------------------------------------------------
(* nodeLifecycle.  An import does not take it.  A removal that waits keeps *)
(* new readers out and is let in when the last reader leaves.              *)

(* Seeded fault: CreateNode does not take the lock.                        *)
ReadersButCreate ==
  {r \in Request : req[r].pc # "idle" /\ req[r].kind \notin {"import", "create"}}

Readers == {r \in Request : req[r].pc # "idle" /\ req[r].kind # "import"}

(* A new request takes the first free place of the model.                  *)
Starts(r) == /\ req[r].pc = "idle" /\ \A q \in 1 .. r - 1 : req[q].pc # "idle"
             /\ Begins
RLock(r) == Starts(r) /\ writer = None

(* A request returns: its deferred calls give back its locks.              *)
Released(r) == [k \in NodeLock |-> IF locks[k] = r THEN None ELSE locks[k]]
Returns(r) == req' = [req EXCEPT ![r] = Idle] /\ locks' = Released(r)
Goes(r, pc) == req' = [req EXCEPT ![r].pc = pc] /\ UNCHANGED locks

(* Seeded fault: a request that does not get its lock leaves without       *)
(* RUnlock.                                                                *)
LockRefusedKeepsReading(r) ==
  /\ req[r].pc = "begun" /\ req[r].kind \in NodeLock
  /\ locks[req[r].kind] # None
  /\ req' = [req EXCEPT ![r].pc = "stored", ![r].kind = "rebind", ![r].server = None]
  /\ UNCHANGED <<database, locks, writer, proxies, bounds, excused>>

(* redis.RsLock gives up after some seconds.                               *)
LockRefused(r) ==
  /\ req[r].pc = "begun" /\ req[r].kind \in NodeLock
  /\ locks[req[r].kind] # None
  /\ Returns(r)
  /\ UNCHANGED <<database, writer, proxies, bounds, excused>>

-----------------------------------------------------------------------------
(* A call is tried three times, eight seconds apart, and the Redis lock of *)
(* its request expires after eight seconds: a call that fails costs the    *)
(* lock.  The request goes on whatever the answer.                         *)
Answered(r, pc, lost) ==
  /\ req' = [req EXCEPT ![r].pc = pc]
  /\ locks' = IF lost THEN Released(r)
              ELSE IF req[r].pc = "begun" THEN [locks EXCEPT ![req[r].kind] = r] ELSE locks

Reaches(a) == a.grpc = AgentPort[a.ip]

(* The agent refuses a port that is in use.                                *)
Occupied(a, port) == \E t \in Type : <<port, t>> \in proxies[a.ip]

GrpcAddNode(r, a, port, type, pc) ==
  \/ /\ Reaches(a) /\ ~Occupied(a, port)
     /\ proxies' = [proxies EXCEPT ![a.ip] = @ \cup {<<port, type>>}]
     /\ \/ Answered(r, pc, FALSE) /\ UNCHANGED <<faults, excused>>
        \/ Answered(r, pc, TRUE) /\ Fails("call") /\ UNCHANGED excused
  \/ /\ Reaches(a)
     /\ Answered(r, pc, TRUE)
     /\ excused' = excused \cup {a.ip}
     /\ IF Occupied(a, port) THEN UNCHANGED faults ELSE Fails("call")
     /\ UNCHANGED proxies
  \/ ~Reaches(a) /\ Answered(r, pc, TRUE) /\ UNCHANGED <<proxies, faults, excused>>

GrpcRemoveNode(r, row, pc) ==
  \/ /\ Reaches(row.at)
     /\ proxies' = [proxies EXCEPT ![row.at.ip] = @ \ {<<row.port, row.type>>}]
     /\ \/ Answered(r, pc, FALSE) /\ UNCHANGED <<faults, excused>>
        \/ Answered(r, pc, TRUE) /\ Fails("call") /\ UNCHANGED excused
  \/ /\ Reaches(row.at)
     /\ Answered(r, pc, TRUE) /\ Fails("call")
     /\ excused' = excused \cup {row.at.ip}
     /\ UNCHANGED proxies
  \/ ~Reaches(row.at) /\ Answered(r, pc, TRUE) /\ UNCHANGED <<proxies, faults, excused>>

(* A statement of a request fails, and the request returns.                *)
StatementFails(r) ==
  /\ Fails("statement") /\ Returns(r)
  /\ excused' = excused \cup Touched(r)

(* The sub-table's row, inserted outside of any transaction.               *)
InsertDetail(r) ==
  /\ \/ /\ req[r].type \in Detailed
        /\ inserted' = [inserted EXCEPT ![req[r].type] = @ + 1]
        /\ details' = details \cup {<<req[r].type, inserted'[req[r].type]>>}
        /\ req' = [req EXCEPT ![r].pc = "stored", ![r].sub = inserted'[req[r].type]]
        /\ UNCHANGED <<locks, faults, excused>>
     \/ /\ req[r].type \notin Detailed
        /\ req' = [req EXCEPT ![r].pc = "stored", ![r].sub = 0]
        /\ UNCHANGED <<details, inserted, locks, faults, excused>>
     \/ /\ req[r].type \in Detailed
        /\ StatementFails(r)
        /\ UNCHANGED <<details, inserted>>
  /\ UNCHANGED <<server, node, writer, proxies, begun>>

DeleteDetail(r) ==
  /\ \/ /\ details' = details \ {<<req[r].old.type, req[r].old.sub>>}
        /\ Goes(r, "dropped")
        /\ UNCHANGED <<faults, excused>>
     \/ /\ req[r].old.type \in Detailed
        /\ StatementFails(r) /\ UNCHANGED details
  /\ UNCHANGED <<server, node, inserted, writer, proxies, begun>>

-----------------------------------------------------------------------------
(* CreateNode, while the model has an id left.                             *)
IdIsFree ==
  Cardinality({i \in Id : node[i] = None}) >
  Cardinality({q \in Request : req[q].pc # "idle" /\ req[q].kind = "create"})

CreateBegins(r) ==
  /\ RLock(r)
  /\ \E s \in Server, p \in Port, t \in Type :
       /\ Registered(s) /\ IdIsFree
       /\ req' = [req EXCEPT ![r] = [Idle EXCEPT !.pc = "begun", !.kind = "create",
                    !.server = s, !.to = server[s].at, !.port = p, !.type = t]]
  /\ UNCHANGED <<database, locks, writer, proxies, faults, excused>>

(* The Redis lock, and the call under it.                                  *)
CreateAdds(r) ==
  /\ req[r].kind = "create" /\ req[r].pc = "begun"
  /\ locks["create"] = None
  /\ GrpcAddNode(r, req[r].to, req[r].port, req[r].type, "added")
  /\ UNCHANGED <<database, writer, begun>>

CreateDetail(r) ==
  /\ req[r].kind = "create" /\ req[r].pc = "added"
  /\ InsertDetail(r)

NewRow(r) == [server |-> req[r].server, at |-> req[r].to, port |-> req[r].port,
              type |-> req[r].type, sub |-> req[r].sub]

(* The row is inserted by a transaction that looks at the server again;    *)
(* when it fails the sub-table's row is taken back.                        *)
CreateRow(r) ==
  /\ req[r].kind = "create" /\ req[r].pc = "stored"
  /\ \/ /\ Registered(req[r].server)
        /\ \E i \in Id :
             /\ node[i] = None
             /\ node' = [node EXCEPT ![i] = NewRow(r)]
        /\ Returns(r)
        /\ UNCHANGED <<details, faults, excused>>
     \/ /\ IF Registered(req[r].server) THEN Fails("statement") ELSE UNCHANGED faults
        /\ Returns(r)
        /\ details' = details \ {<<req[r].type, req[r].sub>>}
        /\ excused' = excused \cup Touched(r)
        /\ UNCHANGED node
  /\ UNCHANGED <<server, inserted, writer, proxies, begun>>

-----------------------------------------------------------------------------
(* UpdateNodeById and DeleteNodeById have a lock each.  Two requests may   *)
(* work on one node: one deletes while the other edits, or a lock was lost.*)
Crossed(r, i) ==
  \E q \in Request \ {r} : req[q].old # None /\ req[q].id = i

UpdateBegins(r) ==
  /\ RLock(r)
  /\ \E i \in Id, s \in Server, p \in Port, t \in Type :
       /\ node[i] # None /\ Registered(s)
       /\ req' = [req EXCEPT ![r] = [Idle EXCEPT !.pc = "begun", !.kind = "update", !.id = i,
                    !.server = s, !.to = server[s].at, !.port = p, !.type = t]]
  /\ UNCHANGED <<database, locks, writer, proxies, faults, excused>>

DeleteBegins(r) ==
  /\ RLock(r)
  /\ \E i \in Id :
       /\ node[i] # None
       /\ req' = [req EXCEPT ![r] = [Idle EXCEPT !.pc = "begun", !.kind = "delete", !.id = i]]
  /\ UNCHANGED <<database, locks, writer, proxies, faults, excused>>

(* The row is read under the lock.                                         *)
ReadsNode(r) ==
  LET i == req[r].id
  IN  /\ req[r].pc = "begun" /\ req[r].kind \in {"update", "delete"}
      /\ locks[req[r].kind] = None
      /\ IF node[i] # None /\ Registered(node[i].server)
           THEN /\ locks' = [locks EXCEPT ![req[r].kind] = r]
                /\ req' = [req EXCEPT ![r].pc = "read", ![r].old = node[i]]
                /\ excused' = IF Crossed(r, i) THEN Ip ELSE excused
           ELSE Returns(r) /\ UNCHANGED excused
      /\ UNCHANGED <<database, writer, proxies, bounds>>

(* Seeded fault: the proxy is stopped at the port the request asks for.    *)
RemovesNewPort(r) ==
  /\ req[r].kind \in {"update", "delete"} /\ req[r].pc = "read"
  /\ GrpcRemoveNode(r, IF req[r].kind = "update" THEN [req[r].old EXCEPT !.port = req[r].port]
                                                 ELSE req[r].old, "removed")
  /\ UNCHANGED <<database, writer, begun>>

Removes(r) ==
  /\ req[r].kind \in {"update", "delete"} /\ req[r].pc = "read"
  /\ GrpcRemoveNode(r, req[r].old, "removed")
  /\ UNCHANGED <<database, writer, begun>>

UpdateAdds(r) ==
  /\ req[r].kind = "update" /\ req[r].pc = "removed"
  /\ GrpcAddNode(r, req[r].to, req[r].port, req[r].type, "added")
  /\ UNCHANGED <<database, writer, begun>>

SameType(r) == req[r].type = req[r].old.type

UpdateDropsDetail(r) ==
  /\ req[r].kind = "update" /\ req[r].pc = "added" /\ ~SameType(r)
  /\ DeleteDetail(r)

UpdateDetail(r) ==
  /\ req[r].kind = "update" /\ req[r].pc = "dropped"
  /\ InsertDetail(r)

(* Seeded fault: a node that gets another type keeps its sub-table id.     *)
EditedKeepsSub(r, row) ==
  IF SameType(r) THEN [row EXCEPT !.server = req[r].server, !.at.ip = req[r].to.ip,
                                  !.port = req[r].port]
  ELSE [NewRow(r) EXCEPT !.sub = row.sub]

(* A node that keeps its type keeps the gRPC port of its row as well.      *)
Edited(r, row) ==
  IF SameType(r) THEN [row EXCEPT !.server = req[r].server, !.at.ip = req[r].to.ip,
                                  !.port = req[r].port]
  ELSE NewRow(r)

(* The transaction of the row's statement looks at both servers again.     *)
Editable(r) ==
  LET row == node[req[r].id]
  IN  row # None /\ Registered(row.server) /\ Registered(req[r].server)

(* The row's statement is left out when request and row agree.             *)
Changed(r) == ~SameType(r) \/ Edited(r, req[r].old) # req[r].old

(* A node that keeps its type has its settings, whatever they are here,    *)
(* written in place first, by a statement of their own.                    *)
WritesDetail(r) == SameType(r) /\ req[r].type \in Detailed

UpdateRow(r) ==
  /\ req[r].kind = "update" /\ req[r].old # None
  /\ req[r].pc = IF SameType(r) THEN "added" ELSE "stored"
  /\ \/ /\ Changed(r) /\ Editable(r)
        /\ node' = [node EXCEPT ![req[r].id] = Edited(r, @)]
        /\ Returns(r) /\ UNCHANGED <<faults, excused>>
     \/ /\ ~Changed(r) \/ ~Editable(r)
        /\ Returns(r) /\ UNCHANGED <<node, faults, excused>>
     \/ /\ Changed(r) \/ WritesDetail(r)
        /\ StatementFails(r) /\ UNCHANGED node
  /\ UNCHANGED <<server, details, inserted, writer, proxies, begun>>

DeleteDropsDetail(r) ==
  /\ req[r].kind = "delete" /\ req[r].pc = "removed"
  /\ DeleteDetail(r)

DeleteRow(r) ==
  /\ req[r].kind = "delete" /\ req[r].pc = "dropped"
  /\ \/ /\ node' = [node EXCEPT ![req[r].id] = None]
        /\ Returns(r) /\ UNCHANGED <<faults, excused>>
     \/ StatementFails(r) /\ UNCHANGED node
  /\ UNCHANGED <<server, details, inserted, writer, proxies, begun>>

-----------------------------------------------------------------------------
(* CreateNodeServer.                                                       *)
CreateNodeServer(s) ==
  /\ server[s].status = "new" /\ Begins
  /\ server' = [server EXCEPT ![s].status = "registered"]
  /\ UNCHANGED <<node, details, inserted, locks, writer, req, proxies, faults, excused>>

(* UpdateNodeServerById counts the server's nodes before it lets the       *)
(* address change, CreateOrUpdateNodeServer (the import of a file that     *)
(* covers) does not.                                                       *)
RebindBegins(r) ==
  /\ RLock(r)
  /\ \E s \in Server, a \in Address :
       /\ Registered(s) /\ RowsOf(s) = {}
       /\ a.ip \in Place[s] /\ a # server[s].at
       /\ req' = [req EXCEPT ![r] = [Idle EXCEPT !.pc = "begun", !.kind = "rebind",
                    !.server = s, !.to = a]]
  /\ UNCHANGED <<database, locks, writer, proxies, faults, excused>>

ImportBegins(r) ==
  /\ Starts(r)
  /\ \E s \in Server, g \in Grpc :
       /\ server[s].status \notin {"new", "gone"}
       /\ req' = [req EXCEPT ![r] = [Idle EXCEPT !.pc = "begun", !.kind = "import",
                    !.server = s, !.to = [server[s].at EXCEPT !.grpc = g]]]
  /\ UNCHANGED <<database, locks, writer, proxies, faults, excused>>

(* The transaction refuses a server that is being removed.                 *)
AddressIsWritten(r) ==
  /\ req[r].kind \in {"rebind", "import"} /\ req[r].pc = "begun"
  /\ server' = IF Registered(req[r].server)
                  THEN [server EXCEPT ![req[r].server].at = req[r].to]
                  ELSE server
  /\ Returns(r)
  /\ UNCHANGED <<node, details, inserted, writer, proxies, bounds, excused>>

-----------------------------------------------------------------------------
(* What a removal does under the write lock.                               *)
Job(s) ==
  CASE server[s].status = "registered" -> {"begin", "forget"}
    [] server[s].status = "removing" -> {"cancel", "forget"}
    [] server[s].status = "uninstalled" -> {"complete", "forget"}
    [] OTHER -> {}

Announces(s) ==
  /\ writer = None
  /\ \E job \in Job(s) :
       /\ writer' = [server |-> s, job |-> job]
       /\ IF job \in {"begin", "forget"} THEN Begins ELSE UNCHANGED begun
  /\ UNCHANGED <<database, locks, req, proxies, faults, excused>>

(* clearNodeServerData joins a sub-table with the nodes of its type.       *)
ClearNodeServerData(s) ==
  /\ details' = details \ {<<row.type, row.sub>> : row \in RowsOf(s)}
  /\ node' = [i \in Id |-> IF node[i] \in RowsOf(s) THEN None ELSE node[i]]
  /\ server' = [server EXCEPT ![s].status = "gone"]

Becomes(s, status) ==
  server' = [server EXCEPT ![s].status = status] /\ UNCHANGED <<node, details>>

(* A server the panel only forgets keeps its proxies, and so does a host   *)
(* that some of its nodes have been on before its address was changed.     *)
LeftBehind(s) ==
  {row.at.ip : row \in IF writer.job = "forget" THEN RowsOf(s)
                        ELSE {row \in RowsOf(s) : row.at.ip # server[s].at.ip}}

Writes ==
  LET s == writer.server
  IN  /\ writer # None /\ Readers = {}
      /\ \/ writer.job = "begin" /\ Becomes(s, "removing") /\ UNCHANGED excused
         \/ writer.job = "cancel" /\ server[s].status = "removing"
            /\ Becomes(s, "registered") /\ UNCHANGED excused
         \/ writer.job = "cancel" /\ server[s].status # "removing"
            /\ UNCHANGED <<server, node, details, excused>>
         \/ /\ writer.job \in {"complete", "forget"}
            /\ ClearNodeServerData(s)
            /\ excused' = excused \cup LeftBehind(s)
      /\ writer' = None
      /\ UNCHANGED <<inserted, locks, req, proxies, bounds>>

(* uninstall.sh on the host, see NodeRemoval.                              *)
HostUninstalls(s) ==
  /\ server[s].status = "removing"
  /\ server' = [server EXCEPT ![s].status = "uninstalled"]
  /\ proxies' = [proxies EXCEPT ![server[s].at.ip] = {}]
  /\ UNCHANGED <<node, details, inserted, locks, writer, req, bounds, excused>>

-----------------------------------------------------------------------------
Works(r) ==
  \/ LockRefused(r) \/ CreateAdds(r) \/ CreateDetail(r) \/ CreateRow(r)
  \/ ReadsNode(r) \/ Removes(r) \/ UpdateAdds(r)
  \/ UpdateDropsDetail(r) \/ UpdateDetail(r) \/ UpdateRow(r)
  \/ DeleteDropsDetail(r) \/ DeleteRow(r) \/ AddressIsWritten(r)

Next ==
  \/ \E r \in Request : \/ Works(r)
                        \/ CreateBegins(r) \/ UpdateBegins(r) \/ DeleteBegins(r)
                        \/ RebindBegins(r) \/ ImportBegins(r)
  \/ \E s \in Server : CreateNodeServer(s) \/ Announces(s) \/ HostUninstalls(s)
  \/ Writes

Spec == Init /\ [][Next]_vars

(* Requests are goroutines, and the runtime lets each run.                 *)
FairSpec == Spec /\ (\A r \in Request : WF_vars(Works(r))) /\ WF_vars(Writes)

-----------------------------------------------------------------------------
(* Once a server's removal has begun, no request starts a proxy on its     *)
(* host: the uninstall would leave it running, or the panel would believe  *)
(* in a node that is gone.  nodeLifecycle (node_removal.go) is what keeps  *)
(* the call of a request, made between two reads of the flag "removing",   *)
(* out of the removal.                                                     *)
NothingStartsDuringRemoval ==
  [][\A s \in Server : server[s].status \in {"removing", "uninstalled"} =>
       proxies'[server[s].at.ip] \subseteq proxies[server[s].at.ip]]_vars

AtRest == writer = None /\ \A r \in Request : req[r].pc = "idle"

(* The settings the panel finds for a node: a row of its type's sub-table. *)
Settings(i) == details \cap {<<node[i].type, node[i].sub>>}

(* A node whose settings are not found has no URL, and NodeURLError is all *)
(* that an account gets.                                                   *)
HasURL(i) == node[i].type \in Detailed => Settings(i) # {}

(* While nobody works on the nodes, every node has a URL, made of settings *)
(* that are there and its own.  The sub-table's rows are written and       *)
(* deleted outside of the transaction of the node's row (node.go,          *)
(* CreateNode, UpdateNodeById, DeleteNodeById), by requests that may work  *)
(* on one node at the same time.  A statement that fails halfway is        *)
(* excepted.                                                               *)
DetailsExist ==
  AtRest /\ faults.statement = 0 =>
    \A i \in Id : node[i] # None =>
      /\ HasURL(i)
      /\ \A j \in Id \ {i} : node[j] # None => Settings(i) \cap Settings(j) = {}

(* While nobody works on the nodes, a host runs the proxies of its rows    *)
(* and no other: every request, whatever of server, port and type it       *)
(* changes, moves both together, although one is a call and the other a    *)
(* statement.  Hosts on which a call or statement failed, two requests     *)
(* worked on one node, or nodes were forgotten, are excepted.              *)
ServedAsRegistered ==
  AtRest =>
    \A h \in Ip \ excused :
      (\A s \in Server : server[s].at.ip = h => server[s].status # "uninstalled") =>
        proxies[h] = {<<row.port, row.type>> : row \in {x \in Rows : x.at.ip = h}}

(* Every request ends and every removal gets its turn: requests give back  *)
(* nodeLifecycle on every return, so that neither a waiting removal nor    *)
(* the requests it keeps out wait forever.                                 *)
NobodyWaitsForever ==
  /\ \A r \in Request : req[r].pc # "idle" ~> req[r].pc = "idle"
  /\ writer # None ~> writer = None
================================================================================
