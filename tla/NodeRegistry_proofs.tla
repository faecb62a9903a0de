--------------------------- MODULE NodeRegistry_proofs -------------------------
(***************************************************************************)
(* For every number of servers, addresses, ports, nodes and requests: no   *)
(* request starts a proxy on a host whose removal has begun (Guarded),     *)
(* every node has its settings (Books), and a host that nobody is busy     *)
(* with serves the rows that name it (Balance).                            *)
(***************************************************************************)
EXTENDS NodeRegistry, TLAPS

Active(r) == req[r].pc # "idle"

(* What a request needs at the place it has come to.                       *)
Prepared ==
  \A r \in Request :
    /\ Active(r) /\ req[r].kind # "delete" => req[r].server \in Server /\ req[r].to \in Address
    /\ Active(r) /\ req[r].kind \in {"create", "update"} =>
         req[r].port \in Port /\ req[r].type \in Type
    /\ Active(r) /\ req[r].kind \in {"update", "delete"} /\ req[r].pc # "begun" =>
         req[r].old \in Row

(* A server is registered at one of its places, and its registration       *)
(* cannot end while a request that read it holds nodeLifecycle.            *)
Sited == \A s \in Server : server[s].at.ip \in Place[s]

Held ==
  \A r \in Request :
    /\ Active(r) /\ req[r].kind # "delete" => req[r].to.ip \in Place[req[r].server]
    /\ Active(r) /\ req[r].kind \in {"create", "update"} => Registered(req[r].server)

Shape == TypeOK /\ Prepared

Guarded == Shape /\ Sited /\ Held

LEMMA InitGuarded ==
  Init => Guarded
<1> SUFFICES ASSUME Init PROVE Guarded
  OBVIOUS
<1>1. First \in Row /\ 1 \in Id
  BY FirstAssumption, BoundAssumption DEF Id
<1>2. Idle \in Work
  BY <1>1 DEF Idle, Work, Pc, Kind, NodeLock
<1>3. /\ server \in [Server -> [at : Address,
                     status : {"new", "registered", "removing", "uninstalled", "gone"}]]
      /\ Sited
  BY PlaceAssumption DEF Init, Sited
<1>4. /\ node \in [Id -> Row \cup {None}] /\ details \subseteq Type \X Nat
      /\ inserted \in [Type -> Nat] /\ proxies \in [Ip -> SUBSET (Port \X Type)]
  BY <1>1 DEF Init, Row
<1>5. TypeOK
  BY <1>2, <1>3, <1>4, BoundAssumption DEF Init, TypeOK
<1>6. \A r \in Request : ~Active(r)
  BY DEF Init, Active, Idle
<1> QED
  BY <1>3, <1>5, <1>6 DEF Guarded, Shape, Prepared, Held

(* What the requests and the servers' addresses amount to after a step.    *)
Requests == req \in [Request -> Work] /\ Prepared /\ Sited /\ Held

(* A request that returns leaves the others as they are.                   *)
LEMMA ReturnsGuarded ==
  ASSUME Guarded, NEW r \in Request, Returns(r), server' = server
  PROVE  Requests' /\ locks' \in [NodeLock -> Request \cup {None}]
<1>1. 1 \in Id
  BY BoundAssumption DEF Id
<1>2. Idle \in Work /\ Idle.pc = "idle"
  BY <1>1 DEF Idle, Work, Pc, Kind, NodeLock
<1>3. req' \in [Request -> Work] /\ locks' \in [NodeLock -> Request \cup {None}]
  BY <1>2 DEF Guarded, Shape, TypeOK, Returns, Released
<1>4. req'[r].pc = "idle" /\ \A q \in Request \ {r} : req'[q] = req[q]
  BY <1>2 DEF Guarded, Shape, TypeOK, Returns
<1> QED
  BY <1>3, <1>4 DEF Guarded, Shape, Requests, Prepared, Active, Sited, Held, Registered

(* A request that goes on keeps what it has.                               *)
LEMMA GoesGuarded ==
  ASSUME Guarded, server' = server,
         NEW r \in Request, NEW pc \in Pc \ {"idle", "begun"}, NEW n \in Nat,
         Active(r),
         req' = [req EXCEPT ![r].pc = pc] \/ req' = [req EXCEPT ![r].pc = pc, ![r].sub = n],
         req[r].kind \in {"update", "delete"} => req[r].old \in Row
  PROVE  Requests'
<1>1. req[r] \in Work
  BY DEF Guarded, Shape, TypeOK
<1>2. /\ req'[r] \in Work
      /\ req'[r].pc = pc /\ req'[r].kind = req[r].kind /\ req'[r].server = req[r].server
      /\ req'[r].to = req[r].to /\ req'[r].port = req[r].port /\ req'[r].type = req[r].type
      /\ req'[r].old = req[r].old /\ req'[r].id = req[r].id
  BY <1>1 DEF Guarded, Shape, TypeOK, Work
<1>3. req' \in [Request -> Work] /\ \A q \in Request \ {r} : req'[q] = req[q]
  BY <1>1, <1>2 DEF Guarded, Shape, TypeOK
<1> QED
  BY <1>2, <1>3 DEF Guarded, Shape, Requests, Prepared, Active, Sited, Held, Registered

LEMMA FailsTyped ==
  ASSUME TypeOK, NEW what \in {"call", "statement"}, Fails(what)
  PROVE  faults' \in [call : Nat, statement : Nat]
  BY DEF TypeOK, Fails

LEMMA TouchedTyped ==
  ASSUME TypeOK, NEW r \in Request
  PROVE  Touched(r) \subseteq Ip
<1>1. req[r].to \in Address \cup {None} /\ req[r].old \in Row \cup {None}
  BY DEF TypeOK, Work
<1> QED
  BY <1>1 DEF Touched, Address, Row

LEMMA StatementFailsGuarded ==
  ASSUME Guarded, NEW r \in Request, StatementFails(r), server' = server
  PROVE  /\ Requests' /\ locks' \in [NodeLock -> Request \cup {None}]
         /\ faults' \in [call : Nat, statement : Nat] /\ excused' \subseteq Ip
  BY ReturnsGuarded, FailsTyped, TouchedTyped DEF StatementFails, Guarded, Shape, TypeOK

(* A call leaves the request at its next place, and adds or removes only   *)
(* the proxy it names.                                                     *)
LEMMA AnsweredGuarded ==
  ASSUME Guarded, server' = server, NEW r \in Request, NEW pc \in Pc \ {"idle", "begun"},
         Active(r), req[r].kind \in NodeLock,
         req[r].kind \in {"update", "delete"} => req[r].old \in Row,
         NEW lost \in BOOLEAN, Answered(r, pc, lost)
  PROVE  Requests' /\ locks' \in [NodeLock -> Request \cup {None}]
<1>1. Requests'
  <2>1. req' = [req EXCEPT ![r].pc = pc] /\ 0 \in Nat
    BY DEF Answered
  <2> QED
    BY <2>1, GoesGuarded
<1>2. locks' \in [NodeLock -> Request \cup {None}]
  BY DEF Answered, Released, Guarded, Shape, TypeOK
<1> QED
  BY <1>1, <1>2

LEMMA AddGuarded ==
  ASSUME Guarded, server' = server, NEW r \in Request, NEW pc \in Pc \ {"idle", "begun"},
         Active(r), req[r].kind \in NodeLock,
         req[r].kind \in {"update", "delete"} => req[r].old \in Row,
         NEW a \in Address, NEW port \in Port, NEW type \in Type,
         GrpcAddNode(r, a, port, type, pc)
  PROVE  /\ Requests' /\ locks' \in [NodeLock -> Request \cup {None}]
         /\ faults' \in [call : Nat, statement : Nat] /\ excused' \subseteq Ip
         /\ proxies' \in [Ip -> SUBSET (Port \X Type)]
         /\ \A h \in Ip \ {a.ip} : proxies'[h] = proxies[h]
<1>1. a.ip \in Ip
  BY DEF Address
<1>2. Answered(r, pc, FALSE) \/ Answered(r, pc, TRUE)
  BY DEF GrpcAddNode
<1>3. faults' = faults \/ Fails("call")
  BY DEF GrpcAddNode
<1>4. excused' \subseteq Ip
  BY <1>1 DEF GrpcAddNode, Guarded, Shape, TypeOK
<1>5. proxies' = proxies \/ proxies' = [proxies EXCEPT ![a.ip] = @ \cup {<<port, type>>}]
  BY DEF GrpcAddNode
<1>6. /\ proxies' \in [Ip -> SUBSET (Port \X Type)]
      /\ \A h \in Ip \ {a.ip} : proxies'[h] = proxies[h]
  BY <1>1, <1>5 DEF Guarded, Shape, TypeOK
<1> QED
  BY <1>2, <1>3, <1>4, <1>6, AnsweredGuarded, FailsTyped DEF Guarded, Shape, TypeOK

LEMMA RemoveGuarded ==
  ASSUME Guarded, server' = server, NEW r \in Request, NEW pc \in Pc \ {"idle", "begun"},
         Active(r), req[r].kind \in NodeLock,
         NEW row \in Row, req[r].old \in Row,
         GrpcRemoveNode(r, row, pc)
  PROVE  /\ Requests' /\ locks' \in [NodeLock -> Request \cup {None}]
         /\ faults' \in [call : Nat, statement : Nat] /\ excused' \subseteq Ip
         /\ proxies' \in [Ip -> SUBSET (Port \X Type)]
         /\ \A h \in Ip : proxies'[h] \subseteq proxies[h]
<1>1. row.at.ip \in Ip
  BY DEF Address, Row
<1>2. Answered(r, pc, FALSE) \/ Answered(r, pc, TRUE)
  BY DEF GrpcRemoveNode
<1>3. faults' = faults \/ Fails("call")
  BY DEF GrpcRemoveNode
<1>4. excused' \subseteq Ip
  BY <1>1 DEF GrpcRemoveNode, Guarded, Shape, TypeOK
<1>5. \/ proxies' = proxies
      \/ proxies' = [proxies EXCEPT ![row.at.ip] = @ \ {<<row.port, row.type>>}]
  BY DEF GrpcRemoveNode
<1>6. /\ proxies' \in [Ip -> SUBSET (Port \X Type)]
      /\ \A h \in Ip : proxies'[h] \subseteq proxies[h]
  BY <1>1, <1>5 DEF Guarded, Shape, TypeOK
<1> QED
  BY <1>2, <1>3, <1>4, <1>6, AnsweredGuarded, FailsTyped DEF Guarded, Shape, TypeOK

(* What the steps of a request leave to show for each of them.             *)
NoStart ==
  \A s \in Server : server[s].status \in {"removing", "uninstalled"} =>
    proxies'[server[s].at.ip] \subseteq proxies[server[s].at.ip]

LEMMA Assembled ==
  ASSUME Guarded, server' = server, Requests',
         locks' \in [NodeLock -> Request \cup {None}],
         faults' \in [call : Nat, statement : Nat], excused' \subseteq Ip,
         node' \in [Id -> Row \cup {None}], details' \subseteq Type \X Nat,
         inserted' \in [Type -> Nat], proxies' \in [Ip -> SUBSET (Port \X Type)],
         begun' = begun, writer' = writer
  PROVE  Guarded'
  BY DEF Guarded, Shape, TypeOK, Requests

(* Where no proxy is touched, none is started.                             *)
LEMMA QuietStartsNothing ==
  ASSUME proxies' = proxies
  PROVE  NoStart
  BY DEF NoStart

(* The host a request calls is its server's, and that is registered.       *)
LEMMA CalledHostIsRegistered ==
  ASSUME Guarded, NEW r \in Request, Active(r), req[r].kind \in {"create", "update"},
         NEW s \in Server, server[s].at.ip = req[r].to.ip
  PROVE  server[s].status = "registered"
<1>1. req[r].server \in Server /\ Registered(req[r].server)
  BY DEF Guarded, Shape, Prepared, Held
<1>2. server[s].at.ip \in Place[s] /\ req[r].to.ip \in Place[req[r].server]
  BY DEF Guarded, Sited, Held
<1>3. s = req[r].server
  BY <1>1, <1>2, PlaceAssumption
<1> QED
  BY <1>1, <1>3 DEF Registered

LEMMA CallStartsNothing ==
  ASSUME Guarded, NEW r \in Request, Active(r), req[r].kind \in {"create", "update"},
         \A h \in Ip \ {req[r].to.ip} : proxies'[h] = proxies[h]
  PROVE  NoStart
<1> SUFFICES ASSUME NEW s \in Server, server[s].status \in {"removing", "uninstalled"}
             PROVE  proxies'[server[s].at.ip] \subseteq proxies[server[s].at.ip]
  BY DEF NoStart
<1>1. server[s].at.ip # req[r].to.ip
  BY CalledHostIsRegistered
<1>2. server[s].at.ip \in Ip
  BY DEF Guarded, Shape, TypeOK, Address
<1> QED
  BY <1>1, <1>2

LEMMA InsertGuarded ==
  ASSUME Guarded, NEW r \in Request, Active(r), req[r].kind \in {"create", "update"},
         req[r].kind = "update" => req[r].old \in Row,
         InsertDetail(r)
  PROVE  Guarded'
<1>1. req[r].type \in Type
  BY DEF Guarded, Shape, Prepared
<1>2. "stored" \in Pc \ {"idle", "begun"} /\ 0 \in Nat
  BY DEF Pc
<1>3. /\ server' = server /\ node' \in [Id -> Row \cup {None}]
      /\ proxies' \in [Ip -> SUBSET (Port \X Type)] /\ begun' = begun /\ writer' = writer
  BY DEF InsertDetail, Guarded, Shape, TypeOK
<1>4. CASE StatementFails(r) /\ UNCHANGED <<details, inserted>>
  <2>1. details' \subseteq Type \X Nat /\ inserted' \in [Type -> Nat]
    BY <1>4 DEF Guarded, Shape, TypeOK
  <2> QED
    BY <1>3, <1>4, <2>1, StatementFailsGuarded, Assembled
<1>5. CASE /\ inserted' = [inserted EXCEPT ![req[r].type] = @ + 1]
           /\ details' = details \cup {<<req[r].type, inserted'[req[r].type]>>}
           /\ req' = [req EXCEPT ![r].pc = "stored", ![r].sub = inserted'[req[r].type]]
           /\ UNCHANGED <<locks, faults, excused>>
  <2>1. inserted' \in [Type -> Nat] /\ inserted'[req[r].type] \in Nat
    BY <1>1, <1>5 DEF Guarded, Shape, TypeOK
  <2>2. details' \subseteq Type \X Nat
    BY <1>1, <1>5, <2>1 DEF Guarded, Shape, TypeOK
  <2>3. Requests'
    BY <1>2, <1>3, <1>5, <2>1, GoesGuarded
  <2>4. /\ locks' \in [NodeLock -> Request \cup {None}]
        /\ faults' \in [call : Nat, statement : Nat] /\ excused' \subseteq Ip
    BY <1>5 DEF Guarded, Shape, TypeOK
  <2> QED
    BY <1>3, <2>1, <2>2, <2>3, <2>4, Assembled
<1>6. CASE /\ req' = [req EXCEPT ![r].pc = "stored", ![r].sub = 0]
           /\ UNCHANGED <<details, inserted, locks, faults, excused>>
  <2>1. Requests'
    BY <1>2, <1>3, <1>6, GoesGuarded
  <2>2. /\ locks' \in [NodeLock -> Request \cup {None}]
        /\ faults' \in [call : Nat, statement : Nat] /\ excused' \subseteq Ip
        /\ inserted' \in [Type -> Nat] /\ details' \subseteq Type \X Nat
    BY <1>6 DEF Guarded, Shape, TypeOK
  <2> QED
    BY <1>3, <2>1, <2>2, Assembled
<1> QED
  BY <1>4, <1>5, <1>6 DEF InsertDetail

LEMMA DeleteDetailGuarded ==
  ASSUME Guarded, NEW r \in Request, Active(r), req[r].old \in Row, DeleteDetail(r)
  PROVE  Guarded'
<1>1. "dropped" \in Pc \ {"idle", "begun"} /\ 0 \in Nat
  BY DEF Pc
<1>2. /\ server' = server /\ node' \in [Id -> Row \cup {None}]
      /\ proxies' \in [Ip -> SUBSET (Port \X Type)] /\ begun' = begun /\ writer' = writer
      /\ inserted' \in [Type -> Nat]
  BY DEF DeleteDetail, Guarded, Shape, TypeOK
<1>3. details' \subseteq Type \X Nat
  BY DEF DeleteDetail, Guarded, Shape, TypeOK
<1>4. CASE StatementFails(r)
  BY <1>2, <1>3, <1>4, StatementFailsGuarded, Assembled
<1>5. CASE Goes(r, "dropped") /\ UNCHANGED <<faults, excused>>
  <2>1. Requests'
    BY <1>1, <1>2, <1>5, GoesGuarded DEF Goes
  <2>2. /\ locks' \in [NodeLock -> Request \cup {None}]
        /\ faults' \in [call : Nat, statement : Nat] /\ excused' \subseteq Ip
    BY <1>5 DEF Goes, Guarded, Shape, TypeOK
  <2> QED
    BY <1>2, <1>3, <2>1, <2>2, Assembled
<1> QED
  BY <1>4, <1>5 DEF DeleteDetail

(* The steps of a request that has begun.                                  *)
LEMMA WorksGuarded ==
  ASSUME Guarded, NEW r \in Request, Works(r)
  PROVE  Guarded' /\ NoStart
<1>1. /\ node \in [Id -> Row \cup {None}] /\ details \subseteq Type \X Nat
      /\ inserted \in [Type -> Nat] /\ proxies \in [Ip -> SUBSET (Port \X Type)]
      /\ excused \subseteq Ip /\ faults \in [call : Nat, statement : Nat]
      /\ req[r] \in Work
  BY DEF Guarded, Shape, TypeOK
<1>2. {"read", "added", "removed", "stored"} \subseteq Pc \ {"idle", "begun"}
  BY DEF Pc
<1>3. req[r].kind \in {"update", "delete"} /\ req[r].pc \notin {"idle", "begun"} =>
        req[r].old \in Row
  BY DEF Guarded, Shape, Prepared, Active
<1>4. req[r].kind \in {"create", "update"} /\ req[r].pc # "idle" =>
        /\ req[r].server \in Server /\ req[r].to \in Address
        /\ req[r].port \in Port /\ req[r].type \in Type
  BY DEF Guarded, Shape, Prepared, Active
<1>5. CASE LockRefused(r)
  BY <1>1, <1>5, ReturnsGuarded, Assembled, QuietStartsNothing DEF LockRefused, database, bounds
<1>6. CASE CreateAdds(r)
  <2>1. Active(r) /\ req[r].kind = "create" /\ req[r].kind \in NodeLock /\ server' = server
    BY <1>6 DEF CreateAdds, Active, NodeLock, database
  <2>2. GrpcAddNode(r, req[r].to, req[r].port, req[r].type, "added")
    BY <1>6 DEF CreateAdds
  <2>3. /\ Requests' /\ locks' \in [NodeLock -> Request \cup {None}]
        /\ faults' \in [call : Nat, statement : Nat] /\ excused' \subseteq Ip
        /\ proxies' \in [Ip -> SUBSET (Port \X Type)]
        /\ \A h \in Ip \ {req[r].to.ip} : proxies'[h] = proxies[h]
    BY <1>2, <1>4, <2>1, <2>2, AddGuarded DEF Active
  <2>4. Guarded'
    BY <1>1, <1>6, <2>1, <2>3, Assembled DEF CreateAdds, database
  <2> QED
    BY <2>1, <2>3, <2>4, CallStartsNothing
<1>7. CASE CreateDetail(r)
  BY <1>7, InsertGuarded, QuietStartsNothing DEF CreateDetail, Active, InsertDetail
<1>8. CASE CreateRow(r)
  <2>1. NewRow(r) \in Row
    BY <1>1, <1>4, <1>8 DEF CreateRow, NewRow, Row, Work
  <2>2. node' \in [Id -> Row \cup {None}] /\ details' \subseteq Type \X Nat
    BY <1>1, <1>8, <2>1 DEF CreateRow
  <2>3. faults' = faults \/ Fails("statement")
    BY <1>8 DEF CreateRow
  <2>4. excused' \subseteq Ip
    BY <1>1, <1>8, TouchedTyped DEF CreateRow, Guarded, Shape
  <2>5. Returns(r) /\ UNCHANGED <<server, inserted, writer, proxies, begun>>
    BY <1>8 DEF CreateRow
  <2>6. faults' \in [call : Nat, statement : Nat]
    BY <1>1, <2>3, FailsTyped DEF Guarded, Shape
  <2> QED
    BY <1>1, <2>2, <2>4, <2>5, <2>6, ReturnsGuarded, Assembled, QuietStartsNothing
<1>9. CASE ReadsNode(r)
  <2>1. /\ UNCHANGED <<database, writer, proxies, bounds>>
        /\ req[r].pc = "begun" /\ req[r].kind \in {"update", "delete"}
    BY <1>9 DEF ReadsNode
  <2>2. excused' \subseteq Ip
    BY <1>1, <1>9 DEF ReadsNode
  <2>3. CASE Returns(r)
    BY <1>1, <2>1, <2>2, <2>3, ReturnsGuarded, Assembled, QuietStartsNothing DEF database, bounds
  <2>4. CASE /\ node[req[r].id] # None
             /\ locks' = [locks EXCEPT ![req[r].kind] = r]
             /\ req' = [req EXCEPT ![r].pc = "read", ![r].old = node[req[r].id]]
    <3>1. node[req[r].id] \in Row
      BY <1>1, <2>4 DEF Work
    <3>2. locks' \in [NodeLock -> Request \cup {None}]
      BY <2>1, <2>4 DEF Guarded, Shape, TypeOK
    <3>3. /\ req'[r] \in Work
          /\ req'[r].pc = "read" /\ req'[r].kind = req[r].kind /\ req'[r].server = req[r].server
          /\ req'[r].to = req[r].to /\ req'[r].port = req[r].port
          /\ req'[r].type = req[r].type /\ req'[r].old = node[req[r].id]
      BY <1>1, <1>2, <2>4, <3>1 DEF Guarded, Shape, TypeOK, Work
    <3>4. req' \in [Request -> Work] /\ \A q \in Request \ {r} : req'[q] = req[q]
      BY <2>4, <3>3 DEF Guarded, Shape, TypeOK
    <3>5. server' = server
      BY <2>1 DEF database
    <3>6. Requests'
      BY <2>1, <3>1, <3>3, <3>4, <3>5
         DEF Guarded, Shape, Requests, Prepared, Active, Sited, Held, Registered
    <3> QED
      BY <1>1, <2>1, <2>2, <3>2, <3>5, <3>6, Assembled, QuietStartsNothing DEF database, bounds
  <2> QED
    BY <1>9, <2>3, <2>4 DEF ReadsNode
<1>10. CASE Removes(r)
  <2>1. /\ Active(r) /\ req[r].kind \in NodeLock /\ req[r].old \in Row
        /\ UNCHANGED <<database, writer, begun>>
    BY <1>3, <1>10 DEF Removes, Active, NodeLock
  <2>2. /\ Requests' /\ locks' \in [NodeLock -> Request \cup {None}]
        /\ faults' \in [call : Nat, statement : Nat] /\ excused' \subseteq Ip
        /\ proxies' \in [Ip -> SUBSET (Port \X Type)]
        /\ \A h \in Ip : proxies'[h] \subseteq proxies[h]
    BY <1>2, <1>10, <2>1, RemoveGuarded DEF Removes, database
  <2>3. NoStart
    <3>1. \A s \in Server : server[s].at.ip \in Ip
      BY DEF Guarded, Shape, TypeOK, Address
    <3> QED
      BY <2>2, <3>1 DEF NoStart
  <2> QED
    BY <1>1, <2>1, <2>2, <2>3, Assembled DEF database
<1>11. CASE UpdateAdds(r)
  <2>1. /\ Active(r) /\ req[r].kind = "update" /\ req[r].kind \in NodeLock
        /\ req[r].old \in Row /\ UNCHANGED <<database, writer, begun>>
    BY <1>3, <1>11 DEF UpdateAdds, Active, NodeLock
  <2>2. GrpcAddNode(r, req[r].to, req[r].port, req[r].type, "added")
    BY <1>11 DEF UpdateAdds
  <2>3. /\ Requests' /\ locks' \in [NodeLock -> Request \cup {None}]
        /\ faults' \in [call : Nat, statement : Nat] /\ excused' \subseteq Ip
        /\ proxies' \in [Ip -> SUBSET (Port \X Type)]
        /\ \A h \in Ip \ {req[r].to.ip} : proxies'[h] = proxies[h]
    BY <1>2, <1>4, <2>1, <2>2, AddGuarded DEF Active, database
  <2>4. Guarded'
    BY <1>1, <2>1, <2>3, Assembled DEF database
  <2> QED
    BY <2>1, <2>3, <2>4, CallStartsNothing
<1>12. CASE UpdateDropsDetail(r)
  BY <1>3, <1>12, DeleteDetailGuarded, QuietStartsNothing DEF UpdateDropsDetail, Active, DeleteDetail
<1>13. CASE UpdateDetail(r)
  BY <1>3, <1>13, InsertGuarded, QuietStartsNothing DEF UpdateDetail, Active, InsertDetail
<1>14. CASE UpdateRow(r)
  <2>1. /\ req[r].kind = "update" /\ req[r].pc \in {"added", "stored"}
        /\ UNCHANGED <<server, details, inserted, writer, proxies, begun>>
    BY <1>14 DEF UpdateRow
  <2>2. \A row \in Row : Edited(r, row) \in Row
    <3> SUFFICES ASSUME NEW row \in Row PROVE Edited(r, row) \in Row
      OBVIOUS
    <3>1. NewRow(r) \in Row
      BY <1>1, <1>4, <2>1 DEF NewRow, Row, Work
    <3>2. [row EXCEPT !.server = req[r].server, !.at.ip = req[r].to.ip, !.port = req[r].port]
            \in Row
      BY <1>4, <2>1 DEF Row, Address
    <3> QED
      BY <3>1, <3>2 DEF Edited
  <2>3. \/ node' = node
        \/ /\ node[req[r].id] # None
           /\ node' = [node EXCEPT ![req[r].id] = Edited(r, @)]
    BY <1>14 DEF UpdateRow, Editable
  <2>4. node' \in [Id -> Row \cup {None}]
    BY <1>1, <2>2, <2>3 DEF Work
  <2>5. CASE Returns(r) /\ UNCHANGED <<faults, excused>>
    BY <1>1, <2>1, <2>4, <2>5, ReturnsGuarded, Assembled, QuietStartsNothing
  <2>6. CASE StatementFails(r)
    BY <1>1, <2>1, <2>4, <2>6, StatementFailsGuarded, Assembled, QuietStartsNothing
  <2> QED
    BY <1>14, <2>5, <2>6 DEF UpdateRow
<1>15. CASE DeleteDropsDetail(r)
  BY <1>3, <1>15, DeleteDetailGuarded, QuietStartsNothing DEF DeleteDropsDetail, Active, DeleteDetail
<1>16. CASE DeleteRow(r)
  <2>1. node' \in [Id -> Row \cup {None}]
    BY <1>1, <1>16 DEF DeleteRow
  <2>2. CASE Returns(r) /\ UNCHANGED <<faults, excused>>
    BY <1>1, <1>16, <2>1, <2>2, ReturnsGuarded, Assembled, QuietStartsNothing DEF DeleteRow
  <2>3. CASE StatementFails(r)
    BY <1>1, <1>16, <2>1, <2>3, StatementFailsGuarded, Assembled, QuietStartsNothing DEF DeleteRow
  <2> QED
    BY <1>16, <2>2, <2>3 DEF DeleteRow
<1>17. CASE AddressIsWritten(r)
  <2>1. req[r].kind \in {"rebind", "import"} /\ Active(r)
    BY <1>17 DEF AddressIsWritten, Active
  <2>2. /\ req[r].server \in Server /\ req[r].to \in Address
        /\ req[r].to.ip \in Place[req[r].server]
    BY <2>1 DEF Guarded, Shape, Prepared, Held
  <2>3. /\ server' \in [Server -> [at : Address,
                 status : {"new", "registered", "removing", "uninstalled", "gone"}]]
        /\ \A s \in Server : server'[s].status = server[s].status
        /\ \A s \in Server : server'[s].at.ip \in Place[s]
    BY <1>17, <2>2 DEF AddressIsWritten, Guarded, Shape, TypeOK, Sited
  <2>4. 1 \in Id
    BY BoundAssumption DEF Id
  <2>5. Idle \in Work /\ Idle.pc = "idle"
    BY <2>4 DEF Idle, Work, Pc, Kind, NodeLock
  <2>6. /\ req' \in [Request -> Work] /\ locks' \in [NodeLock -> Request \cup {None}]
        /\ req'[r].pc = "idle" /\ \A q \in Request \ {r} : req'[q] = req[q]
    BY <1>17, <2>5 DEF AddressIsWritten, Returns, Released, Guarded, Shape, TypeOK
  <2>7. Prepared' /\ Sited' /\ Held'
    BY <2>3, <2>6 DEF Guarded, Shape, Prepared, Sited, Held, Active, Registered
  <2>8. TypeOK'
    BY <1>17, <2>3, <2>6 DEF AddressIsWritten, bounds, Guarded, Shape, TypeOK
  <2> QED
    BY <1>17, <2>7, <2>8, QuietStartsNothing DEF AddressIsWritten, Guarded, Shape
<1> QED
  BY <1>5, <1>6, <1>7, <1>8, <1>9, <1>10, <1>11, <1>12, <1>13, <1>14, <1>15, <1>16, <1>17
     DEF Works

LEMMA BeginsTyped ==
  ASSUME TypeOK, Begins
  PROVE  begun' \in 0 .. MaxRequests
  BY BoundAssumption DEF TypeOK, Begins

(* A request begins with what its kind needs.                              *)
LEMMA RequestBegins ==
  ASSUME Guarded, NEW r \in Request, NEW new \in Work, req' = [req EXCEPT ![r] = new],
         new.kind # "delete" =>
           /\ new.server \in Server /\ new.to \in Address
           /\ new.to.ip \in Place[new.server],
         new.kind \in {"create", "update"} =>
           new.port \in Port /\ new.type \in Type /\ Registered(new.server),
         new.pc = "begun", Begins,
         UNCHANGED <<database, locks, writer, proxies, faults, excused>>
  PROVE  Guarded' /\ NoStart
<1>1. /\ req' \in [Request -> Work] /\ req'[r] = new
      /\ \A q \in Request \ {r} : req'[q] = req[q]
  BY DEF Guarded, Shape, TypeOK
<1>2. server' = server
  BY DEF database
<1>3. Prepared' /\ Sited' /\ Held'
  BY <1>1, <1>2 DEF Guarded, Shape, Prepared, Sited, Held, Active, Registered
<1>4. TypeOK'
  BY <1>1, BeginsTyped DEF Guarded, Shape, TypeOK, database
<1> QED
  BY <1>3, <1>4, QuietStartsNothing DEF Guarded, Shape

LEMMA BeginningsGuarded ==
  ASSUME Guarded, NEW r \in Request,
         \/ CreateBegins(r) \/ UpdateBegins(r) \/ DeleteBegins(r)
         \/ RebindBegins(r) \/ ImportBegins(r)
  PROVE  Guarded' /\ NoStart
<1>1. 1 \in Id
  BY BoundAssumption DEF Id
<1>2. \A s \in Server : server[s].at \in Address /\ server[s].at.ip \in Place[s]
  BY DEF Guarded, Shape, TypeOK, Sited
<1>3. CASE CreateBegins(r)
  <2>1. PICK s \in Server, p \in Port, t \in Type :
          /\ Registered(s)
          /\ req' = [req EXCEPT ![r] = [Idle EXCEPT !.pc = "begun", !.kind = "create",
                       !.server = s, !.to = server[s].at, !.port = p, !.type = t]]
    BY <1>3 DEF CreateBegins
  <2> DEFINE new == [Idle EXCEPT !.pc = "begun", !.kind = "create",
                       !.server = s, !.to = server[s].at, !.port = p, !.type = t]
  <2>2. /\ new \in Work /\ new.kind = "create" /\ new.server = s /\ new.to = server[s].at
        /\ new.port = p /\ new.type = t /\ new.pc = "begun"
    BY <1>1, <1>2 DEF Idle, Work, Pc, Kind, NodeLock
  <2>3. Begins /\ UNCHANGED <<database, locks, writer, proxies, faults, excused>>
    BY <1>3 DEF CreateBegins, RLock, Starts
  <2> HIDE DEF new
  <2>4. req' = [req EXCEPT ![r] = new]
    BY <2>1 DEF new
  <2> QED
    BY <1>2, <2>1, <2>2, <2>3, <2>4, RequestBegins
<1>4. CASE UpdateBegins(r)
  <2>1. PICK i \in Id, s \in Server, p \in Port, t \in Type :
          /\ Registered(s)
          /\ req' = [req EXCEPT ![r] = [Idle EXCEPT !.pc = "begun", !.kind = "update", !.id = i,
                       !.server = s, !.to = server[s].at, !.port = p, !.type = t]]
    BY <1>4 DEF UpdateBegins
  <2> DEFINE new == [Idle EXCEPT !.pc = "begun", !.kind = "update", !.id = i,
                       !.server = s, !.to = server[s].at, !.port = p, !.type = t]
  <2>2. /\ new \in Work /\ new.kind = "update" /\ new.server = s /\ new.to = server[s].at
        /\ new.port = p /\ new.type = t /\ new.pc = "begun"
    BY <1>1, <1>2 DEF Idle, Work, Pc, Kind, NodeLock
  <2>3. Begins /\ UNCHANGED <<database, locks, writer, proxies, faults, excused>>
    BY <1>4 DEF UpdateBegins, RLock, Starts
  <2> HIDE DEF new
  <2>4. req' = [req EXCEPT ![r] = new]
    BY <2>1 DEF new
  <2> QED
    BY <1>2, <2>1, <2>2, <2>3, <2>4, RequestBegins
<1>5. CASE DeleteBegins(r)
  <2>1. PICK i \in Id :
          req' = [req EXCEPT ![r] = [Idle EXCEPT !.pc = "begun", !.kind = "delete", !.id = i]]
    BY <1>5 DEF DeleteBegins
  <2> DEFINE new == [Idle EXCEPT !.pc = "begun", !.kind = "delete", !.id = i]
  <2>2. new \in Work /\ new.kind = "delete" /\ new.pc = "begun"
    BY <1>1 DEF Idle, Work, Pc, Kind, NodeLock
  <2>3. Begins /\ UNCHANGED <<database, locks, writer, proxies, faults, excused>>
    BY <1>5 DEF DeleteBegins, RLock, Starts
  <2> HIDE DEF new
  <2>4. req' = [req EXCEPT ![r] = new]
    BY <2>1 DEF new
  <2> QED
    BY <2>2, <2>3, <2>4, RequestBegins
<1>6. CASE RebindBegins(r)
  <2>1. PICK s \in Server, a \in Address :
          /\ a.ip \in Place[s]
          /\ req' = [req EXCEPT ![r] = [Idle EXCEPT !.pc = "begun", !.kind = "rebind",
                       !.server = s, !.to = a]]
    BY <1>6 DEF RebindBegins
  <2> DEFINE new == [Idle EXCEPT !.pc = "begun", !.kind = "rebind", !.server = s, !.to = a]
  <2>2. /\ new \in Work /\ new.kind = "rebind" /\ new.server = s /\ new.to = a
        /\ new.pc = "begun"
    BY <1>1 DEF Idle, Work, Pc, Kind, NodeLock
  <2>3. Begins /\ UNCHANGED <<database, locks, writer, proxies, faults, excused>>
    BY <1>6 DEF RebindBegins, RLock, Starts
  <2> HIDE DEF new
  <2>4. req' = [req EXCEPT ![r] = new]
    BY <2>1 DEF new
  <2> QED
    BY <2>1, <2>2, <2>3, <2>4, RequestBegins
<1>7. CASE ImportBegins(r)
  <2>1. PICK s \in Server, g \in Grpc :
          req' = [req EXCEPT ![r] = [Idle EXCEPT !.pc = "begun", !.kind = "import",
                    !.server = s, !.to = [server[s].at EXCEPT !.grpc = g]]]
    BY <1>7 DEF ImportBegins
  <2> DEFINE a == [server[s].at EXCEPT !.grpc = g]
             new == [Idle EXCEPT !.pc = "begun", !.kind = "import", !.server = s, !.to = a]
  <2>2. a \in Address /\ a.ip \in Place[s]
    BY <1>2 DEF Address
  <2>3. /\ new \in Work /\ new.kind = "import" /\ new.server = s /\ new.to = a
        /\ new.pc = "begun"
    BY <1>1, <2>2 DEF Idle, Work, Pc, Kind, NodeLock
  <2>4. Begins /\ UNCHANGED <<database, locks, writer, proxies, faults, excused>>
    BY <1>7 DEF ImportBegins, Starts
  <2>5. req' = [req EXCEPT ![r] = new]
    BY <2>1
  <2> HIDE DEF new, a
  <2> QED
    BY <2>2, <2>3, <2>4, <2>5, RequestBegins
<1> QED
  BY <1>3, <1>4, <1>5, <1>6, <1>7

-----------------------------------------------------------------------------
(* A removal begins and ends while no request reads.                       *)
LEMMA RemovalGuarded ==
  ASSUME Guarded, (\E s \in Server : Announces(s) \/ HostUninstalls(s) \/ CreateNodeServer(s)) \/ Writes
  PROVE  Guarded' /\ NoStart
<1>1. CASE \E s \in Server : Announces(s)
  <2>1. PICK s \in Server : Announces(s)
    BY <1>1
  <2>2. UNCHANGED <<database, locks, req, proxies, faults, excused>>
    BY <2>1 DEF Announces
  <2>3. begun' \in 0 .. MaxRequests
    BY <2>1, BeginsTyped DEF Announces, Guarded, Shape, TypeOK
  <2>4. Job(s) \subseteq {"begin", "cancel", "complete", "forget"}
    BY DEF Job
  <2>5. writer' \in [server : Server, job : {"begin", "cancel", "complete", "forget"}] \cup {None}
    BY <2>1, <2>4 DEF Announces
  <2> QED
    BY <2>2, <2>3, <2>5, QuietStartsNothing
       DEF Guarded, Shape, TypeOK, Prepared, Sited, Held, Active, Registered, database
<1>2. CASE \E s \in Server : HostUninstalls(s)
  <2>1. PICK s \in Server : HostUninstalls(s)
    BY <1>2
  <2>2. /\ server[s].status = "removing"
        /\ server' = [server EXCEPT ![s].status = "uninstalled"]
        /\ proxies' = [proxies EXCEPT ![server[s].at.ip] = {}]
        /\ UNCHANGED <<node, details, inserted, locks, writer, req, bounds, excused>>
    BY <2>1 DEF HostUninstalls
  <2>3. /\ server' \in [Server -> [at : Address,
                 status : {"new", "registered", "removing", "uninstalled", "gone"}]]
        /\ \A t \in Server : server'[t].at = server[t].at
        /\ \A t \in Server : Registered(t) => server'[t].status = "registered"
    BY <2>2 DEF Guarded, Shape, TypeOK, Registered
  <2>4. /\ proxies' \in [Ip -> SUBSET (Port \X Type)]
        /\ \A h \in Ip : proxies'[h] \subseteq proxies[h]
    BY <2>2 DEF Guarded, Shape, TypeOK
  <2>5. TypeOK'
    BY <2>2, <2>3, <2>4 DEF Guarded, Shape, TypeOK, bounds
  <2>6. Prepared' /\ Sited' /\ Held'
    BY <2>2, <2>3 DEF Guarded, Shape, Prepared, Sited, Held, Active, Registered
  <2>7. NoStart
    <3>1. \A t \in Server : server[t].at.ip \in Ip
      BY DEF Guarded, Shape, TypeOK, Address
    <3> QED
      BY <2>4, <3>1 DEF NoStart
  <2> QED
    BY <2>5, <2>6, <2>7 DEF Guarded, Shape
<1>3. CASE \E s \in Server : CreateNodeServer(s)
  <2>1. PICK s \in Server : CreateNodeServer(s)
    BY <1>3
  <2>2. /\ server' \in [Server -> [at : Address,
                 status : {"new", "registered", "removing", "uninstalled", "gone"}]]
        /\ \A t \in Server : server'[t].at = server[t].at
        /\ \A t \in Server : Registered(t) => server'[t].status = "registered"
    BY <2>1 DEF CreateNodeServer, Guarded, Shape, TypeOK, Registered
  <2>3. begun' \in 0 .. MaxRequests
    BY <2>1, BeginsTyped DEF CreateNodeServer, Guarded, Shape
  <2>4. TypeOK'
    BY <2>1, <2>2, <2>3 DEF CreateNodeServer, Guarded, Shape, TypeOK
  <2>5. Prepared' /\ Sited' /\ Held'
    BY <2>1, <2>2 DEF CreateNodeServer, Guarded, Shape, Prepared, Sited, Held, Active, Registered
  <2> QED
    BY <2>1, <2>4, <2>5, QuietStartsNothing DEF CreateNodeServer, Guarded, Shape
<1>4. CASE Writes
  <2> DEFINE s == writer.server
  <2>1. /\ writer # None /\ Readers = {} /\ writer' = None
        /\ UNCHANGED <<inserted, locks, req, proxies, bounds>>
    BY <1>4 DEF Writes
  <2>2. s \in Server
    BY <2>1 DEF Guarded, Shape, TypeOK
  <2>3. /\ \/ server' = server
           \/ \E st \in {"removing", "registered", "gone"} :
                server' = [server EXCEPT ![s].status = st]
        /\ node' \in [Id -> Row \cup {None}] /\ details' \subseteq Type \X Nat
    BY <1>4, <2>2 DEF Writes, Becomes, ClearNodeServerData, Guarded, Shape, TypeOK
  <2>4. /\ server' \in [Server -> [at : Address,
                 status : {"new", "registered", "removing", "uninstalled", "gone"}]]
        /\ \A t \in Server : server'[t].at = server[t].at
    BY <2>2, <2>3 DEF Guarded, Shape, TypeOK
  <2>5. excused' \subseteq Ip
    <3>1. \A row \in Row : row.at.ip \in Ip
      BY DEF Row, Address
    <3>2. RowsOf(s) \subseteq Row
      BY DEF RowsOf, Rows, Guarded, Shape, TypeOK
    <3>3. LeftBehind(s) \subseteq Ip
      BY <3>1, <3>2 DEF LeftBehind
    <3> QED
      BY <1>4, <3>3 DEF Writes, Guarded, Shape, TypeOK
  <2>6. TypeOK'
    BY <2>1, <2>3, <2>4, <2>5 DEF Guarded, Shape, TypeOK, bounds
  <2>7. \A r \in Request : req'[r] = req[r] /\ (Active(r) => req[r].kind = "import")
    BY <2>1 DEF Readers, Active
  <2>8. Prepared' /\ Sited' /\ Held'
    BY <2>4, <2>7 DEF Guarded, Shape, Prepared, Sited, Held, Active
  <2> QED
    BY <2>1, <2>6, <2>8, QuietStartsNothing DEF Guarded, Shape
<1> QED
  BY <1>1, <1>2, <1>3, <1>4

LEMMA StepGuarded ==
  ASSUME Guarded, [Next]_vars
  PROVE  Guarded' /\ NoStart
<1>1. CASE UNCHANGED vars
  BY <1>1, QuietStartsNothing
     DEF vars, database, bounds, Guarded, Shape, TypeOK, Prepared, Sited, Held, Active, Registered
<1>2. CASE Next
  BY <1>2, WorksGuarded, BeginningsGuarded, RemovalGuarded DEF Next
<1> QED
  BY <1>1, <1>2

(* The types of the tables, of the locks and of the requests.              *)
THEOREM TypeCorrect == Spec => []TypeOK
<1>1. Guarded /\ [Next]_vars => Guarded'
  BY StepGuarded
<1>2. Guarded => TypeOK
  BY DEF Guarded, Shape
<1> QED
  BY InitGuarded, <1>1, <1>2, PTL DEF Spec

(* No request starts a proxy on a host whose removal has begun, whatever   *)
(* calls and statements fail and whatever Redis locks are lost.            *)
THEOREM NoProxyIsStartedDuringRemoval == Spec => NothingStartsDuringRemoval
<1>1. Guarded /\ [Next]_vars => Guarded'
  BY StepGuarded
<1>2. Guarded /\ [Next]_vars =>
        [\A s \in Server : server[s].status \in {"removing", "uninstalled"} =>
           proxies'[server[s].at.ip] \subseteq proxies[server[s].at.ip]]_vars
  BY StepGuarded DEF NoStart
<1> QED
  BY InitGuarded, <1>1, <1>2, PTL DEF Spec, NothingStartsDuringRemoval

-----------------------------------------------------------------------------
(* The sub-table's row that a row of node, or a request, names.            *)
Pair(x) == <<x.type, x.sub>>

(* A request that works on a row it has read, one that has inserted a row  *)
(* of settings that no node names yet, and one that may have deleted the   *)
(* settings of node i and has not put others in their place.               *)
Reads(r) == Active(r) /\ req[r].kind \in {"update", "delete"} /\ req[r].pc # "begun"
Stored(r) == req[r].pc = "stored" /\ req[r].type \in Detailed
Drops(r, i) == Reads(r) /\ req[r].id = i /\ req[r].pc \in {"dropped", "stored"}

(* Only these kinds of request come to these places.                       *)
Placed ==
  \A r \in Request :
    /\ req[r].pc = "stored" => req[r].kind \in {"create", "update"}
    /\ req[r].kind = "update" /\ req[r].pc \in {"dropped", "stored"} => ~SameType(r)

(* The automatic ids are ahead of every sub-table id in use, so that the   *)
(* next one is new.                                                        *)
Counted(x) == x.type \in Detailed => x.sub <= inserted[x.type]

Numbered ==
  /\ \A d \in details : d[1] \in Detailed /\ d[2] <= inserted[d[1]]
  /\ \A i \in Id : node[i] # None => Counted(node[i])
  /\ \A r \in Request : /\ Reads(r) => Counted(req[r].old)
                        /\ Stored(r) => Counted(req[r])

(* Settings that were inserted for a request are there, and nobody else's. *)
Owned ==
  \A r \in Request : Stored(r) =>
    /\ Pair(req[r]) \in details
    /\ \A i \in Id : node[i] # None => Pair(node[i]) # Pair(req[r])
    /\ \A q \in Request : /\ Reads(q) => Pair(req[q].old) # Pair(req[r])
                          /\ q # r /\ Stored(q) => Pair(req[q]) # Pair(req[r])

(* No two nodes name the same settings, and a request deletes only those   *)
(* of its own node.                                                        *)
Distinct ==
  \A i \in Id : node[i] # None /\ node[i].type \in Detailed =>
    /\ \A j \in Id : node[j] # None /\ Pair(node[j]) = Pair(node[i]) => j = i
    /\ \A r \in Request : Reads(r) /\ Pair(req[r].old) = Pair(node[i]) => req[r].id = i

(* While a request works on a node, its server stays registered.           *)
Reachable ==
  \A r \in Request :
    Reads(r) /\ node[req[r].id] # None => Registered(node[req[r].id].server)

(* Settings are missing only while a request is about to replace them or   *)
(* to delete their node.                                                   *)
Kept ==
  faults.statement = 0 =>
    \A i \in Id : node[i] # None /\ node[i].type \in Detailed =>
      Pair(node[i]) \in details \/ \E r \in Request : Drops(r, i)

Books == Placed /\ Numbered /\ Owned /\ Distinct /\ Reachable /\ Kept

LEMMA InitBooks ==
  Init => Books
<1> SUFFICES ASSUME Init PROVE Books
  OBVIOUS
<1>1. First \in Row /\ 1 \in Id /\ First.sub \in Nat /\ First.type \in Type
  BY FirstAssumption, BoundAssumption DEF Id, Row
<1>2. \A r \in Request : req[r].pc = "idle"
  BY DEF Init, Idle
<1>3. \A r \in Request : ~Reads(r) /\ ~Stored(r)
  BY <1>2 DEF Reads, Stored, Active
<1>4. \A i \in Id : node[i] # None => i = 1 /\ node[i] = First
  BY DEF Init
<1>5. inserted[First.type] = First.sub
  BY <1>1 DEF Init
<1>6. Placed /\ Owned /\ Reachable
  BY <1>2, <1>3 DEF Placed, Owned, Reachable
<1>7. Numbered
  BY <1>1, <1>3, <1>4, <1>5 DEF Numbered, Counted, Init
<1>8. Distinct
  BY <1>3, <1>4 DEF Distinct
<1>9. Kept
  BY <1>4 DEF Kept, Pair, Init
<1> QED
  BY <1>6, <1>7, <1>8, <1>9 DEF Books

(* What a step does to the registrations while requests read.              *)
StaysRegistered == \A s \in Server : Registered(s) => Registered(s)'
FaultsStay == faults'.statement = 0 => faults.statement = 0

(* A request that begins, returns or goes to a place before its statements,*)
(* while tables stay as they are.                                          *)
LEMMA PauseKeepsBooks ==
  ASSUME Guarded, Books, NEW r \in Request, StaysRegistered, FaultsStay,
         UNCHANGED <<node, details, inserted>>,
         \A q \in Request \ {r} : req'[q] = req[q],
         req'[r].pc \in {"idle", "begun", "read", "removed", "added"},
         req'[r].pc \in {"read", "removed", "added"} /\ req'[r].kind \in {"update", "delete"} =>
           \/ Reads(r) /\ req'[r].old = req[r].old /\ req'[r].id = req[r].id
           \/ /\ req'[r].id \in Id /\ node[req'[r].id] # None
              /\ req'[r].old = node[req'[r].id]
              /\ Registered(node[req'[r].id].server),
         faults'.statement = 0 => \A i \in Id : Drops(r, i) => node[i] = None
  PROVE  Books'
<1>1. \A i \in Id : node[i] # None => node[i].server \in Server
  BY DEF Guarded, Shape, TypeOK, Row
<1>2. \A q \in Request : req[q].id \in Id
  BY DEF Guarded, Shape, TypeOK, Work
<1>3. \A q \in Request \ {r} : /\ Reads(q)' = Reads(q) /\ Stored(q)' = Stored(q)
                               /\ \A i \in Id : Drops(q, i)' = Drops(q, i)
  BY DEF Reads, Stored, Drops, Active
<1>4. ~Stored(r)' /\ \A i \in Id : ~Drops(r, i)'
  BY DEF Stored, Drops
<1>5. Reads(r)' =>
        \/ Reads(r) /\ req'[r].old = req[r].old /\ req'[r].id = req[r].id
        \/ /\ req'[r].id \in Id /\ node[req'[r].id] # None
           /\ req'[r].old = node[req'[r].id]
           /\ Registered(node[req'[r].id].server)
  BY DEF Reads, Active
<1>6. Placed'
  BY DEF Books, Placed, SameType
<1>7. Numbered'
  BY <1>3, <1>4, <1>5 DEF Books, Numbered, Counted
<1>8. Owned'
  BY <1>3, <1>4, <1>5 DEF Books, Owned, Pair
<1>9. Distinct'
  BY <1>3, <1>5 DEF Books, Distinct, Pair
<1>10. Reachable'
  BY <1>1, <1>2, <1>3, <1>5 DEF Books, Reachable, StaysRegistered
<1>11. Kept'
  <2> SUFFICES ASSUME faults'.statement = 0, NEW i \in Id, node[i] # None, node[i].type \in Detailed
               PROVE  Pair(node[i]) \in details \/ \E q \in Request : Drops(q, i)'
    BY DEF Kept, Pair
  <2> QED
    BY <1>3 DEF Books, Kept, FaultsStay
<1> QED
  BY <1>6, <1>7, <1>8, <1>9, <1>10, <1>11 DEF Books

(* A request deletes the settings of the node it works on.                 *)
LEMMA DropKeepsBooks ==
  ASSUME Guarded, Books, NEW r \in Request, Reads(r),
         req[r].kind = "update" => ~SameType(r),
         UNCHANGED <<server, node, inserted, faults>>,
         details' = details \ {Pair(req[r].old)},
         req' = [req EXCEPT ![r].pc = "dropped"]
  PROVE  Books'
<1>1. req[r] \in Work /\ req \in [Request -> Work]
  BY DEF Guarded, Shape, TypeOK
<1>2. /\ req'[r].pc = "dropped" /\ req'[r].kind = req[r].kind /\ req'[r].id = req[r].id
      /\ req'[r].old = req[r].old /\ req'[r].type = req[r].type
      /\ \A q \in Request \ {r} : req'[q] = req[q]
  BY <1>1 DEF Work
<1>3. \A q \in Request : Reads(q)' = Reads(q)
  BY <1>2 DEF Reads, Active
<1>4. \A q \in Request \ {r} : Stored(q)' = Stored(q) /\ \A i \in Id : Drops(q, i)' = Drops(q, i)
  BY <1>2 DEF Reads, Stored, Drops, Active
<1>5. ~Stored(r)' /\ Drops(r, req[r].id)'
  BY <1>2, <1>3 DEF Stored, Drops
<1>6. Placed'
  BY <1>2 DEF Books, Placed, SameType, Reads
<1>7. Numbered'
  BY <1>2, <1>3, <1>4, <1>5 DEF Books, Numbered, Counted
<1>8. Owned'
  BY <1>2, <1>3, <1>4, <1>5 DEF Books, Owned, Pair
<1>9. Distinct'
  BY <1>2, <1>3 DEF Books, Distinct, Pair
<1>10. Reachable'
  BY <1>2, <1>3 DEF Books, Reachable, Registered
<1>11. Kept'
  <2> SUFFICES ASSUME faults'.statement = 0, NEW i \in Id, node[i] # None, node[i].type \in Detailed
               PROVE  Pair(node[i]) \in details' \/ \E q \in Request : Drops(q, i)'
    BY DEF Kept, Pair
  <2>1. Pair(node[i]) = Pair(req[r].old) => req[r].id = i
    BY DEF Books, Distinct
  <2>2. Pair(node[i]) \in details \/ \E q \in Request : Drops(q, i)
    BY DEF Books, Kept
  <2>3. Drops(r, i) => i = req[r].id
    BY DEF Drops
  <2> QED
    BY <1>4, <1>5, <2>1, <2>2, <2>3
<1> QED
  BY <1>6, <1>7, <1>8, <1>9, <1>10, <1>11 DEF Books

(* A request inserts settings: their id is new.                            *)
LEMMA InsertKeepsBooks ==
  ASSUME Guarded, Books, NEW r \in Request, Active(r),
         \/ req[r].kind = "create" /\ req[r].pc = "added"
         \/ req[r].kind = "update" /\ req[r].pc = "dropped",
         UNCHANGED <<server, node, faults>>, NEW n \in Nat,
         /\ req'[r].pc = "stored" /\ req'[r].kind = req[r].kind /\ req'[r].id = req[r].id
         /\ req'[r].old = req[r].old /\ req'[r].type = req[r].type /\ req'[r].sub = n,
         \A q \in Request \ {r} : req'[q] = req[q],
         \/ /\ req[r].type \in Detailed
            /\ n = inserted[req[r].type] + 1
            /\ inserted' = [inserted EXCEPT ![req[r].type] = n]
            /\ details' = details \cup {<<req[r].type, n>>}
         \/ req[r].type \notin Detailed /\ UNCHANGED <<details, inserted>>
  PROVE  Books'
<1>1. /\ req[r] \in Work /\ req \in [Request -> Work] /\ inserted \in [Type -> Nat]
      /\ req[r].type \in Type /\ node \in [Id -> Row \cup {None}] /\ details \subseteq Type \X Nat
  BY DEF Guarded, Shape, TypeOK, Prepared, Active
<1>2. \A q \in Request : Reads(q)' = Reads(q) /\ (Reads(q) => req[q].old \in Row /\ req'[q].old = req[q].old)
  BY DEF Reads, Active, Guarded, Shape, Prepared
<1>3. \A q \in Request \ {r} : Stored(q)' = Stored(q) /\ \A i \in Id : Drops(q, i)' = Drops(q, i)
  BY DEF Reads, Stored, Drops, Active
<1>4. \A i \in Id : Drops(r, i) => Drops(r, i)'
  BY <1>2 DEF Drops
<1>5. ~Stored(r) /\ (Stored(r)' <=> req[r].type \in Detailed)
  BY DEF Stored
<1>6. \A t \in Type : inserted[t] <= inserted'[t]
  BY <1>1
<1>7. Placed'
  BY DEF Books, Placed, SameType
<1>8. \A q \in Request : Stored(q) => req[q].type \in Type /\ req[q].sub \in Nat
  BY DEF Stored, Books, Placed, Guarded, Shape, Prepared, Active, TypeOK, Work
<1>9. Numbered'
  <2>1. \A d \in details' : d[1] \in Detailed /\ d[2] <= inserted'[d[1]]
    <3>1. \A d \in details : d[1] \in Type /\ d[2] \in Nat
      BY <1>1
    <3> QED
      BY <1>1, <1>6, <3>1 DEF Books, Numbered
  <2>2. \A x \in Row : Counted(x) => Counted(x)'
    BY <1>1, <1>6 DEF Counted, Row
  <2>3. \A q \in Request \ {r} : Stored(q) => Counted(req[q]) /\ Counted(req[q])'
    BY <1>1, <1>6, <1>8 DEF Books, Numbered, Counted
  <2>4. Stored(r)' => Counted(req[r])'
    BY <1>1, <1>5 DEF Counted
  <2>5. \A q \in Request : Reads(q)' => Counted(req[q].old)'
    BY <1>2, <2>2 DEF Books, Numbered, Counted
  <2>6. \A i \in Id : node'[i] # None => Counted(node[i])'
    BY <1>1, <2>2 DEF Books, Numbered
  <2> QED
    BY <1>3, <2>1, <2>3, <2>4, <2>5, <2>6 DEF Numbered, Counted
<1>10. Owned'
  <2>1. CASE req[r].type \notin Detailed
    BY <1>2, <1>3, <1>5, <2>1 DEF Books, Owned, Pair
  <2>2. CASE /\ req[r].type \in Detailed
             /\ n = inserted[req[r].type] + 1
             /\ details' = details \cup {<<req[r].type, n>>}
    <3>1. \A x \in Row : Counted(x) => Pair(x) # <<req[r].type, n>>
      BY <1>1, <2>2 DEF Counted, Pair, Row
    <3>2. \A q \in Request : Stored(q) => Pair(req[q]) # <<req[r].type, n>>
      BY <1>1, <1>8, <2>2 DEF Books, Numbered, Counted, Pair
    <3>3. Pair(req[r])' = <<req[r].type, n>>
      BY DEF Pair
    <3>4. /\ Pair(req[r])' \in details'
          /\ \A i \in Id : node[i] # None => Pair(node[i])' # Pair(req[r])'
          /\ \A q \in Request : /\ Reads(q)' => Pair(req[q].old)' # Pair(req[r])'
                                /\ q # r /\ Stored(q)' => Pair(req[q])' # Pair(req[r])'
      BY <1>1, <1>2, <1>3, <2>2, <3>1, <3>2, <3>3 DEF Books, Numbered, Pair
    <3>5. \A p \in Request \ {r} : Stored(p)' =>
            /\ Pair(req[p])' \in details'
            /\ \A i \in Id : node[i] # None => Pair(node[i])' # Pair(req[p])'
            /\ \A q \in Request : /\ Reads(q)' => Pair(req[q].old)' # Pair(req[p])'
                                  /\ q # p /\ Stored(q)' => Pair(req[q])' # Pair(req[p])'
      BY <1>2, <1>3, <2>2, <3>2, <3>3 DEF Books, Owned, Pair
    <3> QED
      BY <3>4, <3>5 DEF Owned
  <2> QED
    BY <2>1, <2>2
<1>11. Distinct'
  BY <1>2 DEF Books, Distinct, Pair
<1>12. Reachable'
  BY <1>2 DEF Books, Reachable, Registered
<1>13. Kept'
  <2> SUFFICES ASSUME faults'.statement = 0, NEW i \in Id, node[i] # None, node[i].type \in Detailed
               PROVE  Pair(node[i]) \in details' \/ \E q \in Request : Drops(q, i)'
    BY DEF Kept, Pair
  <2>1. details \subseteq details'
    OBVIOUS
  <2> QED
    BY <1>3, <1>4, <2>1 DEF Books, Kept
<1> QED
  BY <1>7, <1>9, <1>10, <1>11, <1>12, <1>13 DEF Books

(* A request writes or deletes the row of a node and returns.              *)
LEMMA RowKeepsBooks ==
  ASSUME Guarded, Books, NEW r \in Request, Returns(r),
         UNCHANGED <<server, details, inserted, faults>>,
         NEW i \in Id, NEW x \in Row \cup {None}, node' = [node EXCEPT ![i] = x],
         x # None =>
           /\ Registered(x.server)
           /\ \/ node[i] # None /\ Pair(x) = Pair(node[i]) /\ ~Drops(r, i)
              \/ Pair(x) = Pair(req[r]) /\ (x.type \in Detailed => Stored(r)),
         \A j \in Id : Drops(r, j) => j = i
  PROVE  Books'
<1>1. node \in [Id -> Row \cup {None}] /\ req \in [Request -> Work]
  BY DEF Guarded, Shape, TypeOK
<1>2. node'[i] = x /\ \A j \in Id \ {i} : node'[j] = node[j]
  BY <1>1
<1>3. req'[r].pc = "idle" /\ \A q \in Request \ {r} : req'[q] = req[q]
  BY <1>1 DEF Returns, Idle
<1>4. \A q \in Request \ {r} : /\ Reads(q)' = Reads(q) /\ Stored(q)' = Stored(q)
                               /\ \A j \in Id : Drops(q, j)' = Drops(q, j)
  BY <1>3 DEF Reads, Stored, Drops, Active
<1>5. ~Reads(r)' /\ ~Stored(r)'
  BY <1>3 DEF Reads, Stored, Active
<1>6. Placed'
  BY <1>3 DEF Books, Placed, SameType
<1>7. Numbered'
  <2>1. x # None => Counted(x)
    BY DEF Books, Numbered, Counted, Pair, Stored
  <2> QED
    BY <1>2, <1>3, <1>4, <1>5, <2>1 DEF Books, Numbered, Counted
<1>8. Owned'
  <2>1. \A q \in Request \ {r} : Stored(q) /\ x # None => Pair(x) # Pair(req[q])
    BY DEF Books, Owned, Pair, Stored
  <2> QED
    BY <1>2, <1>3, <1>4, <1>5, <2>1 DEF Books, Owned, Pair
<1>9. Distinct'
  <2>1. ASSUME NEW j \in Id \ {i}, node[j] # None, node[j].type \in Detailed, x # None
        PROVE  Pair(x) # Pair(node[j])
    <3>1. CASE node[i] # None /\ Pair(x) = Pair(node[i])
      BY <2>1, <3>1 DEF Books, Distinct
    <3>2. CASE Pair(x) = Pair(req[r]) /\ (x.type \in Detailed => Stored(r))
      <4>1. Pair(node[j]) = Pair(x) => x.type \in Detailed
        BY <2>1 DEF Pair
      <4> QED
        BY <2>1, <3>2, <4>1 DEF Books, Owned
    <3> QED
      BY <2>1, <3>1, <3>2
  <2>2. ASSUME NEW q \in Request, x # None, x.type \in Detailed, Reads(q),
               Pair(req[q].old) = Pair(x)
        PROVE  req[q].id = i
    <3>1. CASE node[i] # None /\ Pair(x) = Pair(node[i])
      <4>1. node[i].type \in Detailed
        BY <2>2, <3>1 DEF Pair
      <4> QED
        BY <2>2, <3>1, <4>1 DEF Books, Distinct
    <3>2. CASE Pair(x) = Pair(req[r]) /\ (x.type \in Detailed => Stored(r))
      BY <2>2, <3>2 DEF Books, Owned
    <3> QED
      BY <2>2, <3>1, <3>2
  <2> QED
    BY <1>2, <1>3, <1>4, <1>5, <2>1, <2>2 DEF Books, Distinct, Pair
<1>10. Reachable'
  BY <1>2, <1>3, <1>4, <1>5 DEF Books, Reachable, Registered
<1>11. Kept'
  <2> SUFFICES ASSUME faults'.statement = 0, NEW j \in Id, node'[j] # None, node'[j].type \in Detailed
               PROVE  Pair(node'[j]) \in details \/ \E q \in Request : Drops(q, j)'
    BY DEF Kept, Pair
  <2>1. CASE j # i
    BY <1>2, <1>4, <2>1 DEF Books, Kept
  <2>2. CASE j = i /\ Pair(x) = Pair(req[r]) /\ (x.type \in Detailed => Stored(r))
    BY <1>2, <2>2 DEF Books, Owned
  <2>3. CASE j = i /\ node[i] # None /\ Pair(x) = Pair(node[i]) /\ ~Drops(r, i)
    BY <1>2, <1>4, <2>3 DEF Books, Kept, Pair
  <2> QED
    BY <1>2, <2>1, <2>2, <2>3
<1> QED
  BY <1>6, <1>7, <1>8, <1>9, <1>10, <1>11 DEF Books

(* A request takes back the settings it inserted for no node, and returns. *)
LEMMA TakeBackKeepsBooks ==
  ASSUME Guarded, Books, NEW r \in Request, Returns(r), FaultsStay,
         req[r].kind = "create" /\ req[r].pc = "stored",
         UNCHANGED <<server, node, inserted>>,
         details' = details \ {Pair(req[r])}
  PROVE  Books'
<1>1. req \in [Request -> Work]
  BY DEF Guarded, Shape, TypeOK
<1>2. req'[r].pc = "idle" /\ \A q \in Request \ {r} : req'[q] = req[q]
  BY <1>1 DEF Returns, Idle
<1>3. \A q \in Request \ {r} : /\ Reads(q)' = Reads(q) /\ Stored(q)' = Stored(q)
                               /\ \A j \in Id : Drops(q, j)' = Drops(q, j)
  BY <1>2 DEF Reads, Stored, Drops, Active
<1>4. ~Reads(r)' /\ ~Stored(r)' /\ \A j \in Id : ~Drops(r, j)
  BY <1>2 DEF Reads, Stored, Drops, Active
<1>5. Placed'
  BY <1>2 DEF Books, Placed, SameType
<1>6. Numbered' /\ Distinct' /\ Reachable'
  BY <1>2, <1>3, <1>4 DEF Books, Numbered, Counted, Distinct, Reachable, Registered, Pair
<1>7. Owned'
  <2> SUFFICES ASSUME NEW q \in Request \ {r}, Stored(q)
               PROVE  /\ Pair(req[q]) \in details'
                      /\ \A i \in Id : node[i] # None => Pair(node[i]) # Pair(req[q])
                      /\ \A p \in Request \ {r} :
                           /\ Reads(p) => Pair(req[p].old) # Pair(req[q])
                           /\ p # q /\ Stored(p) => Pair(req[p]) # Pair(req[q])
    BY <1>2, <1>3, <1>4 DEF Owned, Pair
  <2>1. Pair(req[q]) # Pair(req[r])
    <3>1. CASE Stored(r)
      BY <3>1 DEF Books, Owned
    <3>2. CASE ~Stored(r)
      BY <3>2 DEF Stored, Pair
    <3> QED
      BY <3>1, <3>2
  <2> QED
    BY <2>1 DEF Books, Owned
<1>8. Kept'
  <2> SUFFICES ASSUME faults'.statement = 0, NEW i \in Id, node[i] # None, node[i].type \in Detailed
               PROVE  Pair(node[i]) \in details' \/ \E q \in Request : Drops(q, i)'
    BY DEF Kept, Pair
  <2>1. Pair(node[i]) # Pair(req[r])
    <3>1. CASE Stored(r)
      BY <3>1 DEF Books, Owned
    <3>2. CASE ~Stored(r)
      BY <3>2 DEF Stored, Pair
    <3> QED
      BY <3>1, <3>2
  <2> QED
    BY <1>3, <1>4, <2>1 DEF Books, Kept, FaultsStay
<1> QED
  BY <1>5, <1>6, <1>7, <1>8 DEF Books

(* A request returns, and no settings are missing on its account.          *)
LEMMA ReturnKeepsBooks ==
  ASSUME Guarded, Books, NEW r \in Request, Returns(r), StaysRegistered, FaultsStay,
         UNCHANGED <<node, details, inserted>>,
         faults'.statement = 0 => \A i \in Id : Drops(r, i) => node[i] = None
  PROVE  Books'
<1>1. req \in [Request -> Work]
  BY DEF Guarded, Shape, TypeOK
<1>2. req'[r].pc = "idle" /\ \A q \in Request \ {r} : req'[q] = req[q]
  BY <1>1 DEF Returns, Idle
<1> QED
  BY <1>2, PauseKeepsBooks

LEMMA StatementFailsKeepsBooks ==
  ASSUME Guarded, Books, NEW r \in Request, StatementFails(r),
         UNCHANGED <<server, node, details, inserted>>
  PROVE  Books'
<1>1. faults'.statement # 0
  BY DEF StatementFails, Fails, Guarded, Shape, TypeOK
<1>2. StaysRegistered /\ FaultsStay /\ Returns(r)
  BY <1>1 DEF StaysRegistered, Registered, FaultsStay, StatementFails
<1> QED
  BY <1>1, <1>2, ReturnKeepsBooks

(* A call to a host, which a request makes before its statements.          *)
LEMMA CallKeepsBooks ==
  ASSUME Guarded, Books, NEW r \in Request, Active(r), NEW pc \in {"removed", "added"},
         \E lost \in BOOLEAN : Answered(r, pc, lost),
         faults' = faults \/ Fails("call"),
         req[r].pc \notin {"dropped", "stored"},
         req[r].kind \in {"update", "delete"} => req[r].pc # "begun",
         UNCHANGED database
  PROVE  Books'
<1>1. req[r] \in Work /\ req \in [Request -> Work]
  BY DEF Guarded, Shape, TypeOK
<1>2. req' = [req EXCEPT ![r].pc = pc]
  BY DEF Answered
<1>3. /\ req'[r].pc = pc /\ req'[r].kind = req[r].kind /\ req'[r].old = req[r].old
      /\ req'[r].id = req[r].id /\ \A q \in Request \ {r} : req'[q] = req[q]
  BY <1>1, <1>2 DEF Work
<1>4. StaysRegistered /\ FaultsStay
  BY DEF StaysRegistered, Registered, FaultsStay, Fails, database, Guarded, Shape, TypeOK
<1>5. req[r].kind \in {"update", "delete"} => Reads(r)
  BY DEF Reads
<1>6. \A i \in Id : ~Drops(r, i)
  BY DEF Drops
<1>7. UNCHANGED <<node, details, inserted>>
  BY DEF database
<1> HIDE DEF StaysRegistered, FaultsStay
<1> QED
  BY <1>3, <1>4, <1>5, <1>6, <1>7, PauseKeepsBooks

LEMMA InsertDetailKeepsBooks ==
  ASSUME Guarded, Books, NEW r \in Request, InsertDetail(r),
         \/ req[r].kind = "create" /\ req[r].pc = "added"
         \/ req[r].kind = "update" /\ req[r].pc = "dropped"
  PROVE  Books'
<1>1. UNCHANGED <<server, node>> /\ Active(r)
  BY DEF InsertDetail, Active
<1>2. /\ req[r] \in Work /\ req \in [Request -> Work] /\ inserted \in [Type -> Nat]
      /\ req[r].type \in Type
  BY <1>1 DEF Guarded, Shape, TypeOK, Prepared
<1>3. CASE StatementFails(r) /\ UNCHANGED <<details, inserted>>
  BY <1>1, <1>3, StatementFailsKeepsBooks
<1>4. CASE /\ req[r].type \in Detailed
           /\ inserted' = [inserted EXCEPT ![req[r].type] = @ + 1]
           /\ details' = details \cup {<<req[r].type, inserted'[req[r].type]>>}
           /\ req' = [req EXCEPT ![r].pc = "stored", ![r].sub = inserted'[req[r].type]]
           /\ faults' = faults
  <2> DEFINE n == inserted[req[r].type] + 1
  <2>1. n \in Nat /\ inserted'[req[r].type] = n
    BY <1>2, <1>4
  <2>2. /\ inserted' = [inserted EXCEPT ![req[r].type] = n]
        /\ details' = details \cup {<<req[r].type, n>>}
        /\ req' = [req EXCEPT ![r].pc = "stored", ![r].sub = n]
    BY <1>4, <2>1
  <2>3. /\ req'[r].pc = "stored" /\ req'[r].kind = req[r].kind /\ req'[r].id = req[r].id
        /\ req'[r].old = req[r].old /\ req'[r].type = req[r].type /\ req'[r].sub = n
        /\ \A q \in Request \ {r} : req'[q] = req[q]
    BY <1>2, <2>1, <2>2 DEF Work
  <2>4. n = inserted[req[r].type] + 1
    OBVIOUS
  <2> HIDE DEF n
  <2> QED
    BY <1>1, <1>4, <2>1, <2>2, <2>3, <2>4, InsertKeepsBooks
<1>5. CASE /\ req[r].type \notin Detailed
           /\ req' = [req EXCEPT ![r].pc = "stored", ![r].sub = 0]
           /\ UNCHANGED <<details, inserted, faults>>
  <2>1. /\ req'[r].pc = "stored" /\ req'[r].kind = req[r].kind /\ req'[r].id = req[r].id
        /\ req'[r].old = req[r].old /\ req'[r].type = req[r].type /\ req'[r].sub = 0
        /\ \A q \in Request \ {r} : req'[q] = req[q]
    BY <1>2, <1>5 DEF Work
  <2> QED
    BY <1>1, <1>5, <2>1, InsertKeepsBooks
<1> QED
  BY <1>3, <1>4, <1>5 DEF InsertDetail

LEMMA DeleteDetailKeepsBooks ==
  ASSUME Guarded, Books, NEW r \in Request, Reads(r), DeleteDetail(r),
         req[r].kind = "update" => ~SameType(r)
  PROVE  Books'
<1>1. UNCHANGED <<server, node, inserted>>
  BY DEF DeleteDetail
<1>2. CASE StatementFails(r) /\ UNCHANGED details
  BY <1>1, <1>2, StatementFailsKeepsBooks
<1>3. CASE /\ details' = details \ {<<req[r].old.type, req[r].old.sub>>}
           /\ Goes(r, "dropped") /\ UNCHANGED <<faults, excused>>
  <2>1. details' = details \ {Pair(req[r].old)} /\ req' = [req EXCEPT ![r].pc = "dropped"]
    BY <1>3 DEF Goes, Pair
  <2> QED
    BY <1>1, <1>3, <2>1, DropKeepsBooks
<1> QED
  BY <1>2, <1>3 DEF DeleteDetail

LEMMA CreateRowKeepsBooks ==
  ASSUME Guarded, Books, NEW r \in Request, CreateRow(r)
  PROVE  Books'
<1>1. /\ req[r] \in Work /\ req[r].kind = "create" /\ req[r].pc = "stored" /\ Active(r)
      /\ UNCHANGED <<server, inserted>> /\ Returns(r)
  BY DEF CreateRow, Active, Guarded, Shape, TypeOK
<1>2. CASE /\ Registered(req[r].server)
           /\ \E i \in Id : node[i] = None /\ node' = [node EXCEPT ![i] = NewRow(r)]
           /\ UNCHANGED <<details, faults, excused>>
  <2>1. PICK i \in Id : node[i] = None /\ node' = [node EXCEPT ![i] = NewRow(r)]
    BY <1>2
  <2>2. /\ NewRow(r) \in Row /\ NewRow(r).server = req[r].server
        /\ Pair(NewRow(r)) = Pair(req[r]) /\ NewRow(r).type = req[r].type
    BY <1>1 DEF NewRow, Row, Pair, Work, Guarded, Shape, Prepared
  <2>3. req[r].type \in Detailed => Stored(r)
    BY <1>1 DEF Stored
  <2>4. \A j \in Id : ~Drops(r, j)
    BY <1>1 DEF Drops, Reads
  <2> QED
    BY <1>1, <1>2, <2>1, <2>2, <2>3, <2>4, RowKeepsBooks
<1>3. CASE /\ IF Registered(req[r].server) THEN Fails("statement") ELSE UNCHANGED faults
           /\ details' = details \ {<<req[r].type, req[r].sub>>}
           /\ UNCHANGED node
  <2>1. FaultsStay
    BY <1>3 DEF FaultsStay, Fails, Guarded, Shape, TypeOK
  <2>2. details' = details \ {Pair(req[r])}
    BY <1>3 DEF Pair
  <2> QED
    BY <1>1, <1>3, <2>1, <2>2, TakeBackKeepsBooks
<1> QED
  BY <1>2, <1>3 DEF CreateRow

LEMMA UpdateRowKeepsBooks ==
  ASSUME Guarded, Books, NEW r \in Request, UpdateRow(r)
  PROVE  Books'
<1>1. /\ req[r] \in Work /\ req[r].kind = "update" /\ UNCHANGED <<server, details, inserted>>
      /\ req[r].pc = IF SameType(r) THEN "added" ELSE "stored"
  BY DEF UpdateRow, Guarded, Shape, TypeOK
<1>2. Active(r) /\ Reads(r)
  BY <1>1 DEF Reads, Active
<1>3. /\ req[r].old \in Row /\ req[r].server \in Server /\ req[r].to \in Address
      /\ req[r].port \in Port /\ req[r].type \in Type /\ Registered(req[r].server)
      /\ req[r].id \in Id /\ req[r].sub \in Nat
  BY <1>1, <1>2 DEF Guarded, Shape, Prepared, Held, Active, Work
<1>4. StaysRegistered
  BY <1>1 DEF StaysRegistered, Registered
<1>5. \A i \in Id : Drops(r, i) => i = req[r].id /\ ~SameType(r)
  BY <1>1 DEF Drops
<1>6. CASE /\ Editable(r)
           /\ node' = [node EXCEPT ![req[r].id] = Edited(r, @)]
           /\ Returns(r) /\ UNCHANGED <<faults, excused>>
  <2> DEFINE i == req[r].id
             x == Edited(r, node[i])
  <2>1. node[i] # None /\ node[i] \in Row
    BY <1>3, <1>6 DEF Editable, Guarded, Shape, TypeOK
  <2>2. CASE SameType(r)
    <3>1. x = [node[i] EXCEPT !.server = req[r].server, !.at.ip = req[r].to.ip, !.port = req[r].port]
      BY <2>2 DEF Edited
    <3>2. x \in Row /\ x.server = req[r].server /\ Pair(x) = Pair(node[i])
      <4> HIDE DEF x
      <4>1. /\ node[i].at \in Address /\ [node[i].at EXCEPT !.ip = req[r].to.ip] \in Address
            /\ node[i].type \in Type /\ node[i].sub \in Nat
        BY <1>3, <2>1 DEF Row, Address
      <4>2. x = [server |-> req[r].server, at |-> [node[i].at EXCEPT !.ip = req[r].to.ip],
                 port |-> req[r].port, type |-> node[i].type, sub |-> node[i].sub]
        BY <2>1, <3>1 DEF Row
      <4> QED
        BY <1>3, <4>1, <4>2 DEF Row, Pair
    <3>3. ~Drops(r, i)
      BY <1>3, <1>5, <2>2
    <3>4. node' = [node EXCEPT ![i] = x]
      BY <1>6
    <3> HIDE DEF x
    <3> QED
      BY <1>1, <1>3, <1>5, <1>6, <2>1, <3>2, <3>3, <3>4, RowKeepsBooks
  <2>3. CASE ~SameType(r)
    <3>1. x = NewRow(r)
      BY <2>3 DEF Edited
    <3>2. /\ x \in Row /\ x.server = req[r].server /\ Pair(x) = Pair(req[r])
          /\ x.type = req[r].type
      BY <1>3, <3>1 DEF NewRow, Row, Pair
    <3>3. req[r].type \in Detailed => Stored(r)
      BY <1>1, <2>3 DEF Stored
    <3>4. node' = [node EXCEPT ![i] = x]
      BY <1>6
    <3> HIDE DEF x
    <3> QED
      BY <1>1, <1>3, <1>5, <1>6, <3>2, <3>3, <3>4, RowKeepsBooks
  <2> QED
    BY <2>2, <2>3
<1>7. CASE /\ ~Changed(r) \/ ~Editable(r)
           /\ Returns(r) /\ UNCHANGED <<node, faults, excused>>
  <2>1. Editable(r) \/ node[req[r].id] = None
    BY <1>2, <1>3 DEF Books, Reachable, Editable
  <2>2. ~SameType(r) => node[req[r].id] = None
    BY <1>7, <2>1 DEF Changed
  <2>3. FaultsStay /\ \A i \in Id : Drops(r, i) => node[i] = None
    BY <1>5, <1>7, <2>2 DEF FaultsStay
  <2> HIDE DEF FaultsStay, StaysRegistered
  <2> QED
    BY <1>1, <1>4, <1>7, <2>3, ReturnKeepsBooks
<1>8. CASE StatementFails(r) /\ UNCHANGED node
  BY <1>1, <1>8, StatementFailsKeepsBooks
<1> QED
  BY <1>6, <1>7, <1>8 DEF UpdateRow

LEMMA DeleteRowKeepsBooks ==
  ASSUME Guarded, Books, NEW r \in Request, DeleteRow(r)
  PROVE  Books'
<1>1. /\ UNCHANGED <<server, details, inserted>> /\ req[r].id \in Id
      /\ \A i \in Id : Drops(r, i) => i = req[r].id
  BY DEF DeleteRow, Drops, Guarded, Shape, TypeOK, Work
<1>2. CASE StatementFails(r) /\ UNCHANGED node
  BY <1>1, <1>2, StatementFailsKeepsBooks
<1>3. CASE node' = [node EXCEPT ![req[r].id] = None] /\ Returns(r) /\ UNCHANGED <<faults, excused>>
  BY <1>1, <1>3, RowKeepsBooks
<1> QED
  BY <1>2, <1>3 DEF DeleteRow

LEMMA ReadsNodeKeepsBooks ==
  ASSUME Guarded, Books, NEW r \in Request, ReadsNode(r)
  PROVE  Books'
<1> DEFINE i == req[r].id
<1>1. /\ req[r] \in Work /\ req \in [Request -> Work] /\ i \in Id /\ req[r].pc = "begun"
      /\ UNCHANGED <<server, node, details, inserted, faults>>
  BY DEF ReadsNode, database, bounds, Guarded, Shape, TypeOK, Work
<1>2. StaysRegistered /\ FaultsStay /\ \A j \in Id : ~Drops(r, j)
  BY <1>1 DEF StaysRegistered, Registered, FaultsStay, Drops
<1>3. CASE Returns(r)
  BY <1>1, <1>2, <1>3, ReturnKeepsBooks
<1>4. CASE /\ node[i] # None /\ Registered(node[i].server)
           /\ req' = [req EXCEPT ![r].pc = "read", ![r].old = node[i]]
  <2>1. /\ req'[r].pc = "read" /\ req'[r].id = i /\ req'[r].old = node[i]
        /\ \A q \in Request \ {r} : req'[q] = req[q]
    BY <1>1, <1>4 DEF Work
  <2> HIDE DEF StaysRegistered, FaultsStay
  <2> QED
    BY <1>1, <1>2, <1>4, <2>1, PauseKeepsBooks
<1> QED
  BY <1>3, <1>4 DEF ReadsNode

(* The steps of a request that has begun.                                  *)
LEMMA WorksKeepsBooks ==
  ASSUME Guarded, Books, NEW r \in Request, Works(r)
  PROVE  Books'
<1>1. CASE LockRefused(r)
  <2>1. /\ Returns(r) /\ UNCHANGED <<server, node, details, inserted, faults>>
        /\ req[r].pc = "begun"
    BY <1>1 DEF LockRefused, database, bounds
  <2>2. StaysRegistered /\ FaultsStay /\ \A i \in Id : ~Drops(r, i)
    BY <2>1 DEF StaysRegistered, Registered, FaultsStay, Drops
  <2> HIDE DEF StaysRegistered, FaultsStay
  <2> QED
    BY <2>1, <2>2, ReturnKeepsBooks
<1>2. CASE CreateAdds(r)
  <2>1. /\ Active(r) /\ req[r].kind = "create" /\ req[r].pc = "begun" /\ UNCHANGED database
        /\ \E lost \in BOOLEAN : Answered(r, "added", lost)
        /\ faults' = faults \/ Fails("call")
    BY <1>2 DEF CreateAdds, Active, GrpcAddNode
  <2> QED
    BY <2>1, CallKeepsBooks
<1>3. CASE Removes(r)
  <2>1. /\ Active(r) /\ req[r].pc = "read" /\ UNCHANGED database
        /\ \E lost \in BOOLEAN : Answered(r, "removed", lost)
        /\ faults' = faults \/ Fails("call")
    BY <1>3 DEF Removes, Active, GrpcRemoveNode
  <2> QED
    BY <2>1, CallKeepsBooks
<1>4. CASE UpdateAdds(r)
  <2>1. /\ Active(r) /\ req[r].pc = "removed" /\ UNCHANGED database
        /\ \E lost \in BOOLEAN : Answered(r, "added", lost)
        /\ faults' = faults \/ Fails("call")
    BY <1>4 DEF UpdateAdds, Active, GrpcAddNode
  <2> QED
    BY <2>1, CallKeepsBooks
<1>5. CASE CreateDetail(r) \/ UpdateDetail(r)
  BY <1>5, InsertDetailKeepsBooks DEF CreateDetail, UpdateDetail
<1>6. CASE UpdateDropsDetail(r) \/ DeleteDropsDetail(r)
  <2>1. Reads(r)
    BY <1>6 DEF UpdateDropsDetail, DeleteDropsDetail, Reads, Active
  <2> QED
    BY <1>6, <2>1, DeleteDetailKeepsBooks DEF UpdateDropsDetail, DeleteDropsDetail
<1>7. CASE AddressIsWritten(r)
  <2>1. /\ Returns(r) /\ UNCHANGED <<node, details, inserted, faults>>
        /\ req[r].kind \in {"rebind", "import"}
    BY <1>7 DEF AddressIsWritten, bounds
  <2>2. \A s \in Server : server'[s].status = server[s].status
    BY <1>7 DEF AddressIsWritten, Guarded, Shape, TypeOK
  <2>3. StaysRegistered /\ FaultsStay /\ \A i \in Id : ~Drops(r, i)
    BY <2>1, <2>2 DEF StaysRegistered, Registered, FaultsStay, Drops, Reads
  <2> HIDE DEF StaysRegistered, FaultsStay
  <2> QED
    BY <2>1, <2>3, ReturnKeepsBooks
<1> QED
  BY <1>1, <1>2, <1>3, <1>4, <1>5, <1>6, <1>7, CreateRowKeepsBooks, UpdateRowKeepsBooks,
     DeleteRowKeepsBooks, ReadsNodeKeepsBooks DEF Works

LEMMA BeginningsKeepBooks ==
  ASSUME Guarded, Books, NEW r \in Request,
         \/ CreateBegins(r) \/ UpdateBegins(r) \/ DeleteBegins(r)
         \/ RebindBegins(r) \/ ImportBegins(r)
  PROVE  Books'
<1>1. /\ UNCHANGED <<server, node, details, inserted, faults>>
      /\ req[r].pc = "idle"
  BY DEF CreateBegins, UpdateBegins, DeleteBegins, RebindBegins, ImportBegins, RLock, Starts, database
<1>2. req \in [Request -> Work]
  BY DEF Guarded, Shape, TypeOK
<1>3. req'[r].pc = "begun" /\ \A q \in Request \ {r} : req'[q] = req[q]
  <2>1. CASE CreateBegins(r)
    BY <1>2, <2>1 DEF CreateBegins, Idle
  <2>2. CASE UpdateBegins(r)
    BY <1>2, <2>2 DEF UpdateBegins, Idle
  <2>3. CASE DeleteBegins(r)
    BY <1>2, <2>3 DEF DeleteBegins, Idle
  <2>4. CASE RebindBegins(r)
    BY <1>2, <2>4 DEF RebindBegins, Idle
  <2>5. CASE ImportBegins(r)
    BY <1>2, <2>5 DEF ImportBegins, Idle
  <2> QED
    BY <2>1, <2>2, <2>3, <2>4, <2>5
<1>4. StaysRegistered /\ FaultsStay /\ \A i \in Id : ~Drops(r, i)
  BY <1>1 DEF StaysRegistered, Registered, FaultsStay, Drops, Reads, Active
<1> HIDE DEF StaysRegistered, FaultsStay
<1> QED
  BY <1>1, <1>3, <1>4, PauseKeepsBooks

(* A removal deletes the settings of the rows it deletes, and of no other. *)
LEMMA RemovalKeepsBooks ==
  ASSUME Guarded, Books,
         (\E s \in Server : Announces(s) \/ HostUninstalls(s) \/ CreateNodeServer(s)) \/ Writes
  PROVE  Books'
<1>1. /\ node \in [Id -> Row \cup {None}]
      /\ \A i \in Id : node[i] # None => node[i].server \in Server
      /\ \A r \in Request : req[r].id \in Id
  BY DEF Guarded, Shape, TypeOK, Row, Work
<1>2. CASE \E s \in Server : Announces(s) \/ HostUninstalls(s) \/ CreateNodeServer(s)
  <2>1. UNCHANGED <<node, details, inserted, req, faults>>
    BY <1>2 DEF Announces, HostUninstalls, CreateNodeServer, database, bounds
  <2>2. \A s \in Server : Registered(s) => Registered(s)'
    BY <1>2 DEF Announces, HostUninstalls, CreateNodeServer, database, Registered, Guarded, Shape, TypeOK
  <2> QED
    BY <1>1, <2>1, <2>2
       DEF Books, Placed, SameType, Numbered, Counted, Owned, Distinct, Reachable, Kept,
           Reads, Stored, Drops, Active, Pair
<1>3. CASE Writes
  <2>1. UNCHANGED <<inserted, req, faults>> /\ Readers = {}
    BY <1>3 DEF Writes, bounds
  <2>2. \A r \in Request : Active(r) => req[r].kind = "import"
    BY <2>1 DEF Readers, Active
  <2>3. \A r \in Request : ~Reads(r) /\ ~Reads(r)' /\ ~Stored(r) /\ ~Stored(r)'
    BY <2>1, <2>2 DEF Reads, Stored, Active, Books, Placed
  <2>4. Placed' /\ Owned' /\ Reachable'
    BY <2>1, <2>3 DEF Books, Placed, SameType, Owned, Reachable
  <2>5. CASE UNCHANGED <<node, details>>
    BY <2>1, <2>3, <2>4, <2>5
       DEF Books, Numbered, Counted, Distinct, Kept, Drops, Pair
  <2>6. CASE ClearNodeServerData(writer.server)
    <3> DEFINE s == writer.server
    <3>1. \A i \in Id : node'[i] # None => node'[i] = node[i] /\ node[i] \notin RowsOf(s)
      BY <2>6 DEF ClearNodeServerData
    <3>2. details' = details \ {Pair(row) : row \in RowsOf(s)}
      BY <2>6 DEF ClearNodeServerData, Pair
    <3>3. Numbered' /\ Distinct'
      BY <2>1, <2>3, <3>1, <3>2 DEF Books, Numbered, Counted, Distinct, Pair
    <3>4. Kept'
      <4> SUFFICES ASSUME faults.statement = 0, NEW i \in Id, node'[i] # None, node'[i].type \in Detailed
                   PROVE  Pair(node[i]) \in details'
        BY <2>1, <3>1 DEF Kept, Pair
      <4>1. node[i] # None /\ node[i].type \in Detailed /\ node[i] \notin RowsOf(s)
        BY <3>1
      <4>2. Pair(node[i]) \in details
        BY <2>3, <4>1 DEF Books, Kept, Drops
      <4>3. ASSUME NEW row \in RowsOf(s) PROVE Pair(row) # Pair(node[i])
        <5>1. PICK j \in Id : row = node[j] /\ node[j] # None
          BY <4>3 DEF RowsOf, Rows
        <5>2. j # i
          BY <4>1, <5>1
        <5> QED
          BY <4>1, <5>1, <5>2 DEF Books, Distinct
      <4> QED
        BY <3>2, <4>2, <4>3
    <3> QED
      BY <2>4, <3>3, <3>4 DEF Books
  <2> QED
    BY <1>3, <2>5, <2>6 DEF Writes, Becomes
<1> QED
  BY <1>2, <1>3

LEMMA StepKeepsBooks ==
  ASSUME Guarded, Books, [Next]_vars
  PROVE  Books'
<1>1. CASE UNCHANGED vars
  BY <1>1 DEF vars, database, bounds, Books, Placed, SameType, Numbered, Counted, Owned, Distinct,
              Reachable, Registered, Kept, Reads, Stored, Drops, Active, Pair
<1>2. CASE Next
  BY <1>2, WorksKeepsBooks, BeginningsKeepBooks, RemovalKeepsBooks DEF Next
<1> QED
  BY <1>1, <1>2

LEMMA BooksAreRight ==
  ASSUME Books
  PROVE  DetailsExist
<1> SUFFICES ASSUME AtRest, faults.statement = 0, NEW i \in Id, node[i] # None
             PROVE  /\ HasURL(i)
                    /\ \A j \in Id \ {i} : node[j] # None => Settings(i) \cap Settings(j) = {}
  BY DEF DetailsExist
<1>1. \A r \in Request : ~Drops(r, i)
  BY DEF AtRest, Drops, Reads, Active
<1>2. HasURL(i)
  BY <1>1 DEF HasURL, Settings, Books, Kept, Pair
<1>3. ASSUME NEW j \in Id \ {i}, node[j] # None
      PROVE  Settings(i) \cap Settings(j) = {}
  <2>1. CASE node[i].type \in Detailed
    BY <1>3, <2>1 DEF Books, Distinct, Settings, Pair
  <2>2. CASE node[i].type \notin Detailed
    <3>1. <<node[i].type, node[i].sub>> \notin details
      BY <2>2 DEF Books, Numbered
    <3> QED
      BY <3>1 DEF Settings
  <2> QED
    BY <2>1, <2>2
<1> QED
  BY <1>2, <1>3

(* Unless a statement failed halfway, every node has the settings its row  *)
(* names, and no other node has them, for any number of nodes, servers and *)
(* requests that cross each other: a new row of settings is named by one   *)
(* request before it is named by one node, and a request that deletes one  *)
(* replaces it, or deletes its node, before it returns.                    *)
THEOREM EveryNodeHasItsSettings == Spec => []DetailsExist
<1>1. Init => Guarded /\ Books
  BY InitGuarded, InitBooks
<1>2. (Guarded /\ Books) /\ [Next]_vars => (Guarded /\ Books)'
  BY StepGuarded, StepKeepsBooks
<1>3. Guarded /\ Books => DetailsExist
  BY BooksAreRight
<1> QED
  BY <1>1, <1>2, <1>3, PTL DEF Spec

-----------------------------------------------------------------------------
(* Requests that have stopped the proxy of their node, and requests that   *)
(* have started one that no row names yet.                                 *)
Took(r) ==
  req[r].kind \in {"update", "delete"} /\ req[r].pc \in {"removed", "added", "dropped", "stored"}

Gave(r) ==
  \/ req[r].kind = "create" /\ req[r].pc \in {"added", "stored"}
  \/ req[r].kind = "update" /\ req[r].pc \in {"added", "dropped", "stored"}

Standing(i, h) ==
  /\ node[i] # None /\ node[i].at.ip = h
  /\ \A r \in Request : Took(r) => req[r].id # i

Given(r, h) == Gave(r) /\ req[r].to.ip = h

(* Who has a port of host h, and for a proxy of which type.                *)
Tenants(h) ==
  {<<"node", i, node[i].port, node[i].type>> : i \in {j \in Id : Standing(j, h)}} \cup
  {<<"request", r, req[r].port, req[r].type>> : r \in {q \in Request : Given(q, h)}}

Emptied(h) == \E s \in Server : server[s].at.ip = h /\ server[s].status = "uninstalled"

Sure == Ip \ excused

(* Every node is at a place of its server.                                 *)
Housed == \A i \in Id : node[i] # None => node[i].at.ip \in Place[node[i].server]

(* A request's copy of its row is the row, and no other request has one,   *)
(* unless requests have crossed and no host is sure any more.              *)
Fresh ==
  Sure = {} \/
  \A r \in Request : ~Reads(r) \/
    (/\ node[req[r].id] = req[r].old /\ req[r].old # None
     /\ \A q \in Request \ {r} : Reads(q) => req[q].id # req[r].id)

(* A host that uninstall.sh has emptied stays empty.                       *)
Swept == \A h \in Ip : Emptied(h) => proxies[h] = {}

(* What a waiting removal was announced for still holds.                   *)
Announced ==
  writer = None \/
  (/\ writer.job = "begin" => Registered(writer.server)
   /\ writer.job = "complete" => server[writer.server].status = "uninstalled")

(* A port of a host has one tenant, and the proxies there are those of the *)
(* tenants.                                                                *)
Apart == \A h \in Sure : \A k, l \in Tenants(h) : k[3] = l[3] => k = l

Served == \A h \in Sure : ~Emptied(h) => proxies[h] = {<<k[3], k[4]>> : k \in Tenants(h)}

Balance == Housed /\ Fresh /\ Swept /\ Announced /\ Apart /\ Served

LEMMA InitBalance ==
  Init => Balance
<1> SUFFICES ASSUME Init PROVE Balance
  OBVIOUS
<1>1. First \in Row /\ 1 \in Id
  BY FirstAssumption, BoundAssumption DEF Id
<1>2. \A r \in Request : req[r].pc = "idle"
  BY DEF Init, Idle
<1>3. \A r \in Request : ~Reads(r) /\ ~Took(r) /\ ~Gave(r)
  BY <1>2 DEF Reads, Took, Gave, Active
<1>4. \A i \in Id : node[i] # None => i = 1 /\ node[i] = First
  BY DEF Init
<1>5. Housed
  BY <1>1, <1>4, FirstAssumption, PlaceAssumption DEF Housed, Row
<1>6. Fresh /\ Announced
  BY <1>3 DEF Fresh, Announced, Init
<1>7. \A h \in Ip : ~Emptied(h)
  BY DEF Emptied, Init
<1>8. node[1] = First /\ First # None
  BY <1>1, NoneAssumption DEF Init
<1>9. \A h \in Ip : Tenants(h) = IF First.at.ip = h THEN {<<"node", 1, First.port, First.type>>}
                                                    ELSE {}
  BY <1>1, <1>3, <1>4, <1>8 DEF Tenants, Standing, Given
<1>10. Apart /\ Served /\ Swept
  <2>1. Apart
    BY <1>9 DEF Apart, Sure
  <2>2. ASSUME NEW h \in Ip
        PROVE  proxies[h] = {<<k[3], k[4]>> : k \in Tenants(h)}
    <3>1. proxies[h] = IF First.at.ip = h THEN {<<First.port, First.type>>} ELSE {}
      BY DEF Init
    <3>2. CASE First.at.ip = h
      <4>1. Tenants(h) = {<<"node", 1, First.port, First.type>>}
        BY <1>9, <3>2
      <4> QED
        BY <3>1, <3>2, <4>1
    <3>3. CASE First.at.ip # h
      BY <1>9, <3>1, <3>3
    <3> QED
      BY <3>2, <3>3
  <2> QED
    BY <1>7, <2>1, <2>2 DEF Served, Swept, Sure
<1> QED
  BY <1>5, <1>6, <1>10 DEF Balance

(* A tenant is a node or a request.                                        *)
LEMMA TenantIs ==
  ASSUME NEW h, NEW k
  PROVE  k \in Tenants(h) <=>
           \/ \E i \in Id : Standing(i, h) /\ k = <<"node", i, node[i].port, node[i].type>>
           \/ \E r \in Request : Given(r, h) /\ k = <<"request", r, req[r].port, req[r].type>>
  BY DEF Tenants

(* A step of one request that neither stops nor starts a proxy.            *)
LEMMA PassKeepsTenants ==
  ASSUME NEW r \in Request, node' = node,
         \A q \in Request \ {r} : req'[q] = req[q],
         NEW h, Given(r, h)' <=> Given(r, h),
         Given(r, h) => req'[r].port = req[r].port /\ req'[r].type = req[r].type,
         \A i \in Id : node[i] # None /\ node[i].at.ip = h =>
           (Took(r)' /\ req'[r].id = i <=> Took(r) /\ req[r].id = i)
  PROVE  Tenants(h)' = Tenants(h)
<1>1. \A i \in Id : Standing(i, h)' <=> Standing(i, h)
  BY DEF Standing, Took
<1>2. \A q \in Request : Given(q, h)' <=> Given(q, h)
  BY DEF Given, Gave
<1>3. \A q \in Request : Given(q, h) => req'[q].port = req[q].port /\ req'[q].type = req[q].type
  OBVIOUS
<1> QED
  BY <1>1, <1>2, <1>3 DEF Tenants

(* A request starts a proxy.                                               *)
LEMMA GiveAddsTenant ==
  ASSUME NEW r \in Request, node' = node,
         \A q \in Request \ {r} : req'[q] = req[q],
         ~Gave(r), Gave(r)', Took(r)' <=> Took(r), req'[r].id = req[r].id,
         req'[r].to = req[r].to, req'[r].port = req[r].port, req'[r].type = req[r].type,
         NEW h
  PROVE  Tenants(h)' =
           Tenants(h) \cup IF req[r].to.ip = h
                             THEN {<<"request", r, req[r].port, req[r].type>>} ELSE {}
<1>1. \A i \in Id : Standing(i, h)' <=> Standing(i, h)
  BY DEF Standing, Took
<1>2. \A q \in Request : Given(q, h)' <=> Given(q, h) \/ (q = r /\ req[r].to.ip = h)
  BY DEF Given, Gave
<1>3. \A q \in Request : req'[q].port = req[q].port /\ req'[q].type = req[q].type
  OBVIOUS
<1> QED
  BY <1>1, <1>2, <1>3 DEF Tenants

(* A request stops the proxy of its node.                                  *)
LEMMA TakeRemovesTenant ==
  ASSUME NEW r \in Request, node' = node,
         \A q \in Request \ {r} : req'[q] = req[q],
         ~Gave(r), ~Gave(r)', Took(r)', ~Took(r), req'[r].id = req[r].id, req[r].id \in Id,
         NEW h
  PROVE  Tenants(h)' =
           Tenants(h) \ {<<"node", req[r].id, node[req[r].id].port, node[req[r].id].type>>}
<1>1. \A i \in Id : Standing(i, h)' <=> Standing(i, h) /\ i # req[r].id
  BY DEF Standing, Took
<1>2. \A q \in Request : Given(q, h)' <=> Given(q, h)
  BY DEF Given, Gave
<1>3. \A q \in Request : Given(q, h) => req'[q] = req[q]
  BY DEF Given
<1> QED
  BY <1>1, <1>2, <1>3 DEF Tenants

(* What becomes of the proxies of a host when a tenant comes, leaves or    *)
(* becomes another.                                                        *)
Shown(T) == {<<k[3], k[4]>> : k \in T}
Single(T) == \A k, l \in T : k[3] = l[3] => k = l

LEMMA TenantComes ==
  ASSUME NEW T, Single(T), NEW l, \A k \in T : k[3] # l[3]
  PROVE  Single(T \cup {l}) /\ Shown(T \cup {l}) = Shown(T) \cup {<<l[3], l[4]>>}
  BY DEF Single, Shown

LEMMA TenantLeaves ==
  ASSUME NEW T, Single(T), NEW k \in T
  PROVE  Single(T \ {k}) /\ Shown(T \ {k}) = Shown(T) \ {<<k[3], k[4]>>}
  BY DEF Single, Shown

LEMMA TenantChanges ==
  ASSUME NEW T, Single(T), NEW k \in T, NEW l, l[3] = k[3], l[4] = k[4]
  PROVE  Single((T \ {k}) \cup {l}) /\ Shown((T \ {k}) \cup {l}) = Shown(T)
  BY DEF Single, Shown

LEMMA SureHosts ==
  ASSUME Balance, NEW h \in Sure
  PROVE  Single(Tenants(h)) /\ (~Emptied(h) => proxies[h] = Shown(Tenants(h)))
  BY DEF Balance, Apart, Served, Single, Shown

LEMMA HostsBalance ==
  ASSUME Housed', Fresh', Swept', Announced',
         \A h \in Sure' : /\ Single(Tenants(h)')
                          /\ ~Emptied(h)' => proxies'[h] = Shown(Tenants(h)')
  PROVE  Balance'
  BY DEF Balance, Apart, Served, Single, Shown

(* Steps of one request that change no row.                                *)
LEMMA FreshStays ==
  ASSUME Balance, NEW r \in Request, node' = node, excused \subseteq excused',
         \A q \in Request \ {r} : req'[q] = req[q],
         Reads(r)' => Reads(r) /\ req'[r].id = req[r].id /\ req'[r].old = req[r].old
  PROVE  Fresh'
<1>1. \A q \in Request \ {r} : Reads(q)' <=> Reads(q)
  BY DEF Reads, Active
<1> QED
  BY <1>1 DEF Balance, Fresh, Sure

LEMMA PassKeepsBalance ==
  ASSUME Guarded, Balance, NEW r \in Request, excused \subseteq excused', UNCHANGED <<node, writer, proxies>>,
         \A q \in Request \ {r} : req'[q] = req[q],
         \A s \in Server : server'[s].status = server[s].status,
         \A s \in Server : ~Registered(s) => server'[s] = server[s],
         Fresh',
         \A h \in Sure' :
           /\ Given(r, h)' <=> Given(r, h)
           /\ Given(r, h) => req'[r].port = req[r].port /\ req'[r].type = req[r].type
           /\ \A i \in Id : node[i] # None /\ node[i].at.ip = h =>
                (Took(r)' /\ req'[r].id = i <=> Took(r) /\ req[r].id = i)
  PROVE  Balance'
<1>1. \A h : Emptied(h)' <=> Emptied(h)
  BY DEF Emptied, Registered
<1>2. Housed' /\ Swept'
  BY <1>1 DEF Balance, Housed, Swept
<1>3. Announced'
  BY DEF Balance, Announced, Registered, Guarded, Shape, TypeOK
<1>4. \A h \in Sure' : Tenants(h)' = Tenants(h) /\ h \in Sure
  BY PassKeepsTenants DEF Sure
<1> QED
  BY <1>1, <1>2, <1>3, <1>4, SureHosts, HostsBalance

(* A request returns from a place where it neither stopped nor started a   *)
(* proxy, or leaves no host in doubt that it touched.                      *)
LEMMA ReturnKeepsBalance ==
  ASSUME Guarded, Balance, NEW r \in Request, Returns(r), excused \subseteq excused',
         UNCHANGED <<node, writer, proxies>>,
         \A s \in Server : server'[s].status = server[s].status,
         \A s \in Server : ~Registered(s) => server'[s] = server[s],
         \/ ~Took(r) /\ ~Gave(r)
         \/ Touched(r) \subseteq excused'
  PROVE  Balance'
<1>1. req[r] \in Work /\ req \in [Request -> Work]
  BY DEF Guarded, Shape, TypeOK
<1>2. req'[r].pc = "idle" /\ \A q \in Request \ {r} : req'[q] = req[q]
  BY <1>1 DEF Returns, Idle
<1>3. ~Reads(r)' /\ ~Took(r)' /\ ~Gave(r)'
  BY <1>2 DEF Reads, Took, Gave, Active
<1>4. Fresh'
  BY <1>2, <1>3, FreshStays
<1>5. ASSUME NEW h \in Sure'
      PROVE  /\ ~Given(r, h)
             /\ \A i \in Id : node[i] # None /\ node[i].at.ip = h => ~(Took(r) /\ req[r].id = i)
  <2>1. CASE ~Took(r) /\ ~Gave(r)
    BY <2>1 DEF Given
  <2>2. CASE Touched(r) \subseteq excused'
    <3>1. h \notin Touched(r) /\ h \in Sure
      BY <1>5, <2>2 DEF Sure
    <3>2. ~Given(r, h)
      <4>1. SUFFICES ASSUME Given(r, h) PROVE FALSE
        OBVIOUS
      <4>2. req[r].to \in Address /\ req[r].to.ip = h
        BY <4>1 DEF Given, Gave, Guarded, Shape, Prepared, Active
      <4>3. req[r].to # None
        BY <4>2, NoneAssumption
      <4> QED
        BY <3>1, <4>2, <4>3 DEF Touched
    <3>3. ASSUME NEW i \in Id, node[i] # None, node[i].at.ip = h, Took(r), req[r].id = i
          PROVE  FALSE
      <4>1. Reads(r)
        BY <3>3 DEF Took, Reads, Active
      <4>2. req[r].old \in Row /\ req[r].old.at \in Address
        BY <4>1 DEF Reads, Guarded, Shape, Prepared, Active, Row
      <4>3. req[r].old # None /\ req[r].old.at # None
        BY <4>2, NoneAssumption
      <4>4. node[i] = req[r].old
        BY <3>1, <3>3, <4>1 DEF Balance, Fresh
      <4> QED
        BY <3>1, <3>3, <4>2, <4>3, <4>4 DEF Touched
    <3> QED
      BY <3>2, <3>3
  <2> QED
    BY <2>1, <2>2
<1>6. \A h \in Sure' : ~Given(r, h)'
  BY <1>3 DEF Given
<1> QED
  BY <1>2, <1>3, <1>4, <1>5, <1>6, PassKeepsBalance

LEMMA StatementFailsKeepsBalance ==
  ASSUME Guarded, Balance, NEW r \in Request, StatementFails(r), UNCHANGED <<server, node, writer, proxies>>
  PROVE  Balance'
  BY ReturnKeepsBalance DEF StatementFails

(* A request goes on to the next of its statements.                        *)
LEMMA GoesKeepsBalance ==
  ASSUME Guarded, Balance, NEW r \in Request, excused \subseteq excused',
         UNCHANGED <<server, node, writer, proxies>>,
         \A q \in Request \ {r} : req'[q] = req[q],
         req'[r].kind = req[r].kind, req'[r].id = req[r].id, req'[r].old = req[r].old,
         req'[r].to = req[r].to, req'[r].port = req[r].port, req'[r].type = req[r].type,
         Took(r)' <=> Took(r), Gave(r)' <=> Gave(r), Reads(r)' <=> Reads(r)
  PROVE  Balance'
<1>1. Fresh'
  BY FreshStays
<1>2. \A h \in Sure' : Given(r, h)' <=> Given(r, h)
  BY DEF Given
<1> QED
  BY <1>1, <1>2, PassKeepsBalance

LEMMA InsertKeepsBalance ==
  ASSUME Guarded, Balance, NEW r \in Request, InsertDetail(r),
         \/ req[r].kind = "create" /\ req[r].pc = "added"
         \/ req[r].kind = "update" /\ req[r].pc = "dropped"
  PROVE  Balance'
<1>1. UNCHANGED <<server, node, writer, proxies>> /\ req[r] \in Work /\ req \in [Request -> Work]
  BY DEF InsertDetail, Guarded, Shape, TypeOK
<1>2. CASE StatementFails(r)
  BY <1>1, <1>2, StatementFailsKeepsBalance
<1>3. CASE /\ \E n : req' = [req EXCEPT ![r].pc = "stored", ![r].sub = n]
           /\ excused' = excused
  <2>1. PICK n : req' = [req EXCEPT ![r].pc = "stored", ![r].sub = n]
    BY <1>3
  <2>2. /\ req'[r].pc = "stored" /\ \A q \in Request \ {r} : req'[q] = req[q]
        /\ req'[r].kind = req[r].kind /\ req'[r].id = req[r].id /\ req'[r].old = req[r].old
        /\ req'[r].to = req[r].to /\ req'[r].port = req[r].port /\ req'[r].type = req[r].type
    BY <1>1, <2>1 DEF Work
  <2>3. (Took(r)' <=> Took(r)) /\ (Gave(r)' <=> Gave(r)) /\ (Reads(r)' <=> Reads(r))
    BY <2>2 DEF Took, Gave, Reads, Active
  <2> QED
    BY <1>1, <1>3, <2>2, <2>3, GoesKeepsBalance
<1> QED
  BY <1>2, <1>3 DEF InsertDetail

LEMMA DeleteDetailKeepsBalance ==
  ASSUME Guarded, Balance, NEW r \in Request, DeleteDetail(r),
         \/ req[r].kind = "update" /\ req[r].pc = "added"
         \/ req[r].kind = "delete" /\ req[r].pc = "removed"
  PROVE  Balance'
<1>1. UNCHANGED <<server, node, writer, proxies>> /\ req[r] \in Work /\ req \in [Request -> Work]
  BY DEF DeleteDetail, Guarded, Shape, TypeOK
<1>2. CASE StatementFails(r)
  BY <1>1, <1>2, StatementFailsKeepsBalance
<1>3. CASE Goes(r, "dropped") /\ excused' = excused
  <2>1. /\ req'[r].pc = "dropped" /\ \A q \in Request \ {r} : req'[q] = req[q]
        /\ req'[r].kind = req[r].kind /\ req'[r].id = req[r].id /\ req'[r].old = req[r].old
        /\ req'[r].to = req[r].to /\ req'[r].port = req[r].port /\ req'[r].type = req[r].type
    BY <1>1, <1>3 DEF Goes, Work
  <2>2. (Took(r)' <=> Took(r)) /\ (Gave(r)' <=> Gave(r)) /\ (Reads(r)' <=> Reads(r))
    BY <2>1 DEF Took, Gave, Reads, Active
  <2> QED
    BY <1>1, <1>3, <2>1, <2>2, GoesKeepsBalance
<1> QED
  BY <1>2, <1>3 DEF DeleteDetail

LEMMA ReadsNodeKeepsBalance ==
  ASSUME Guarded, Balance, NEW r \in Request, ReadsNode(r)
  PROVE  Balance'
<1> DEFINE i == req[r].id
<1>1. /\ req[r] \in Work /\ req \in [Request -> Work] /\ i \in Id /\ req[r].pc = "begun"
      /\ UNCHANGED <<server, node, writer, proxies>>
      /\ req[r].kind \in {"update", "delete"}
  BY DEF ReadsNode, database, Guarded, Shape, TypeOK, Work
<1>2. ~Took(r) /\ ~Gave(r)
  BY <1>1 DEF Took, Gave
<1>3. CASE Returns(r) /\ excused' = excused
  BY <1>1, <1>2, <1>3, ReturnKeepsBalance
<1>4. CASE /\ node[i] # None /\ req' = [req EXCEPT ![r].pc = "read", ![r].old = node[i]]
           /\ excused' = IF Crossed(r, i) THEN Ip ELSE excused
  <2>1. /\ req'[r].pc = "read" /\ req'[r].old = node[i] /\ \A q \in Request \ {r} : req'[q] = req[q]
        /\ req'[r].kind = req[r].kind /\ req'[r].id = i
    BY <1>1, <1>4 DEF Work
  <2>2. ~Took(r)' /\ ~Gave(r)'
    BY <2>1 DEF Took, Gave
  <2>3. excused \subseteq excused'
    BY <1>4 DEF Guarded, Shape, TypeOK
  <2>4. Fresh'
    <3>1. CASE Crossed(r, i)
      BY <1>4, <3>1 DEF Fresh, Sure
    <3>2. CASE ~Crossed(r, i)
      <4>1. \A q \in Request \ {r} : Reads(q)' <=> Reads(q)
        BY <2>1 DEF Reads, Active
      <4>2. ASSUME NEW q \in Request \ {r}, Reads(q)
            PROVE  req[q].id # i
        <5>1. req[q].old \in Row
          BY <4>2 DEF Reads, Active, Guarded, Shape, Prepared
        <5>2. req[q].old # None
          BY <5>1, NoneAssumption
        <5> QED
          BY <3>2, <5>2 DEF Crossed
      <4>3. excused' = excused
        BY <1>4, <3>2
      <4> QED
        BY <1>1, <1>4, <2>1, <4>1, <4>2, <4>3 DEF Balance, Fresh, Sure
    <3> QED
      BY <3>1, <3>2
  <2>5. \A h \in Sure' : ~Given(r, h)' /\ ~Given(r, h)
    BY <1>2, <2>2 DEF Given
  <2> QED
    BY <1>1, <1>2, <2>1, <2>2, <2>3, <2>4, <2>5, PassKeepsBalance
<1> QED
  BY <1>3, <1>4 DEF ReadsNode

(* Every agent listens on the port that its servers are registered with.   *)
AgentsListen == \A a \in Address : Reaches(a)

LEMMA AddKeepsBalance ==
  ASSUME AgentsListen, Guarded, Balance, NEW r \in Request,
         \/ req[r].kind = "create" /\ req[r].pc = "begun"
         \/ req[r].kind = "update" /\ req[r].pc = "removed",
         GrpcAddNode(r, req[r].to, req[r].port, req[r].type, "added"),
         UNCHANGED <<database, writer>>
  PROVE  Balance'
<1> DEFINE a == req[r].to
           new == <<"request", r, req[r].port, req[r].type>>
<1>1. /\ req[r] \in Work /\ req \in [Request -> Work] /\ Active(r)
      /\ req[r].kind \in {"create", "update"} /\ a \in Address
      /\ UNCHANGED <<server, node, writer>>
  BY DEF Active, Guarded, Shape, TypeOK, Prepared, database
<1>2. req' = [req EXCEPT ![r].pc = "added"]
  BY DEF GrpcAddNode, Answered
<1>3. /\ req'[r].pc = "added" /\ \A q \in Request \ {r} : req'[q] = req[q]
      /\ req'[r].kind = req[r].kind /\ req'[r].id = req[r].id /\ req'[r].old = req[r].old
      /\ req'[r].to = req[r].to /\ req'[r].port = req[r].port /\ req'[r].type = req[r].type
  BY <1>1, <1>2 DEF Work
<1>4. ~Gave(r) /\ Gave(r)' /\ (Took(r)' <=> Took(r)) /\ (Reads(r)' <=> Reads(r))
  BY <1>3 DEF Gave, Took, Reads, Active
<1>5. /\ excused \subseteq excused' /\ \A h \in Ip \ {a.ip} : proxies'[h] = proxies[h]
      /\ \/ a.ip \in excused'
         \/ ~Occupied(a, req[r].port) /\ proxies'[a.ip] = proxies[a.ip] \cup {<<req[r].port, req[r].type>>}
  <2>1. Reaches(a)
    BY <1>1 DEF AgentsListen
  <2>2. a.ip \in Ip /\ proxies \in [Ip -> SUBSET (Port \X Type)]
    BY <1>1 DEF Address, Guarded, Shape, TypeOK
  <2> QED
    BY <2>1, <2>2 DEF GrpcAddNode
<1>6. \A h : Tenants(h)' = Tenants(h) \cup IF a.ip = h THEN {new} ELSE {}
  BY <1>1, <1>3, <1>4, GiveAddsTenant
<1>7. \A h : (Emptied(h)' <=> Emptied(h)) /\ (Emptied(h) => h # a.ip)
  BY <1>1, CalledHostIsRegistered DEF Emptied
<1>8. Fresh'
  BY <1>1, <1>3, <1>4, <1>5, FreshStays
<1>9. Housed' /\ Announced' /\ Swept'
  BY <1>1, <1>5, <1>7 DEF Balance, Housed, Announced, Swept, Registered
<1>10. ASSUME NEW h \in Sure'
       PROVE  Single(Tenants(h)') /\ (~Emptied(h)' => proxies'[h] = Shown(Tenants(h)'))
  <2>1. h \in Sure /\ h \in Ip
    BY <1>5 DEF Sure
  <2>2. CASE h # a.ip
    BY <1>5, <1>6, <1>7, <2>1, <2>2, SureHosts
  <2>3. CASE h = a.ip
    <3>1. /\ ~Occupied(a, req[r].port)
          /\ proxies'[h] = proxies[h] \cup {<<req[r].port, req[r].type>>}
      BY <1>5, <1>10, <2>3 DEF Sure
    <3>2. ~Emptied(h) /\ proxies[h] = Shown(Tenants(h)) /\ Single(Tenants(h))
      BY <1>7, <2>1, <2>3, SureHosts
    <3>3. ASSUME NEW k \in Tenants(h) PROVE k[3] # req[r].port
      <4>1. <<k[3], k[4]>> \in proxies[h]
        BY <3>2 DEF Shown
      <4>2. k[4] \in Type
        BY <2>1, <4>1 DEF Guarded, Shape, TypeOK
      <4> QED
        BY <2>3, <3>1, <4>1, <4>2 DEF Occupied
    <3>4. new[3] = req[r].port /\ new[4] = req[r].type
      OBVIOUS
    <3>5. Tenants(h)' = Tenants(h) \cup {new}
      BY <1>6, <2>3
    <3> HIDE DEF new
    <3>6. /\ Single(Tenants(h) \cup {new})
          /\ Shown(Tenants(h) \cup {new}) = Shown(Tenants(h)) \cup {<<new[3], new[4]>>}
      BY <3>2, <3>3, <3>4, TenantComes
    <3> QED
      BY <3>1, <3>2, <3>4, <3>5, <3>6
  <2> QED
    BY <2>2, <2>3
<1> QED
  BY <1>8, <1>9, <1>10, HostsBalance

LEMMA RemoveKeepsBalance ==
  ASSUME AgentsListen, Guarded, Balance, NEW r \in Request, Removes(r)
  PROVE  Balance'
<1> DEFINE row == req[r].old
           i == req[r].id
           gone == <<"node", i, node[i].port, node[i].type>>
<1>1. /\ req[r] \in Work /\ req \in [Request -> Work] /\ i \in Id /\ Reads(r)
      /\ req[r].kind \in {"update", "delete"} /\ req[r].pc = "read" /\ row \in Row
      /\ UNCHANGED <<server, node, writer>>
  BY DEF Removes, Active, Reads, Guarded, Shape, TypeOK, Prepared, database, Work
<1>2. req' = [req EXCEPT ![r].pc = "removed"]
  BY DEF Removes, GrpcRemoveNode, Answered
<1>3. /\ req'[r].pc = "removed" /\ \A q \in Request \ {r} : req'[q] = req[q]
      /\ req'[r].kind = req[r].kind /\ req'[r].id = req[r].id /\ req'[r].old = req[r].old
  BY <1>1, <1>2 DEF Work
<1>4. ~Gave(r) /\ ~Gave(r)' /\ Took(r)' /\ ~Took(r) /\ (Reads(r)' <=> Reads(r))
  BY <1>1, <1>3 DEF Gave, Took, Reads, Active
<1>5. /\ excused \subseteq excused' /\ \A h \in Ip \ {row.at.ip} : proxies'[h] = proxies[h]
      /\ \A h \in Ip : proxies'[h] \subseteq proxies[h]
      /\ \/ row.at.ip \in excused'
         \/ proxies'[row.at.ip] = proxies[row.at.ip] \ {<<row.port, row.type>>}
  <2>1. Reaches(row.at)
    BY <1>1 DEF AgentsListen, Row
  <2>2. row.at.ip \in Ip /\ proxies \in [Ip -> SUBSET (Port \X Type)]
    BY <1>1 DEF Row, Address, Guarded, Shape, TypeOK
  <2> QED
    BY <2>1, <2>2 DEF Removes, GrpcRemoveNode
<1>6. \A h : Tenants(h)' = Tenants(h) \ {gone}
  BY <1>1, <1>3, <1>4, TakeRemovesTenant
<1>7. \A h : Emptied(h)' <=> Emptied(h)
  BY <1>1 DEF Emptied
<1>8. Fresh'
  BY <1>1, <1>3, <1>4, <1>5, FreshStays
<1>9. Housed' /\ Announced' /\ Swept'
  BY <1>1, <1>5, <1>7 DEF Balance, Housed, Announced, Swept, Registered
<1>10. ASSUME NEW h \in Sure'
       PROVE  Single(Tenants(h)') /\ (~Emptied(h)' => proxies'[h] = Shown(Tenants(h)'))
  <2>1. h \in Sure /\ h \in Ip
    BY <1>5 DEF Sure
  <2>2. node[i] = row /\ row # None /\ \A q \in Request \ {r} : Reads(q) => req[q].id # i
    BY <1>1, <2>1 DEF Balance, Fresh
  <2>3. CASE h # row.at.ip
    <3>1. gone \notin Tenants(h)
      BY <2>2, <2>3 DEF Tenants, Standing
    <3>2. Tenants(h)' = Tenants(h)
      BY <1>6, <3>1
    <3> QED
      BY <1>5, <1>7, <2>1, <2>3, <3>2, SureHosts
  <2>4. CASE h = row.at.ip
    <3>1. Standing(i, h)
      BY <1>4, <2>2, <2>4 DEF Standing, Took, Reads, Active
    <3>2. gone \in Tenants(h) /\ gone[3] = row.port /\ gone[4] = row.type
      BY <1>1, <2>2, <3>1 DEF Tenants
    <3>3. proxies'[h] = proxies[h] \ {<<row.port, row.type>>}
      BY <1>5, <1>10, <2>4 DEF Sure
    <3>4. Tenants(h)' = Tenants(h) \ {gone}
      BY <1>6
    <3> HIDE DEF gone
    <3> QED
      BY <1>7, <2>1, <3>2, <3>3, <3>4, SureHosts, TenantLeaves
  <2> QED
    BY <2>3, <2>4
<1> QED
  BY <1>8, <1>9, <1>10, HostsBalance

-----------------------------------------------------------------------------
(* Requests that write a row: the node takes the port over from them.      *)
LEMMA RowKeepsFresh ==
  ASSUME Guarded, Balance, NEW r \in Request, req'[r].pc = "idle",
         \A q \in Request \ {r} : req'[q] = req[q],
         excused \subseteq excused',
         NEW i \in Id, node[i] = None \/ (Reads(r) /\ i = req[r].id),
         \A j \in Id \ {i} : node'[j] = node[j]
  PROVE  Fresh'
<1>1. \A q \in Request \ {r} : Reads(q)' <=> Reads(q)
  BY DEF Reads, Active
<1>2. ~Reads(r)'
  BY DEF Reads, Active
<1>3. CASE Sure = {}
  BY <1>3 DEF Fresh, Sure
<1>4. CASE Sure # {}
  <2> SUFFICES ASSUME NEW q \in Request \ {r}, Reads(q)
               PROVE  /\ node'[req[q].id] = req[q].old /\ req[q].old # None
                      /\ \A p \in Request \ {q, r} : Reads(p) => req[p].id # req[q].id
    BY <1>1, <1>2 DEF Fresh
  <2>1. /\ node[req[q].id] = req[q].old /\ req[q].old # None
        /\ \A p \in Request \ {q} : Reads(p) => req[p].id # req[q].id
    BY <1>4 DEF Balance, Fresh
  <2>2. req[q].id # i /\ req[q].id \in Id
    BY <2>1 DEF Guarded, Shape, TypeOK, Work
  <2> QED
    BY <2>1, <2>2
<1> QED
  BY <1>3, <1>4

(* After the step node i has the port that request r had; where node i was *)
(* before, it had given up its proxy.                                      *)
LEMMA RowKeepsBalance ==
  ASSUME Guarded, Balance, NEW r \in Request, Returns(r),
         UNCHANGED <<server, writer, proxies, excused>>,
         Gave(r), req[r].to.ip \in Place[req[r].server],
         NEW i \in Id, (node[i] = None /\ ~Took(r)) \/ (Took(r) /\ i = req[r].id),
         node' = [node EXCEPT ![i] = node'[i]],
         node'[i] # None, node'[i].server = req[r].server, node'[i].at.ip = req[r].to.ip,
         node'[i].port = req[r].port, Sure # {} => node'[i].type = req[r].type
  PROVE  Balance'
<1> DEFINE a == req[r].to
           k == <<"request", r, req[r].port, req[r].type>>
           l == <<"node", i, req[r].port, req[r].type>>
<1>1. req \in [Request -> Work] /\ node \in [Id -> Row \cup {None}]
  BY DEF Guarded, Shape, TypeOK
<1>2. req'[r].pc = "idle" /\ \A q \in Request \ {r} : req'[q] = req[q]
  BY <1>1 DEF Returns, Idle
<1>3. ~Took(r)' /\ ~Gave(r)' /\ ~Reads(r)'
  BY <1>2 DEF Took, Gave, Reads, Active
<1>4. Took(r) => Reads(r)
  BY DEF Took, Reads, Active
<1>5. \A j \in Id \ {i} : node'[j] = node[j]
  BY <1>1
<1>6. Fresh'
  BY <1>2, <1>4, <1>5, RowKeepsFresh
<1>7. \A h : Emptied(h)' <=> Emptied(h)
  BY DEF Emptied
<1>8. Housed' /\ Announced' /\ Swept'
  BY <1>5, <1>7 DEF Balance, Housed, Announced, Swept, Registered
<1>9. ASSUME NEW h \in Sure'
      PROVE  Single(Tenants(h)') /\ (~Emptied(h)' => proxies'[h] = Shown(Tenants(h)'))
  <2>1. h \in Sure
    BY DEF Sure
  <2>2. \A q \in Request \ {r} : Took(q) => req[q].id # i
    <3>1. SUFFICES ASSUME NEW q \in Request \ {r}, Took(q) PROVE req[q].id # i
      OBVIOUS
    <3>2. Reads(q)
      BY <3>1 DEF Took, Reads, Active
    <3>3. node[req[q].id] # None /\ \A p \in Request \ {q} : Reads(p) => req[p].id # req[q].id
      BY <2>1, <3>2 DEF Balance, Fresh
    <3> QED
      BY <1>4, <3>3
  <2>3. \A q \in Request \ {r} : (Took(q)' <=> Took(q)) /\ (Given(q, h)' <=> Given(q, h))
    BY <1>2 DEF Took, Gave, Given
  <2>4. \A j \in Id : Standing(j, h)' <=> IF j = i THEN a.ip = h ELSE Standing(j, h)
    <3>1. \A q \in Request : Took(q)' <=> Took(q) /\ q # r
      BY <1>3, <2>3
    <3>2. Standing(i, h)' <=> a.ip = h
      BY <1>2, <2>2, <3>1 DEF Standing
    <3>3. ASSUME NEW j \in Id \ {i} PROVE Standing(j, h)' <=> Standing(j, h)
      BY <1>2, <1>5, <3>1 DEF Standing
    <3> QED
      BY <3>2, <3>3
  <2>5. ~Standing(i, h)
    BY <1>4 DEF Standing
  <2>6. Tenants(h)' = (Tenants(h) \ {k}) \cup IF a.ip = h THEN {l} ELSE {}
    <3>1. ASSUME NEW x
          PROVE  x \in Tenants(h)' <=>
                   x \in Tenants(h) \ {k} \/ (a.ip = h /\ x = l)
      <4>1. x \in Tenants(h)' <=>
              \/ \E j \in Id : Standing(j, h)' /\ x = <<"node", j, node'[j].port, node'[j].type>>
              \/ \E q \in Request : Given(q, h)' /\ x = <<"request", q, req'[q].port, req'[q].type>>
        BY DEF Tenants
      <4>2. (\E j \in Id : Standing(j, h)' /\ x = <<"node", j, node'[j].port, node'[j].type>>) <=>
              \/ \E j \in Id : Standing(j, h) /\ x = <<"node", j, node[j].port, node[j].type>>
              \/ a.ip = h /\ x = l
        BY <1>5, <2>1, <2>4, <2>5
      <4>3. (\E q \in Request : Given(q, h)' /\ x = <<"request", q, req'[q].port, req'[q].type>>) <=>
              /\ \E q \in Request : Given(q, h) /\ x = <<"request", q, req[q].port, req[q].type>>
              /\ x # k
        BY <1>2, <1>3, <2>3 DEF Given
      <4>4. \A j \in Id : <<"node", j, node[j].port, node[j].type>> # k
        OBVIOUS
      <4> HIDE DEF k, l
      <4> QED
        BY <4>1, <4>2, <4>3, <4>4, TenantIs
    <3> HIDE DEF k, l
    <3> QED
      BY <3>1
  <2>7. CASE a.ip = h
    <3>1. k \in Tenants(h) /\ k[3] = l[3] /\ k[4] = l[4]
      BY <2>7 DEF Tenants, Given
    <3>2. Tenants(h)' = (Tenants(h) \ {k}) \cup {l}
      BY <2>6, <2>7
    <3> HIDE DEF k, l
    <3>3. /\ Single((Tenants(h) \ {k}) \cup {l})
          /\ Shown((Tenants(h) \ {k}) \cup {l}) = Shown(Tenants(h))
      BY <2>1, <3>1, SureHosts, TenantChanges
    <3> QED
      BY <1>7, <2>1, <3>2, <3>3, SureHosts
  <2>8. CASE a.ip # h
    <3>1. k \notin Tenants(h)
      BY <2>8 DEF Tenants, Given
    <3>2. Tenants(h)' = Tenants(h)
      BY <2>6, <2>8, <3>1
    <3> QED
      BY <1>7, <2>1, <3>2, SureHosts
  <2> QED
    BY <2>7, <2>8
<1> QED
  BY <1>6, <1>8, <1>9, HostsBalance

LEMMA UnsureKeepsBalance ==
  ASSUME Balance, Sure = {}, Housed', UNCHANGED <<server, writer, proxies, excused>>
  PROVE  Balance'
  BY DEF Balance, Fresh, Swept, Announced, Apart, Served, Sure, Emptied, Registered

LEMMA CreateRowKeepsBalance ==
  ASSUME Guarded, Balance, NEW r \in Request, CreateRow(r)
  PROVE  Balance'
<1>1. /\ req[r].kind = "create" /\ req[r].pc = "stored" /\ Active(r) /\ req[r] \in Work
      /\ UNCHANGED <<server, writer, proxies>> /\ Returns(r)
  BY DEF CreateRow, Active, Guarded, Shape, TypeOK
<1>2. CASE /\ \E i \in Id : node[i] = None /\ node' = [node EXCEPT ![i] = NewRow(r)]
           /\ excused' = excused
  <2>1. PICK i \in Id : node[i] = None /\ node' = [node EXCEPT ![i] = NewRow(r)]
    BY <1>2
  <2>2. NewRow(r) \in Row /\ req[r].to.ip \in Place[req[r].server]
    BY <1>1 DEF NewRow, Row, Work, Guarded, Shape, Prepared, Held
  <2>3. node'[i] = NewRow(r) /\ NewRow(r) # None
    BY <2>1, <2>2, NoneAssumption DEF Guarded, Shape, TypeOK
  <2>4. Gave(r) /\ ~Took(r)
    BY <1>1 DEF Gave, Took
  <2>5. /\ node'[i].server = req[r].server /\ node'[i].at.ip = req[r].to.ip
        /\ node'[i].port = req[r].port /\ node'[i].type = req[r].type
    BY <2>3 DEF NewRow
  <2> QED
    BY <1>1, <1>2, <2>1, <2>2, <2>3, <2>4, <2>5, RowKeepsBalance
<1>3. CASE node' = node /\ excused' = excused \cup Touched(r)
  BY <1>1, <1>3, ReturnKeepsBalance
<1> QED
  BY <1>2, <1>3 DEF CreateRow

LEMMA UpdateRowKeepsBalance ==
  ASSUME Guarded, Books, Balance, NEW r \in Request, UpdateRow(r)
  PROVE  Balance'
<1> DEFINE i == req[r].id
<1>1. /\ req[r] \in Work /\ req[r].kind = "update" /\ UNCHANGED <<server, writer, proxies>>
      /\ req[r].pc = IF SameType(r) THEN "added" ELSE "stored"
      /\ node \in [Id -> Row \cup {None}] /\ i \in Id
  BY DEF UpdateRow, Guarded, Shape, TypeOK, Work
<1>2. Active(r) /\ Reads(r) /\ Took(r) /\ Gave(r)
  BY <1>1 DEF Reads, Active, Took, Gave
<1>3. /\ req[r].old \in Row /\ req[r].server \in Server /\ req[r].to \in Address
      /\ req[r].port \in Port /\ req[r].type \in Type /\ Registered(req[r].server)
      /\ req[r].sub \in Nat /\ req[r].to.ip \in Place[req[r].server]
  BY <1>1, <1>2 DEF Guarded, Shape, Prepared, Held, Active, Work
<1>4. Sure # {} => node[i] = req[r].old /\ node[i] # None
  BY <1>2 DEF Balance, Fresh
<1>5. CASE /\ Editable(r)
           /\ node' = [node EXCEPT ![i] = Edited(r, @)]
           /\ Returns(r) /\ UNCHANGED <<faults, excused>>
  <2> DEFINE x == Edited(r, node[i])
  <2>1. node[i] # None /\ node[i] \in Row
    BY <1>1, <1>5 DEF Editable
  <2>2. /\ x # None /\ x.server = req[r].server /\ x.at.ip = req[r].to.ip /\ x.port = req[r].port
        /\ Sure # {} => x.type = req[r].type
    <3>1. CASE SameType(r)
      <4> DEFINE at == [node[i].at EXCEPT !.ip = req[r].to.ip]
      <4>1. node[i].at \in Address /\ at \in Address /\ at.ip = req[r].to.ip
            /\ node[i].type \in Type /\ node[i].sub \in Nat
        BY <1>3, <2>1 DEF Row, Address
      <4>2. x = [server |-> req[r].server, at |-> at, port |-> req[r].port,
                 type |-> node[i].type, sub |-> node[i].sub]
        BY <2>1, <3>1 DEF Edited, Row
      <4> HIDE DEF at, x
      <4>3. x \in Row
        BY <1>3, <4>1, <4>2 DEF Row
      <4> QED
        BY <1>4, <3>1, <4>1, <4>2, <4>3, NoneAssumption DEF SameType
    <3>2. CASE ~SameType(r)
      <4>1. x = NewRow(r)
        BY <3>2 DEF Edited
      <4>2. NewRow(r) \in Row
        BY <1>3 DEF NewRow, Row
      <4> QED
        BY <4>1, <4>2, NoneAssumption DEF NewRow
    <3> QED
      BY <3>1, <3>2
  <2>3. node'[i] = x /\ node' = [node EXCEPT ![i] = node'[i]]
    BY <1>1, <1>5
  <2> HIDE DEF x
  <2> QED
    BY <1>1, <1>2, <1>3, <1>5, <2>2, <2>3, RowKeepsBalance
<1>6. CASE /\ ~Changed(r) \/ ~Editable(r)
           /\ Returns(r) /\ UNCHANGED <<node, faults, excused>>
  <2>1. CASE Sure = {}
    <3>1. Housed'
      BY <1>6 DEF Balance, Housed
    <3> QED
      BY <1>1, <1>6, <2>1, <3>1, UnsureKeepsBalance
  <2>2. CASE Sure # {}
    <3>1. Editable(r)
      BY <1>2, <1>3, <1>4, <2>2 DEF Books, Reachable, Editable
    <3>2. SameType(r) /\ Edited(r, req[r].old) = req[r].old
      BY <1>6, <3>1 DEF Changed
    <3> DEFINE old == req[r].old
    <3>3. /\ old.server = req[r].server /\ old.at.ip = req[r].to.ip /\ old.port = req[r].port
          /\ old.type = req[r].type
      <4>1. old = [old EXCEPT !.server = req[r].server, !.at.ip = req[r].to.ip, !.port = req[r].port]
        BY <3>2 DEF Edited
      <4> DEFINE at == [old.at EXCEPT !.ip = req[r].to.ip]
      <4>2. at.ip = req[r].to.ip
        BY <1>3 DEF Row, Address
      <4>3. old = [server |-> req[r].server, at |-> at, port |-> req[r].port,
                   type |-> old.type, sub |-> old.sub]
        BY <1>3, <4>1 DEF Row
      <4>4. old.server = req[r].server /\ old.at = at /\ old.port = req[r].port
        <5> HIDE DEF at
        <5> QED
          BY <4>3
      <4> QED
        BY <3>2, <4>2, <4>4 DEF SameType
    <3>4. node' = [node EXCEPT ![i] = node'[i]]
      BY <1>1, <1>6
    <3> QED
      BY <1>1, <1>2, <1>3, <1>4, <1>6, <2>2, <3>3, <3>4, RowKeepsBalance
  <2> QED
    BY <2>1, <2>2
<1>7. CASE StatementFails(r) /\ UNCHANGED node
  BY <1>1, <1>7, StatementFailsKeepsBalance
<1> QED
  BY <1>5, <1>6, <1>7 DEF UpdateRow

LEMMA DeleteRowKeepsBalance ==
  ASSUME Guarded, Balance, NEW r \in Request, DeleteRow(r)
  PROVE  Balance'
<1> DEFINE i == req[r].id
<1>1. /\ UNCHANGED <<server, writer, proxies>> /\ i \in Id /\ node \in [Id -> Row \cup {None}]
      /\ req \in [Request -> Work] /\ req[r].kind = "delete" /\ req[r].pc = "dropped"
  BY DEF DeleteRow, Guarded, Shape, TypeOK, Work
<1>2. CASE StatementFails(r) /\ UNCHANGED node
  BY <1>1, <1>2, StatementFailsKeepsBalance
<1>3. CASE node' = [node EXCEPT ![i] = None] /\ Returns(r) /\ UNCHANGED <<faults, excused>>
  <2>1. req'[r].pc = "idle" /\ \A q \in Request \ {r} : req'[q] = req[q]
    BY <1>1, <1>3 DEF Returns, Idle
  <2>2. node'[i] = None /\ \A j \in Id \ {i} : node'[j] = node[j]
    BY <1>1, <1>3
  <2>3. Reads(r) /\ Took(r) /\ ~Took(r)' /\ ~Gave(r) /\ ~Gave(r)'
    BY <1>1, <2>1 DEF Reads, Active, Took, Gave
  <2>4. Fresh'
    BY <1>1, <1>3, <2>1, <2>2, <2>3, RowKeepsFresh
  <2>5. \A h : Emptied(h)' <=> Emptied(h)
    BY <1>1 DEF Emptied
  <2>6. Housed' /\ Announced' /\ Swept'
    BY <1>1, <2>2, <2>5 DEF Balance, Housed, Announced, Swept, Registered
  <2>7. ASSUME NEW h PROVE Tenants(h)' = Tenants(h)
    <3>1. \A q \in Request \ {r} : (Took(q)' <=> Took(q)) /\ (Given(q, h)' <=> Given(q, h))
      BY <2>1 DEF Took, Gave, Given
    <3>2. \A j \in Id : Standing(j, h)' <=> Standing(j, h)
      <4>1. \A j \in Id : j = i => ~Standing(j, h) /\ ~Standing(j, h)'
        BY <2>2, <2>3 DEF Standing
      <4>2. \A q \in Request : Took(q)' <=> Took(q) /\ q # r
        BY <2>3, <3>1
      <4>3. ASSUME NEW j \in Id \ {i} PROVE Standing(j, h)' <=> Standing(j, h)
        BY <2>1, <2>2, <4>2 DEF Standing
      <4> QED
        BY <4>1, <4>3
    <3>3. \A j \in Id : Standing(j, h) => node'[j] = node[j]
      BY <2>2, <2>3 DEF Standing
    <3>4. \A q \in Request : /\ Given(q, h)' <=> Given(q, h)
                             /\ Given(q, h) => req'[q] = req[q]
      BY <2>1, <2>3, <3>1 DEF Given
    <3> QED
      BY <3>2, <3>3, <3>4 DEF Tenants
  <2> QED
    BY <1>1, <1>3, <2>4, <2>5, <2>6, <2>7, SureHosts, HostsBalance DEF Sure
<1> QED
  BY <1>2, <1>3 DEF DeleteRow

(* The steps of a request that has begun.                                  *)
LEMMA WorksKeepsBalance ==
  ASSUME AgentsListen, Guarded, Books, Balance, NEW r \in Request, Works(r)
  PROVE  Balance'
<1>1. CASE LockRefused(r)
  <2>1. /\ Returns(r) /\ UNCHANGED <<server, node, writer, proxies, excused>>
        /\ ~Took(r) /\ ~Gave(r)
    BY <1>1 DEF LockRefused, database, Took, Gave
  <2> QED
    BY <2>1, ReturnKeepsBalance
<1>2. CASE CreateAdds(r) \/ UpdateAdds(r)
  BY <1>2, AddKeepsBalance DEF CreateAdds, UpdateAdds
<1>3. CASE Removes(r)
  BY <1>3, RemoveKeepsBalance
<1>4. CASE CreateDetail(r) \/ UpdateDetail(r)
  BY <1>4, InsertKeepsBalance DEF CreateDetail, UpdateDetail
<1>5. CASE UpdateDropsDetail(r) \/ DeleteDropsDetail(r)
  BY <1>5, DeleteDetailKeepsBalance DEF UpdateDropsDetail, DeleteDropsDetail
<1>6. CASE AddressIsWritten(r)
  <2>1. /\ Returns(r) /\ UNCHANGED <<node, writer, proxies, excused>>
        /\ ~Took(r) /\ ~Gave(r)
    BY <1>6 DEF AddressIsWritten, bounds, Took, Gave
  <2>2. /\ \A s \in Server : server'[s].status = server[s].status
        /\ \A s \in Server : ~Registered(s) => server'[s] = server[s]
    BY <1>6 DEF AddressIsWritten, Registered, Guarded, Shape, TypeOK
  <2> QED
    BY <2>1, <2>2, ReturnKeepsBalance
<1> QED
  BY <1>1, <1>2, <1>3, <1>4, <1>5, <1>6, CreateRowKeepsBalance, UpdateRowKeepsBalance,
     DeleteRowKeepsBalance, ReadsNodeKeepsBalance DEF Works

LEMMA BeginningsKeepBalance ==
  ASSUME Guarded, Balance, NEW r \in Request,
         \/ CreateBegins(r) \/ UpdateBegins(r) \/ DeleteBegins(r)
         \/ RebindBegins(r) \/ ImportBegins(r)
  PROVE  Balance'
<1>1. UNCHANGED <<server, node, writer, proxies, excused>> /\ req[r].pc = "idle"
  BY DEF CreateBegins, UpdateBegins, DeleteBegins, RebindBegins, ImportBegins, RLock, Starts, database
<1>2. req \in [Request -> Work]
  BY DEF Guarded, Shape, TypeOK
<1>3. req'[r].pc = "begun" /\ \A q \in Request \ {r} : req'[q] = req[q]
  <2>1. CASE CreateBegins(r)
    BY <1>2, <2>1 DEF CreateBegins, Idle
  <2>2. CASE UpdateBegins(r)
    BY <1>2, <2>2 DEF UpdateBegins, Idle
  <2>3. CASE DeleteBegins(r)
    BY <1>2, <2>3 DEF DeleteBegins, Idle
  <2>4. CASE RebindBegins(r)
    BY <1>2, <2>4 DEF RebindBegins, Idle
  <2>5. CASE ImportBegins(r)
    BY <1>2, <2>5 DEF ImportBegins, Idle
  <2> QED
    BY <2>1, <2>2, <2>3, <2>4, <2>5
<1>4. ~Took(r) /\ ~Gave(r) /\ ~Took(r)' /\ ~Gave(r)' /\ ~Reads(r)'
  BY <1>1, <1>3 DEF Took, Gave, Reads
<1>5. Fresh'
  BY <1>1, <1>3, <1>4, FreshStays
<1>6. \A h \in Sure' : ~Given(r, h) /\ ~Given(r, h)'
  BY <1>4 DEF Given
<1> QED
  BY <1>1, <1>3, <1>4, <1>5, <1>6, PassKeepsBalance

(* A removal that clears the panel's tables has emptied its host before,   *)
(* or leaves the hosts of its rows in doubt.                               *)
LEMMA ClearKeepsBalance ==
  ASSUME Guarded, Balance, NEW s \in Server, writer # None, writer.server = s,
         writer.job \in {"complete", "forget"},
         ClearNodeServerData(s), excused' = excused \cup LeftBehind(s),
         writer' = None, UNCHANGED <<req, proxies>>,
         \A r \in Request : ~Reads(r) /\ ~Took(r) /\ ~Gave(r)
  PROVE  Balance'
<1>1. /\ \A i \in Id : node'[i] = IF node[i] \in RowsOf(s) THEN None ELSE node[i]
      /\ server' = [server EXCEPT ![s].status = "gone"]
  BY DEF ClearNodeServerData
<1>2. /\ \A t \in Server : server'[t].at = server[t].at
      /\ \A t \in Server \ {s} : server'[t].status = server[t].status
      /\ server'[s].status = "gone"
  BY <1>1 DEF Guarded, Shape, TypeOK
<1>3. \A i \in Id : node[i] \in RowsOf(s) <=> node[i] # None /\ node[i].server = s
  BY DEF RowsOf, Rows
<1>4. \A h : Emptied(h)' => Emptied(h)
  BY <1>2 DEF Emptied
<1>5. Fresh'
  BY DEF Fresh, Reads, Active
<1>6. Housed' /\ Announced' /\ Swept'
  BY <1>1, <1>4 DEF Balance, Housed, Announced, Swept
<1>7. ASSUME NEW h
      PROVE  Tenants(h)' = {k \in Tenants(h) : \E i \in Id : k[2] = i /\ node[i] \notin RowsOf(s)}
  <2>1. \A r \in Request : ~Took(r)' /\ ~Given(r, h) /\ ~Given(r, h)'
    BY DEF Took, Gave, Given
  <2>2. \A i \in Id : Standing(i, h)' <=> Standing(i, h) /\ node[i] \notin RowsOf(s)
    BY <1>1, <2>1 DEF Standing
  <2> QED
    BY <1>1, <2>1, <2>2 DEF Tenants, Standing
<1>8. ASSUME NEW h \in Sure'
      PROVE  Single(Tenants(h)') /\ (~Emptied(h)' => proxies'[h] = Shown(Tenants(h)'))
  <2>1. h \in Sure /\ h \in Ip
    BY DEF Sure
  <2>2. Single(Tenants(h)')
    BY <1>7, <2>1, SureHosts DEF Single
  <2>3. CASE Emptied(h) /\ ~Emptied(h)'
    <3>1. server[s].at.ip = h
      BY <1>2, <2>3 DEF Emptied
    <3>2. ASSUME NEW i \in Id, Standing(i, h) PROVE node[i] \in RowsOf(s)
      <4>1. /\ node[i] # None /\ node[i].server \in Server
            /\ h \in Place[node[i].server] /\ h \in Place[s]
        BY <3>1, <3>2 DEF Standing, Balance, Housed, Guarded, Sited, Shape, TypeOK, Row
      <4> QED
        BY <1>3, <4>1, PlaceAssumption
    <3>3. Tenants(h)' = {}
      <4>1. \A k \in Tenants(h) : \E i \in Id : Standing(i, h) /\ k = <<"node", i, node[i].port, node[i].type>>
        BY DEF Tenants, Given
      <4> QED
        BY <1>7, <3>2, <4>1
    <3>4. proxies[h] = {}
      BY <2>1, <2>3 DEF Balance, Swept
    <3> QED
      BY <2>2, <3>3, <3>4 DEF Shown
  <2>4. CASE ~Emptied(h)
    <3>1. ASSUME NEW i \in Id, Standing(i, h) PROVE node[i] \notin RowsOf(s)
      <4>1. SUFFICES ASSUME node[i] \in RowsOf(s) PROVE FALSE
        OBVIOUS
      <4>2. node[i].at.ip = h
        BY <3>1 DEF Standing
      <4>3. h \in LeftBehind(s)
        <5>1. CASE writer.job = "forget"
          BY <4>1, <4>2, <5>1 DEF LeftBehind
        <5>2. CASE writer.job = "complete"
          <6>1. server[s].status = "uninstalled"
            BY <5>2 DEF Balance, Announced
          <6>2. node[i].at.ip # server[s].at.ip
            BY <2>4, <4>2, <6>1 DEF Emptied
          <6> QED
            BY <4>1, <4>2, <5>2, <6>2 DEF LeftBehind
        <5> QED
          BY <5>1, <5>2
      <4> QED
        BY <1>8, <4>3 DEF Sure
    <3>2. Tenants(h)' = Tenants(h)
      <4>1. \A k \in Tenants(h) : \E i \in Id : Standing(i, h) /\ k = <<"node", i, node[i].port, node[i].type>>
        BY DEF Tenants, Given
      <4> QED
        BY <1>7, <3>1, <4>1
    <3> QED
      BY <2>1, <2>2, <2>4, <3>2, SureHosts
  <2> QED
    BY <2>2, <2>3, <2>4
<1> QED
  BY <1>5, <1>6, <1>8, HostsBalance

LEMMA TablesKeepBalance ==
  ASSUME Balance, UNCHANGED <<node, req, excused>>,
         \A s \in Server : server'[s].at = server[s].at,
         Swept', Announced',
         \A h \in Ip : ~Emptied(h)' => ~Emptied(h) /\ proxies'[h] = proxies[h]
  PROVE  Balance'
<1>1. \A h : Tenants(h)' = Tenants(h)
  BY DEF Tenants, Standing, Given, Took, Gave
<1>2. Housed' /\ Fresh'
  BY DEF Balance, Housed, Fresh, Sure, Reads, Active
<1> QED
  BY <1>1, <1>2, SureHosts, HostsBalance DEF Sure

LEMMA RemovalKeepsBalance ==
  ASSUME Guarded, Balance,
         (\E s \in Server : Announces(s) \/ HostUninstalls(s) \/ CreateNodeServer(s)) \/ Writes
  PROVE  Balance'
<1>1. /\ server \in [Server -> [at : Address,
                     status : {"new", "registered", "removing", "uninstalled", "gone"}]]
      /\ proxies \in [Ip -> SUBSET (Port \X Type)]
      /\ \A s \in Server : server[s].at.ip \in Ip
      /\ writer # None => writer.server \in Server
  BY DEF Guarded, Shape, TypeOK, Address
<1>2. ASSUME NEW s \in Server, Announces(s)
      PROVE  Balance'
  <2>1. UNCHANGED <<server, node, req, proxies, excused>>
    BY <1>2 DEF Announces, database
  <2>2. PICK job \in Job(s) : writer' = [server |-> s, job |-> job]
    BY <1>2 DEF Announces
  <2>3. /\ job = "begin" => Registered(s)
        /\ job = "complete" => server[s].status = "uninstalled"
    BY <2>2 DEF Job, Registered
  <2>4. Announced'
    BY <2>1, <2>2, <2>3 DEF Announced, Registered
  <2>5. \A h : Emptied(h)' <=> Emptied(h)
    BY <2>1 DEF Emptied
  <2>6. Swept'
    BY <2>1, <2>5 DEF Balance, Swept
  <2> QED
    BY <2>1, <2>4, <2>5, <2>6, TablesKeepBalance
<1>3. ASSUME NEW s \in Server, HostUninstalls(s)
      PROVE  Balance'
  <2>1. /\ UNCHANGED <<node, writer, req, excused>>
        /\ \A t \in Server : server'[t].at = server[t].at
        /\ \A t \in Server \ {s} : server'[t].status = server[t].status
        /\ server[s].status = "removing" /\ server'[s].status = "uninstalled"
        /\ proxies' = [proxies EXCEPT ![server[s].at.ip] = {}]
    BY <1>1, <1>3 DEF HostUninstalls
  <2>2. \A h : Emptied(h)' <=> Emptied(h) \/ h = server[s].at.ip
    BY <2>1 DEF Emptied
  <2>3. \A h \in Ip : proxies'[h] = IF h = server[s].at.ip THEN {} ELSE proxies[h]
    BY <1>1, <2>1
  <2>4. Swept'
    BY <2>2, <2>3 DEF Balance, Swept
  <2>5. Announced'
    BY <1>1, <2>1 DEF Balance, Announced, Registered
  <2> QED
    BY <2>1, <2>2, <2>3, <2>4, <2>5, TablesKeepBalance
<1>4. ASSUME NEW s \in Server, CreateNodeServer(s)
      PROVE  Balance'
  <2>1. /\ UNCHANGED <<node, writer, req, proxies, excused>>
        /\ \A t \in Server : server'[t].at = server[t].at
        /\ \A t \in Server \ {s} : server'[t].status = server[t].status
        /\ server[s].status = "new" /\ server'[s].status = "registered"
    BY <1>1, <1>4 DEF CreateNodeServer
  <2>2. \A h : Emptied(h)' <=> Emptied(h)
    BY <2>1 DEF Emptied
  <2>3. Swept'
    BY <2>1, <2>2 DEF Balance, Swept
  <2>4. Announced'
    BY <1>1, <2>1 DEF Balance, Announced, Registered
  <2> QED
    BY <2>1, <2>2, <2>3, <2>4, TablesKeepBalance
<1>5. CASE Writes
  <2> DEFINE s == writer.server
  <2>1. /\ writer # None /\ Readers = {} /\ writer' = None /\ s \in Server
        /\ UNCHANGED <<req, proxies>>
    BY <1>1, <1>5 DEF Writes
  <2>2. \A r \in Request : ~Reads(r) /\ ~Took(r) /\ ~Gave(r)
    BY <2>1 DEF Readers, Reads, Took, Gave, Active
  <2>3. Announced'
    BY <2>1 DEF Announced
  <2>4. CASE writer.job \in {"complete", "forget"} /\ ClearNodeServerData(s)
             /\ excused' = excused \cup LeftBehind(s)
    BY <2>1, <2>2, <2>4, ClearKeepsBalance
  <2>5. ASSUME NEW st \in {"removing", "registered"},
               server[s].status # "uninstalled", Becomes(s, st), excused' = excused
        PROVE  Balance'
    <3>1. /\ \A t \in Server : server'[t].at = server[t].at
          /\ \A t \in Server \ {s} : server'[t].status = server[t].status
          /\ server'[s].status = st /\ node' = node
      BY <1>1, <2>1, <2>5 DEF Becomes
    <3>2. \A h : Emptied(h)' <=> Emptied(h)
      BY <2>1, <2>5, <3>1 DEF Emptied
    <3>3. Swept'
      BY <2>1, <3>2 DEF Balance, Swept
    <3> QED
      BY <2>1, <2>3, <2>5, <3>1, <3>2, <3>3, TablesKeepBalance
  <2>6. CASE UNCHANGED <<server, node, details, excused>>
    <3>1. \A h : Emptied(h)' <=> Emptied(h)
      BY <2>6 DEF Emptied
    <3>2. Swept'
      BY <2>1, <3>1 DEF Balance, Swept
    <3> QED
      BY <2>1, <2>3, <2>6, <3>1, <3>2, TablesKeepBalance
  <2>7. writer.job = "begin" => server[s].status # "uninstalled"
    BY <2>1 DEF Balance, Announced, Registered
  <2> QED
    BY <1>5, <2>4, <2>5, <2>6, <2>7 DEF Writes
<1> QED
  BY <1>2, <1>3, <1>4, <1>5

LEMMA StepKeepsBalance ==
  ASSUME AgentsListen, Guarded, Books, Balance, [Next]_vars
  PROVE  Balance'
<1>1. CASE UNCHANGED vars
  <2>1. UNCHANGED <<server, node, writer, req, proxies, excused>>
    BY <1>1 DEF vars, database
  <2>2. \A h : Emptied(h)' <=> Emptied(h)
    BY <2>1 DEF Emptied
  <2>3. Swept' /\ Announced'
    BY <2>1, <2>2 DEF Balance, Swept, Announced, Registered
  <2> QED
    BY <2>1, <2>2, <2>3, TablesKeepBalance
<1>2. CASE Next
  BY <1>2, WorksKeepsBalance, BeginningsKeepBalance, RemovalKeepsBalance DEF Next
<1> QED
  BY <1>1, <1>2

LEMMA BalanceIsService ==
  ASSUME Balance
  PROVE  ServedAsRegistered
<1> SUFFICES ASSUME AtRest, NEW h \in Ip \ excused,
                    \A s \in Server : server[s].at.ip = h => server[s].status # "uninstalled"
             PROVE  proxies[h] = {<<row.port, row.type>> : row \in {x \in Rows : x.at.ip = h}}
  BY DEF ServedAsRegistered
<1>1. \A r \in Request : ~Took(r) /\ ~Given(r, h)
  BY DEF AtRest, Took, Gave, Given
<1>2. proxies[h] = Shown(Tenants(h))
  BY SureHosts DEF Sure, Emptied
<1>3. \A i \in Id : Standing(i, h) <=> node[i] # None /\ node[i].at.ip = h
  BY <1>1 DEF Standing
<1>4. ASSUME NEW y
      PROVE  y \in Shown(Tenants(h)) <=>
               \E i \in Id : /\ node[i] # None /\ node[i].at.ip = h
                             /\ y = <<node[i].port, node[i].type>>
  <2>1. y \in Shown(Tenants(h)) <=> \E k \in Tenants(h) : y = <<k[3], k[4]>>
    BY DEF Shown
  <2>2. \A k : k \in Tenants(h) <=>
          \E i \in Id : Standing(i, h) /\ k = <<"node", i, node[i].port, node[i].type>>
    BY <1>1, TenantIs
  <2>3. ASSUME NEW i \in Id, Standing(i, h), y = <<node[i].port, node[i].type>>
        PROVE  y \in Shown(Tenants(h))
    <3> DEFINE k == <<"node", i, node[i].port, node[i].type>>
    <3>1. k \in Tenants(h)
      BY <2>2, <2>3
    <3>2. y = <<k[3], k[4]>>
      BY <2>3
    <3> HIDE DEF k
    <3> QED
      BY <2>1, <3>1, <3>2
  <2>4. ASSUME NEW k \in Tenants(h), y = <<k[3], k[4]>>
        PROVE  \E i \in Id : Standing(i, h) /\ y = <<node[i].port, node[i].type>>
    BY <2>2, <2>4
  <2> QED
    BY <1>3, <2>1, <2>3, <2>4
<1>5. ASSUME NEW y
      PROVE  y \in {<<row.port, row.type>> : row \in {x \in Rows : x.at.ip = h}} <=>
               \E i \in Id : /\ node[i] # None /\ node[i].at.ip = h
                             /\ y = <<node[i].port, node[i].type>>
  BY DEF Rows
<1> QED
  BY <1>2, <1>4, <1>5

(* While nobody works on the nodes, a host runs the proxies of its rows    *)
(* and no other, for any number of servers, hosts, nodes and requests,     *)
(* whatever of server, port and type is edited: at every step a port of    *)
(* the host belongs to one node or to one request, and passes from one to  *)
(* the other when the row is written.  Hosts on which a call or statement  *)
(* failed, two requests crossed or nodes were forgotten are excepted, and  *)
(* agents listen where their servers are registered: at another port the   *)
(* panel ignores that nobody answers.                                      *)
THEOREM HostsServeTheirRows ==
  ASSUME AgentsListen
  PROVE  Spec => []ServedAsRegistered
<1>1. Init => Guarded /\ Books /\ Balance
  BY InitGuarded, InitBooks, InitBalance
<1>2. (Guarded /\ Books /\ Balance) /\ [Next]_vars => (Guarded /\ Books /\ Balance)'
  BY StepGuarded, StepKeepsBooks, StepKeepsBalance
<1>3. Guarded /\ Books /\ Balance => ServedAsRegistered
  BY BalanceIsService
<1> QED
  BY <1>1, <1>2, <1>3, PTL DEF Spec
================================================================================
