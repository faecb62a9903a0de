-------------------------- MODULE CertificateRotation --------------------------
(***************************************************************************)
(* The panel's mutual-TLS authority: renewal of its client certificate and *)
(* the replacement of its CA while nodes are registered, rebound to older  *)
(* trust and unreachable.                                                  *)
(*                                                                         *)
(* A generation is a directory with a CA and a client certificate; only    *)
(* state.json says which generations are current, pending and previous.    *)
(* Every five minutes a pass renews what is due and offers the bundle of   *)
(* trusted CAs to every registered mTLS node.  Only when all of them have  *)
(* accepted it does the pending CA become current, and after a day's grace *)
(* the previous one is retired in the same manner.                         *)
(*                                                                         *)
(* Time is abstracted to what the code compares it with: a certificate is  *)
(* fresh or due, a CA is fresh, aging or expired, the grace is over or not.*)
(***************************************************************************)
EXTENDS Naturals

CONSTANTS
  Node, CA, Generation, None,
  FirstCA, FirstGeneration,  \* what the installer left, imported by open
  MaxFaults,   \* failed calls, failed writes and crashes of the panel
  MaxChanges   \* changes to the fleet by operators

ASSUME FirstAssumption == FirstCA \in CA /\ FirstGeneration \in Generation
(* What a generation's directory holds.                                    *)
Content == [ca : CA, leaf : {"fresh", "due"}]

ASSUME NoneAssumption == None \notin CA \cup Generation /\ None \notin Content
ASSUME BoundAssumption == MaxFaults \in Nat /\ MaxChanges \in Nat

VARIABLES
  (* The authority directory *)
  generations,  \* generations/: what each directory holds, or None
  state,        \* state.json: [current, pending, previous]
  exported,     \* client-ca.crt, which deployment packages contain
  package,      \* the bundle in the deployment package an operator keeps
  (* The maintenance goroutine *)
  at, then,     \* where it is, and where it goes after a commit
  new,          \* the generation it has stored and not committed
  nodes, todo, failed,  \* the nodes read, those to be called, an error
  prune,        \* this pass may retire the previous CA
  (* Time *)
  age,          \* of each CA
  grace,        \* RotationGrace has passed since the activation
  (* The nodes *)
  mtls,         \* registrations with grpc_tls_mode mtls
  trust,        \* the bundle in grpc_client_ca_path of each node
  late,         \* nodes registered or rebound since the panel's last listing
  faults, changes

authority == <<generations, state, exported>>
pass == <<at, then, new, nodes, todo, failed, prune>>
time == <<age, grace>>
fleet == <<mtls, trust, late, package>>
bounds == <<faults, changes>>
vars == <<authority, pass, time, fleet, bounds>>

Referenced(s) == {s.current, s.pending, s.previous} \ {None}

CAOf(g) == generations[g].ca
CAsOf(gs) == {CAOf(g) : g \in gs \ {None}}

(* client-ca.crt follows state.json.                                       *)
Export == exported' = CAsOf(Referenced(state))

Init ==
  /\ generations = [g \in Generation |->
       IF g = FirstGeneration THEN [ca |-> FirstCA, leaf |-> "fresh"] ELSE None]
  /\ state = [current |-> FirstGeneration, pending |-> None, previous |-> None]
  /\ exported = {FirstCA} /\ package = {}
  /\ at = "idle" /\ then = "idle" /\ new = None
  /\ nodes = {} /\ todo = {} /\ failed = FALSE /\ prune = FALSE
  /\ age = [c \in CA |-> IF c = FirstCA THEN "fresh" ELSE "unused"]
  /\ grace = FALSE
  /\ mtls = Node
  /\ trust = [n \in Node |-> {FirstCA}]
  /\ late = {}
  /\ faults = 0 /\ changes = 0

-----------------------------------------------------------------------------
Unused == {g \in Generation : generations[g] = None}

(* Directories have random names: which unused one is taken is all the same.*)
Store(content) ==
  /\ Unused # {}
  /\ new' = CHOOSE g \in Unused : TRUE
  /\ generations' = [generations EXCEPT ![new'] = content]

(* state.json is replaced; export and sweep follow.                        *)
Commit(next, continue) ==
  /\ state' = next
  /\ at' = "sweep"
  /\ then' = continue
  /\ new' = None

(* The pass returns; what it knew was in its local variables.              *)
EndPass(where) ==
  /\ at' = where /\ then' = "idle" /\ new' = None
  /\ nodes' = {} /\ todo' = {} /\ failed' = FALSE /\ prune' = FALSE

(* Prepare: a client certificate that is due is issued again under the     *)
(* same CA; an aging CA gets a successor, one rotation at a time.          *)
BeginPass ==
  /\ at = "idle"
  /\ age[CAOf(state.current)] # "expired"
  /\ at' = IF generations[state.current].leaf = "due" THEN "renew" ELSE "prepared"
  /\ UNCHANGED <<authority, then, new, nodes, todo, failed, prune, time, fleet, bounds>>

Renew ==
  /\ at = "renew"
  /\ Store([ca |-> CAOf(state.current), leaf |-> "fresh"])
  /\ at' = "renewed"
  /\ UNCHANGED <<state, exported, then, nodes, todo, failed, prune, time, fleet, bounds>>

CommitRenewal ==
  /\ at = "renewed"
  /\ Commit([state EXCEPT !.current = new], "prepared")
  /\ UNCHANGED <<generations, exported, nodes, todo, failed, prune, time, fleet, bounds>>

NeedsSuccessor ==
  /\ age[CAOf(state.current)] = "aging"
  /\ state.pending = None
  /\ state.previous = None

Stage ==
  /\ at = "prepared"
  /\ NeedsSuccessor
  /\ \E c \in CA :
       /\ age[c] = "unused"
       /\ age' = [age EXCEPT ![c] = "fresh"]
       /\ Store([ca |-> c, leaf |-> "fresh"])
  /\ at' = "staged"
  /\ UNCHANGED <<state, exported, then, nodes, todo, failed, prune, grace, fleet, bounds>>

CommitStage ==
  /\ at = "staged"
  /\ Commit([state EXCEPT !.pending = new], "ready")
  /\ UNCHANGED <<generations, exported, nodes, todo, failed, prune, time, fleet, bounds>>

(* The rest of commit: export, then every directory outside kept goes.     *)
SweepAllBut(kept) ==
  /\ at = "sweep"
  /\ Export
  /\ generations' = [g \in Generation |-> IF g \in kept THEN generations[g] ELSE None]
  /\ at' = then /\ then' = "idle"
  /\ UNCHANGED <<state, new, nodes, todo, failed, prune, time, fleet, bounds>>

(* Seeded fault: the previous generation goes with the others.             *)
SweepPrevious == SweepAllBut({state.current, state.pending})

Sweep == SweepAllBut(Referenced(state))

-----------------------------------------------------------------------------
(* Reconcile.  The list of nodes is read before it, and is not read again. *)
List(registered) ==
  /\ \/ at = "ready"
     \/ at = "prepared" /\ ~NeedsSuccessor
  /\ at' = "offer"
  /\ nodes' = registered
  /\ todo' = registered
  /\ prune' = (state.previous # None /\ grace)
  /\ late' = {}
  /\ Export
  /\ UNCHANGED <<generations, state, then, new, failed, time, mtls, trust, package, bounds>>

(* Seeded fault: servers that are too new to have an instance are left out.*)
ListOlderNodes == List(mtls \ late)

ListNodes == List(mtls)

(* Seeded fault: the first round leaves the previous CA out already.       *)
BundleWithoutPrevious == CAsOf({state.current, state.pending})

(* bundle(true) first, bundle(false) in the second round of a pruning pass.*)
Bundle ==
  CAsOf({state.current, state.pending}
        \cup (IF at = "drop" THEN {} ELSE {state.previous}))

Valid(cas) == {c \in cas : age[c] # "expired"}

(* GetClientCertificate: the first of the two the node's trust accepts.    *)
Presented(n) ==
  LET known == Valid(trust[n])
  IN  IF CAOf(state.current) \in known THEN CAOf(state.current)
      ELSE IF state.previous # None /\ CAOf(state.previous) \in known
        THEN CAOf(state.previous)
        ELSE None

(* UpdateClientTrust on the node: only a client whom the new bundle trusts *)
(* may install it.                                                         *)
Accepts(n) == Presented(n) # None /\ Presented(n) \in Valid(Bundle)

Called(n) ==
  /\ at \in {"offer", "drop"}
  /\ n \in todo
  /\ todo' = todo \ {n}
  /\ UNCHANGED <<authority, at, then, new, nodes, prune, time, mtls, late, package, changes>>

(* writeTrustBundle: a temporary file takes the old one's place.           *)
Writes(n, bundle) == trust' = [trust EXCEPT ![n] = bundle]

Installs(n) == Accepts(n) /\ Writes(n, Bundle)

Accept(n) ==
  /\ Called(n)
  /\ Installs(n)
  /\ UNCHANGED <<failed, faults>>

Refuse(n) ==
  /\ Called(n)
  /\ ~Accepts(n)
  /\ failed' = TRUE
  /\ UNCHANGED <<trust, faults>>

(* The node is unreachable, or its answer is lost after it has accepted.   *)
CallFails(n) ==
  /\ faults < MaxFaults
  /\ faults' = faults + 1
  /\ Called(n)
  /\ failed' = TRUE
  /\ Installs(n) \/ UNCHANGED trust

OfferFails ==
  /\ at \in {"offer", "drop"}
  /\ todo = {} /\ failed
  /\ EndPass("idle")
  /\ UNCHANGED <<authority, time, fleet, bounds>>

AfterOffer ==
  IF prune THEN "drop" ELSE IF state.pending # None THEN "activate" ELSE "done"

(* Seeded fault: the second round calls whoever is registered by then.     *)
OfferEndsRelisted ==
  /\ at = "offer"
  /\ todo = {} /\ ~failed
  /\ at' = AfterOffer
  /\ todo' = IF prune THEN mtls ELSE {}
  /\ UNCHANGED <<authority, then, new, nodes, failed, prune, time, fleet, bounds>>

OfferEnds ==
  /\ at = "offer"
  /\ todo = {} /\ ~failed
  /\ at' = AfterOffer
  /\ todo' = IF prune THEN nodes ELSE {}
  /\ UNCHANGED <<authority, then, new, nodes, failed, prune, time, fleet, bounds>>

DropEnds ==
  /\ at = "drop"
  /\ todo = {} /\ ~failed
  /\ at' = "retire"
  /\ UNCHANGED <<authority, then, new, nodes, todo, failed, prune, time, fleet, bounds>>

(* A candidate that waited long for its nodes gets a new client certificate*)
(* before it is used; one whose CA has expired is never used.              *)
Reissue ==
  /\ at = "activate"
  /\ age[CAOf(state.pending)] # "expired"
  /\ generations[state.pending].leaf = "due"
  /\ Store([ca |-> CAOf(state.pending), leaf |-> "fresh"])
  /\ at' = "reissued"
  /\ UNCHANGED <<state, exported, then, nodes, todo, failed, prune, time, fleet, bounds>>

SwitchTo(g) ==
  /\ Commit([current |-> g, pending |-> None, previous |-> state.current], "done")
  /\ grace' = FALSE
  /\ UNCHANGED <<generations, exported, nodes, todo, failed, prune, age, fleet, bounds>>

Activate ==
  \/ /\ at = "activate"
     /\ age[CAOf(state.pending)] # "expired"
     /\ generations[state.pending].leaf # "due"
     /\ SwitchTo(state.pending)
  \/ at = "reissued" /\ SwitchTo(new)

Retire ==
  /\ at = "retire"
  /\ Commit([state EXCEPT !.previous = None], "done")
  /\ grace' = FALSE
  /\ UNCHANGED <<generations, exported, nodes, todo, failed, prune, age, fleet, bounds>>

ReconcileEnds ==
  /\ \/ at = "done"
     \/ at = "activate" /\ age[CAOf(state.pending)] = "expired"
  /\ EndPass("idle")
  /\ UNCHANGED <<authority, time, fleet, bounds>>

-----------------------------------------------------------------------------
(* A file or the listing fails: what was stored stays until a later commit *)
(* sweeps it.                                                              *)
StepFails ==
  /\ at \notin {"idle", "offer", "drop", "done", "down"}
  /\ faults < MaxFaults
  /\ faults' = faults + 1
  /\ EndPass("idle")
  /\ UNCHANGED <<authority, time, fleet, changes>>

Crash ==
  /\ at # "down"
  /\ faults < MaxFaults
  /\ faults' = faults + 1
  /\ EndPass("down")
  /\ UNCHANGED <<authority, time, fleet, changes>>

(* What open insists on; otherwise the panel does not start.               *)
Opens ==
  /\ state.current # None
  /\ state.pending = None \/ state.previous = None
  /\ \A g \in Referenced(state) : generations[g] # None

Open ==
  /\ at = "down"
  /\ Opens
  /\ Export
  /\ at' = "idle"
  /\ UNCHANGED <<generations, state, then, new, nodes, todo, failed, prune, time, fleet,
                 bounds>>

-----------------------------------------------------------------------------
(* Time passes; a pass reads the clock once, when it begins.               *)
Waiting == at \in {"idle", "down"}

LeafComesDue(g) ==
  /\ Waiting
  /\ g \in Referenced(state)
  /\ generations[g].leaf = "fresh"
  /\ generations' = [generations EXCEPT ![g].leaf = "due"]
  /\ UNCHANGED <<state, exported, pass, time, fleet, bounds>>

CAAges(c) ==
  /\ Waiting
  /\ age[c] \in {"fresh", "aging"}
  /\ age' = [age EXCEPT ![c] = IF @ = "fresh" THEN "aging" ELSE "expired"]
  /\ UNCHANGED <<authority, pass, grace, fleet, bounds>>

GraceEnds ==
  /\ Waiting
  /\ state.previous # None
  /\ ~grace
  /\ grace' = TRUE
  /\ UNCHANGED <<authority, pass, age, fleet, bounds>>

(* Deployment packages.  One is built for a registered mTLS node, while no *)
(* CA in client-ca.crt has expired; the file may be older than state.json. *)
(* The operators keep one package, of any day: a bound.                    *)
Deployable(n) == n \in mtls

ReadDeploymentCA == IF Valid(exported) = exported THEN exported ELSE {}

DownloadPackage(n) ==
  /\ at # "down"
  /\ Deployable(n)
  /\ ReadDeploymentCA # {}
  /\ package' = ReadDeploymentCA
  /\ UNCHANGED <<authority, pass, time, mtls, trust, late, bounds>>

(* Operators: a registration is deleted; a node is registered or probed    *)
(* into mTLS; a host is installed from a package, perhaps an old one, and  *)
(* trusts the package's CAs from then on.                                  *)
Change ==
  /\ changes < MaxChanges
  /\ changes' = changes + 1
  /\ UNCHANGED <<authority, pass, time, package, faults>>

Leave(n) ==
  /\ Change
  /\ n \in mtls
  /\ mtls' = mtls \ {n}
  /\ UNCHANGED <<trust, late>>

Join(n) ==
  /\ Change
  /\ n \notin mtls
  /\ mtls' = mtls \cup {n}
  /\ late' = late \cup {n}
  /\ UNCHANGED trust

InstallPackage(n) ==
  /\ Change
  /\ package # {} /\ Valid(package) = package
  /\ Writes(n, package)
  /\ late' = late \cup {n}
  /\ UNCHANGED mtls

-----------------------------------------------------------------------------
Pass ==
  \/ BeginPass \/ Renew \/ CommitRenewal \/ Stage \/ CommitStage \/ Sweep
  \/ ListNodes \/ OfferFails \/ OfferEnds \/ DropEnds
  \/ Reissue \/ Activate \/ Retire \/ ReconcileEnds
  \/ Open

Answer == \E n \in Node : Accept(n) \/ Refuse(n)

Next ==
  \/ Pass \/ Answer
  \/ StepFails \/ Crash \/ GraceEnds
  \/ \E g \in Generation : LeafComesDue(g)
  \/ \E c \in CA : CAAges(c)
  \/ \E n \in Node : CallFails(n) \/ DownloadPackage(n) \/ Leave(n) \/ Join(n)
                      \/ InstallPackage(n)

Spec == Init /\ [][Next]_vars

(* The cron job runs, calls end (newGrpcInstance gives each ten seconds),  *)
(* and the container is restarted.                                         *)
FairSpec == Spec /\ WF_vars(Pass) /\ WF_vars(Answer)

-----------------------------------------------------------------------------
Places == {"idle", "renew", "renewed", "prepared", "staged", "ready", "sweep", "offer",
           "drop", "activate", "reissued", "retire", "done", "down"}

(* Every variable keeps its type: in particular a node that is still to be *)
(* called is one of the nodes this pass has read.                          *)
TypeOK ==
  /\ generations \in [Generation -> Content \cup {None}]
  /\ state \in [current : Generation, pending : Generation \cup {None},
                previous : Generation \cup {None}]
  /\ exported \in SUBSET CA
  /\ at \in Places /\ then \in Places
  /\ new \in Generation \cup {None}
  /\ nodes \in SUBSET Node /\ todo \in SUBSET nodes
  /\ failed \in BOOLEAN /\ prune \in BOOLEAN
  /\ age \in [CA -> {"unused", "fresh", "aging", "expired"}]
  /\ grace \in BOOLEAN
  /\ mtls \in SUBSET Node /\ late \in SUBSET Node
  /\ trust \in [Node -> SUBSET CA]
  /\ package \in SUBSET CA
  /\ faults \in 0..MaxFaults /\ changes \in 0..MaxChanges

(* Wherever the panel dies, a restart finds a state that open accepts: one *)
(* rotation at a time, and every generation it names still on the disk.    *)
AuthorityOpens == Opens

(* The client identity moves to another CA only after every node the panel *)
(* had read accepted it, unless the node was given other trust since.      *)
ActivatedIsAcknowledged ==
  [][CAOf(state.current)' # CAOf(state.current) =>
       \A n \in nodes \ late : CAOf(state.current)' \in trust[n]]_vars

(* Whenever a deployment package can be had, be it between the commit of   *)
(* state.json and the export or after a crash there, a host installed from *)
(* it knows the CA that the panel presents itself under.                   *)
DeploymentTrustsPanel ==
  ReadDeploymentCA # {} => CAOf(state.current) \in ReadDeploymentCA

Identified(n) ==
  trust[n] \cap CAsOf({state.current, state.previous}) # {}

(* No step makes the panel a stranger to a registered node that knew it,   *)
(* except to one that was registered or rebound after the panel's listing. *)
NobodyIsStranded ==
  [][\A n \in mtls : Identified(n) => Identified(n)' \/ n \in late']_vars

Hopeless ==
  \/ \E c \in CA : age[c] = "expired"
  \/ \E n \in mtls : ~Identified(n)

(* A staged CA is activated, and a retired one forgotten after its grace,  *)
(* unless a CA expires or a registered node does not know the panel at all.*)
RotationCompletes ==
  /\ state.pending # None ~> state.pending = None \/ Hopeless
  /\ state.previous # None /\ grace ~> state.previous = None \/ Hopeless
=============================================================================
