----------------------- MODULE CertificateRotation_proofs -----------------------
(***************************************************************************)
(* For every number of nodes, CAs, generations, faults and changes of the  *)
(* fleet: a restart of the panel finds an authority it can open, and the   *)
(* client identity only moves to a CA that the listed nodes have accepted. *)
(***************************************************************************)
EXTENDS CertificateRotation, TLAPS

(* What the maintenance goroutine relies on at each place.                 *)
Where ==
  /\ then \in {"idle", "prepared", "ready", "done"}
  /\ at \in {"renewed", "staged", "reissued"} => new # None /\ generations[new] # None
  /\ at = "renewed" => CAOf(new) = CAOf(state.current)
  /\ at = "staged" => state.pending = None /\ state.previous = None
  /\ at \in {"activate", "reissued"} => state.pending # None
  /\ at = "reissued" => CAOf(new) = CAOf(state.pending)

(* Who has accepted the pending CA.                                        *)
Knows(n) == state.pending # None => CAOf(state.pending) \in trust[n]

Acked ==
  /\ at = "offer" /\ ~failed => \A n \in (nodes \ todo) \ late : Knows(n)
  /\ at \in {"activate", "reissued"} => \A n \in nodes \ late : Knows(n)

(* Who has kept the current CA, and who the pass has to ask.               *)
Trusts(n) == CAOf(state.current) \in trust[n]

Retained ==
  /\ at \in {"offer", "drop", "retire"} => mtls \subseteq nodes \cup late
  /\ at = "offer" /\ ~failed => \A n \in (nodes \ todo) \ late : Trusts(n)
  /\ at \in {"drop", "retire"} => \A n \in nodes \ late : Trusts(n)

(* What client-ca.crt holds while state.json is ahead of it.               *)
Exports ==
  /\ CAOf(state.current) \in exported
  /\ at \in {"offer", "drop", "activate", "reissued"} /\ state.pending # None =>
       CAOf(state.pending) \in exported

Safe == TypeOK /\ Opens /\ Where

Authority == Safe /\ Acked /\ Retained /\ Exports

(* The generations state.json names are stored, and have a CA.             *)
LEMMA StoredAuthority ==
  ASSUME TypeOK, Opens
  PROVE  /\ state.current \in Generation
         /\ generations[state.current] \in Content
         /\ state.pending # None =>
              state.pending \in Generation /\ generations[state.pending] \in Content
         /\ state.previous # None =>
              state.previous \in Generation /\ generations[state.previous] \in Content
  BY NoneAssumption DEF TypeOK, Opens, Referenced

(* The bundle that is sent or exported holds the current and the pending CA. *)
LEMMA CAsAreCAs ==
  ASSUME TypeOK, Opens
  PROVE  /\ CAsOf(Referenced(state)) \subseteq CA
         /\ Bundle \subseteq CA
         /\ CAOf(state.current) \in Bundle
         /\ state.pending # None => CAOf(state.pending) \in Bundle
  BY StoredAuthority, NoneAssumption DEF CAsOf, CAOf, Referenced, Bundle, Content, Opens

(* A panel that starts for the first time has an authority that opens. *)
LEMMA InitSafe ==
  Init => Authority
<1> SUFFICES ASSUME Init PROVE Authority
  OBVIOUS
<1>1. [ca |-> FirstCA, leaf |-> "fresh"] \in Content
  BY FirstAssumption DEF Content
<1>2. generations \in [Generation -> Content \cup {None}]
  BY <1>1 DEF Init
<1>3. generations[FirstGeneration] # None
  BY <1>1, FirstAssumption, NoneAssumption DEF Init
<1>4. /\ state = [current |-> FirstGeneration, pending |-> None, previous |-> None]
      /\ FirstGeneration \in Generation /\ FirstGeneration # None
  BY FirstAssumption, NoneAssumption DEF Init
<1>5. TypeOK
  <2>1. /\ exported \in SUBSET CA /\ at \in Places /\ then \in Places
        /\ nodes \in SUBSET Node /\ todo \in SUBSET nodes
        /\ age \in [CA -> {"unused", "fresh", "aging", "expired"}]
        /\ trust \in [Node -> SUBSET CA] /\ package \in SUBSET CA
    BY FirstAssumption DEF Init, Places
  <2>2. faults \in 0..MaxFaults /\ changes \in 0..MaxChanges
    BY BoundAssumption DEF Init
  <2>3. mtls \in SUBSET Node /\ late \in SUBSET Node /\ new \in Generation \cup {None}
        /\ failed \in BOOLEAN /\ prune \in BOOLEAN /\ grace \in BOOLEAN
    BY DEF Init
  <2> QED
    BY <1>2, <1>4, <2>1, <2>2, <2>3 DEF TypeOK
<1>6. Opens
  BY <1>3, <1>4 DEF Opens, Referenced
<1>7. Where /\ Acked /\ Retained
  BY DEF Init, Where, Acked, Retained
<1>8. Exports
  BY <1>2, <1>4 DEF Init, Exports, CAOf
<1> QED
  BY <1>5, <1>6, <1>7, <1>8 DEF Authority, Safe

(* A new generation goes to a directory that state.json does not name.     *)
LEMMA StoreKeeps ==
  ASSUME TypeOK, Opens, NEW content \in Content, Store(content)
  PROVE  /\ new' \in Generation /\ new' # None
         /\ generations' \in [Generation -> Content \cup {None}]
         /\ generations'[new'] = content /\ content # None
         /\ \A g \in Referenced(state) : generations'[g] = generations[g]
<1>1. new' \in Unused
  <2>1. Unused # {} /\ new' = CHOOSE g \in Unused : TRUE
    BY DEF Store
  <2> QED
    BY <2>1
<1>2. new' \in Generation /\ generations[new'] = None
  BY <1>1 DEF Unused
<1>3. generations' = [generations EXCEPT ![new'] = content]
  BY DEF Store
<1> QED
  BY <1>2, <1>3, NoneAssumption DEF TypeOK, Opens

(* What most steps leave alone.                                            *)
LEMMA SafeUnchanged ==
  ASSUME Safe,
         UNCHANGED <<generations, state, exported, age, grace, mtls, faults, changes>>,
         at' \in Places, then' = then, new' = new,
         nodes' \in SUBSET Node, todo' \in SUBSET nodes',
         failed' \in BOOLEAN, prune' \in BOOLEAN,
         late' \in SUBSET Node, trust' \in [Node -> SUBSET CA],
         package' \in SUBSET CA,
         at' = at \/ at' \notin {"renewed", "staged", "activate", "reissued"}
  PROVE  Safe'
<1>1. TypeOK'
  BY DEF Safe, TypeOK
<1>2. Opens'
  BY DEF Safe, Opens, Referenced
<1>3. Where'
  BY DEF Safe, Where, CAOf
<1> QED
  BY <1>1, <1>2, <1>3 DEF Safe

(* Every step keeps the type, the authority and its places.                *)
LEMMA StepSafe ==
  ASSUME Safe, [Next]_vars
  PROVE  Safe'
<1> USE DEF authority, pass, time, fleet, bounds
<1>a. TypeOK /\ Opens /\ Where
  BY DEF Safe
<1>b. /\ state.current \in Generation /\ generations[state.current] \in Content
      /\ state.pending # None =>
           state.pending \in Generation /\ generations[state.pending] \in Content
  BY <1>a, StoredAuthority
<1>1. CASE UNCHANGED vars
  BY <1>1, SafeUnchanged, <1>a DEF vars, TypeOK, Where
<1>2. CASE BeginPass
  BY <1>2, <1>a, SafeUnchanged DEF BeginPass, TypeOK, Places
<1>3. CASE Renew
  <2> DEFINE content == [ca |-> CAOf(state.current), leaf |-> "fresh"]
  <2>1. content \in Content /\ content.ca = CAOf(state.current)
    BY <1>b DEF Content, CAOf
  <2>2. Store(content)
    BY <1>3 DEF Renew
  <2> HIDE DEF content
  <2>3. /\ new' \in Generation /\ new' # None
        /\ generations' \in [Generation -> Content \cup {None}]
        /\ generations'[new'] = content /\ content # None
        /\ \A g \in Referenced(state) : generations'[g] = generations[g]
    BY <1>a, <2>1, <2>2, StoreKeeps
  <2>4. TypeOK'
    BY <1>3, <1>a, <2>3 DEF Renew, TypeOK, Places
  <2>5. Opens'
    BY <1>3, <1>a, <2>3 DEF Renew, Opens, Referenced
  <2>6. CAOf(state.current)' = CAOf(state.current)
    BY <1>3, <1>a, <2>3 DEF Renew, CAOf, Referenced, Opens
  <2>7. Where'
    BY <1>3, <1>a, <2>1, <2>3, <2>6 DEF Renew, Where, CAOf
  <2> QED
    BY <2>4, <2>5, <2>7 DEF Safe
<1>4. CASE CommitRenewal
  <2>1. TypeOK'
    BY <1>4, <1>a, NoneAssumption DEF CommitRenewal, Commit, TypeOK, Where, Places
  <2>2. Opens'
    BY <1>4, <1>a DEF CommitRenewal, Commit, TypeOK, Where, Opens, Referenced
  <2>3. Where'
    BY <1>4, <1>a DEF CommitRenewal, Commit, Where
  <2> QED
    BY <2>1, <2>2, <2>3 DEF Safe
<1>5. CASE CommitStage
  <2>1. TypeOK'
    BY <1>5, <1>a, NoneAssumption DEF CommitStage, Commit, TypeOK, Where, Places
  <2>2. Opens'
    BY <1>5, <1>a DEF CommitStage, Commit, TypeOK, Where, Opens, Referenced
  <2>3. Where'
    BY <1>5, <1>a DEF CommitStage, Commit, Where
  <2> QED
    BY <2>1, <2>2, <2>3 DEF Safe
<1>6. CASE Activate
  <2>0. PICK g \in Generation : SwitchTo(g)
    BY <1>6, <1>a, <1>b DEF Activate, TypeOK, Where
  <2>1. TypeOK'
    BY <2>0, <1>a, <1>b DEF SwitchTo, Commit, TypeOK, Places
  <2>2. Opens'
    BY <1>6, <1>a DEF Activate, SwitchTo, Commit, TypeOK, Where, Opens, Referenced
  <2>3. Where'
    BY <1>6, <1>a DEF Activate, SwitchTo, Commit, Where
  <2> QED
    BY <2>1, <2>2, <2>3 DEF Safe
<1>7. CASE Retire
  <2>1. TypeOK'
    BY <1>7, <1>a, NoneAssumption DEF Retire, Commit, TypeOK, Places
  <2>2. Opens'
    BY <1>7, <1>a DEF Retire, Commit, TypeOK, Opens, Referenced
  <2>3. Where'
    BY <1>7, <1>a DEF Retire, Commit, Where
  <2> QED
    BY <2>1, <2>2, <2>3 DEF Safe
<1>8. CASE Sweep
  <2>0. exported' \subseteq CA
    BY <1>8, <1>a, CAsAreCAs DEF Sweep, SweepAllBut, Export, TypeOK
  <2>1. TypeOK'
    BY <1>8, <1>a, <2>0 DEF Sweep, SweepAllBut, TypeOK, Where, Places
  <2>2. Opens'
    BY <1>8, <1>a DEF Sweep, SweepAllBut, TypeOK, Opens, Referenced
  <2>3. Where'
    BY <1>8, <1>a DEF Sweep, SweepAllBut, Where
  <2> QED
    BY <2>1, <2>2, <2>3 DEF Safe
<1>9. CASE ListNodes
  <2>0. exported' \subseteq CA
    BY <1>9, <1>a, CAsAreCAs DEF ListNodes, List, Export, TypeOK
  <2>1. TypeOK'
    BY <1>9, <1>a, <2>0 DEF ListNodes, List, TypeOK, Places
  <2>2. Opens'
    BY <1>9, <1>a DEF ListNodes, List, Opens, Referenced
  <2>3. Where'
    BY <1>9, <1>a DEF ListNodes, List, Where
  <2> QED
    BY <2>1, <2>2, <2>3 DEF Safe
<1>10. CASE Open
  <2>0. exported' \subseteq CA
    BY <1>10, <1>a, CAsAreCAs DEF Open, Export, TypeOK
  <2>1. TypeOK'
    BY <1>10, <1>a, <2>0 DEF Open, TypeOK, Places
  <2>2. Opens'
    BY <1>10, <1>a DEF Open, Opens, Referenced
  <2>3. Where'
    BY <1>10, <1>a DEF Open, Where
  <2> QED
    BY <2>1, <2>2, <2>3 DEF Safe
<1>11. CASE OfferEnds
  <2>1. TypeOK'
    BY <1>11, <1>a DEF OfferEnds, AfterOffer, TypeOK, Places
  <2>2. Opens'
    BY <1>11, <1>a DEF OfferEnds, Opens, Referenced
  <2>3. Where'
    BY <1>11, <1>a DEF OfferEnds, AfterOffer, Where, CAOf
  <2> QED
    BY <2>1, <2>2, <2>3 DEF Safe
<1>12. CASE DropEnds
  BY <1>12, <1>a, SafeUnchanged DEF DropEnds, TypeOK, Places
<1>13. CASE OfferFails \/ ReconcileEnds \/ StepFails \/ Crash
  <2>0. /\ \E where \in {"idle", "down"} : EndPass(where)
        /\ UNCHANGED <<authority, time, fleet, changes>>
    BY <1>13 DEF OfferFails, ReconcileEnds, StepFails, Crash
  <2>4. faults' \in 0..MaxFaults
    BY <1>13, <1>a, BoundAssumption DEF OfferFails, ReconcileEnds, StepFails, Crash, TypeOK
  <2>1. TypeOK'
    BY <2>0, <2>4, <1>a DEF EndPass, TypeOK, Places
  <2>2. Opens'
    BY <1>13, <1>a DEF OfferFails, ReconcileEnds, StepFails, Crash, EndPass, Opens, Referenced
  <2>3. Where'
    BY <1>13, <1>a DEF OfferFails, ReconcileEnds, StepFails, Crash, EndPass, Where
  <2> QED
    BY <2>1, <2>2, <2>3 DEF Safe
<1>14. CASE \E n \in Node : Accept(n) \/ Refuse(n) \/ CallFails(n)
  <2> PICK n \in Node : Accept(n) \/ Refuse(n) \/ CallFails(n)
    BY <1>14
  <2>4. Installs(n) \/ UNCHANGED trust
    BY DEF Accept, Refuse, CallFails
  <2>0. trust' \in [Node -> SUBSET CA]
    BY <2>4, <1>a, CAsAreCAs DEF Installs, Writes, TypeOK
  <2>5. Called(n) /\ failed' \in BOOLEAN
    BY <1>a DEF Accept, Refuse, CallFails, TypeOK
  <2>6. faults' \in 0..MaxFaults
    BY <1>a, BoundAssumption DEF Accept, Refuse, CallFails, TypeOK
  <2>1. TypeOK'
    BY <1>a, <2>0, <2>5, <2>6 DEF Called, TypeOK
  <2>2. Opens'
    BY <1>a DEF Accept, Refuse, CallFails, Called, Opens, Referenced
  <2>3. Where'
    BY <1>a DEF Accept, Refuse, CallFails, Called, Where, CAOf
  <2> QED
    BY <2>1, <2>2, <2>3 DEF Safe
<1>15. CASE \E n \in Node : \/ DownloadPackage(n)
                           \/ Leave(n) \/ Join(n) \/ InstallPackage(n)
  <2> PICK n \in Node : DownloadPackage(n) \/ Leave(n) \/ Join(n) \/ InstallPackage(n)
    BY <1>15
  <2>0. trust' \in [Node -> SUBSET CA]
    BY <1>a DEF DownloadPackage, Leave, Join, InstallPackage, Writes, TypeOK
  <2>4. ReadDeploymentCA \subseteq CA
    BY <1>a DEF ReadDeploymentCA, TypeOK
  <2>1. TypeOK'
    BY <1>a, <2>0, <2>4, BoundAssumption DEF DownloadPackage, Leave, Join, InstallPackage, Writes, Change, TypeOK
  <2>2. Opens'
    BY <1>a DEF DownloadPackage, Leave, Join, InstallPackage, Change, Opens, Referenced
  <2>3. Where'
    BY <1>a DEF DownloadPackage, Leave, Join, InstallPackage, Change, Where, CAOf
  <2> QED
    BY <2>1, <2>2, <2>3 DEF Safe
<1>16. CASE GraceEnds \/ \E c \in CA : CAAges(c)
  <2>1. TypeOK'
    BY <1>16, <1>a DEF GraceEnds, CAAges, TypeOK
  <2>2. Opens'
    BY <1>16, <1>a DEF GraceEnds, CAAges, Opens, Referenced
  <2>3. Where'
    BY <1>16, <1>a DEF GraceEnds, CAAges, Where, CAOf
  <2> QED
    BY <2>1, <2>2, <2>3 DEF Safe
<1>17. CASE Stage
  <2> PICK c \in CA : Store([ca |-> c, leaf |-> "fresh"]) /\ age' = [age EXCEPT ![c] = "fresh"]
    BY <1>17 DEF Stage
  <2> DEFINE content == [ca |-> c, leaf |-> "fresh"]
  <2>1. content \in Content /\ Store(content)
    BY DEF Content
  <2> HIDE DEF content
  <2>3. /\ new' \in Generation /\ new' # None
        /\ generations' \in [Generation -> Content \cup {None}]
        /\ generations'[new'] = content /\ content # None
        /\ \A g \in Referenced(state) : generations'[g] = generations[g]
    BY <1>a, <2>1, StoreKeeps
  <2>4. TypeOK'
    BY <1>17, <1>a, <2>3 DEF Stage, TypeOK, Places
  <2>5. Opens'
    BY <1>17, <1>a, <2>3 DEF Stage, Opens, Referenced
  <2>7. Where'
    BY <1>17, <1>a, <2>3 DEF Stage, NeedsSuccessor, Where
  <2> QED
    BY <2>4, <2>5, <2>7 DEF Safe
<1>18. CASE Reissue
  <2>0. state.pending # None
    BY <1>18, <1>a DEF Reissue, Where
  <2> DEFINE content == [ca |-> CAOf(state.pending), leaf |-> "fresh"]
  <2>1. content \in Content /\ content.ca = CAOf(state.pending)
    BY <1>b, <2>0 DEF Content, CAOf
  <2>2. Store(content)
    BY <1>18 DEF Reissue
  <2> HIDE DEF content
  <2>3. /\ new' \in Generation /\ new' # None
        /\ generations' \in [Generation -> Content \cup {None}]
        /\ generations'[new'] = content /\ content # None
        /\ \A g \in Referenced(state) : generations'[g] = generations[g]
    BY <1>a, <2>1, <2>2, StoreKeeps
  <2>4. TypeOK'
    BY <1>18, <1>a, <2>3 DEF Reissue, TypeOK, Places
  <2>5. Opens'
    BY <1>18, <1>a, <2>3 DEF Reissue, Opens, Referenced
  <2>6. CAOf(state.pending)' = CAOf(state.pending)
    BY <1>18, <1>a, <2>0, <2>3 DEF Reissue, CAOf, Referenced
  <2>7. Where'
    BY <1>18, <1>a, <2>0, <2>1, <2>3, <2>6 DEF Reissue, Where, CAOf
  <2> QED
    BY <2>4, <2>5, <2>7 DEF Safe
<1>19. CASE \E g \in Generation : LeafComesDue(g)
  <2> PICK g \in Generation : LeafComesDue(g)
    BY <1>19
  <2>1. generations[g] \in Content /\ generations' = [generations EXCEPT ![g].leaf = "due"]
    BY <1>a DEF LeafComesDue, Opens, TypeOK
  <2>2. /\ [generations[g] EXCEPT !.leaf = "due"] \in Content
        /\ [generations[g] EXCEPT !.leaf = "due"].ca = generations[g].ca
    BY <2>1 DEF Content
  <2>3. /\ generations' \in [Generation -> Content \cup {None}]
        /\ \A h \in Generation : generations'[h] # None <=> generations[h] # None
        /\ \A h \in Generation : generations'[h].ca = generations[h].ca
    BY <2>1, <2>2, <1>a, NoneAssumption DEF TypeOK
  <2>4. TypeOK'
    BY <1>a, <2>3 DEF LeafComesDue, TypeOK
  <2>5. Opens'
    BY <1>a, <2>3 DEF LeafComesDue, Opens, Referenced, TypeOK
  <2>7. Where'
    BY <1>a, <2>3 DEF LeafComesDue, Waiting, Where, CAOf, TypeOK
  <2> QED
    BY <2>4, <2>5, <2>7 DEF Safe
<1> QED
  BY <1>1, <1>2, <1>3, <1>4, <1>5, <1>6, <1>7, <1>8, <1>9, <1>10, <1>11, <1>12, <1>13,
     <1>14, <1>15, <1>16, <1>17, <1>18, <1>19
  DEF Next, Pass, Answer

(* A node that is heard of only after it is listed is late; of the others, *)
(* each one that has left todo without an error has installed the bundle.  *)
LEMMA StepAcked ==
  ASSUME Authority, [Next]_vars
  PROVE  Acked'
<1> USE DEF authority, pass, time, fleet, bounds
<1>a. TypeOK /\ Opens /\ Where /\ Acked
  BY DEF Authority, Safe
<1>1. CASE UNCHANGED vars
  BY <1>1, <1>a DEF vars, Acked, Knows, CAOf
<1>2. CASE ListNodes
  BY <1>2 DEF ListNodes, List, Acked
<1>3. CASE \E n \in Node : Accept(n) \/ Refuse(n) \/ CallFails(n)
  <2> PICK n \in Node : Accept(n) \/ Refuse(n) \/ CallFails(n)
    BY <1>3
  <2>1. /\ at' = at /\ at \in {"offer", "drop"}
        /\ todo' = todo \ {n} /\ nodes' = nodes /\ late' = late
        /\ state' = state /\ generations' = generations
    BY DEF Accept, Refuse, CallFails, Called
  <2>2. CASE failed' = TRUE
    BY <2>1, <2>2 DEF Acked
  <2>3. CASE Accept(n)
    <3>1. failed' = failed /\ trust' = [trust EXCEPT ![n] = Bundle]
      BY <2>3 DEF Accept, Installs, Writes
    <3>2. state.pending # None => CAOf(state.pending) \in Bundle
      BY <1>a, CAsAreCAs
    <3>3. \A m \in Node : trust'[m] = IF m = n THEN Bundle ELSE trust[m]
      BY <3>1, <1>a DEF TypeOK
    <3>4. \A m \in Node : Knows(m) => Knows(m)'
      BY <2>1, <3>2, <3>3 DEF Knows, CAOf
    <3>5. Knows(n)'
      BY <2>1, <3>2, <3>3 DEF Knows, CAOf
    <3> QED
      BY <2>1, <3>1, <3>4, <3>5, <1>a DEF Acked, TypeOK
  <2> QED
    BY <2>2, <2>3 DEF Refuse, CallFails
<1>4. CASE OfferEnds
  <2>1. state.pending # None /\ at' = "activate" => \A n \in nodes \ late : Knows(n)
    BY <1>4, <1>a DEF OfferEnds, Acked
  <2> QED
    BY <1>4, <1>a, <2>1 DEF OfferEnds, AfterOffer, Acked, Knows, CAOf
<1>5. CASE Reissue
  <2>0. state.pending \in Generation /\ state.pending # None
    BY <1>5, <1>a DEF Reissue, Where, TypeOK
  <2>1. Store([ca |-> CAOf(state.pending), leaf |-> "fresh"])
    BY <1>5 DEF Reissue
  <2>2. [ca |-> CAOf(state.pending), leaf |-> "fresh"] \in Content
    BY <1>a, <2>0, StoredAuthority DEF Content, CAOf
  <2>3. generations'[state.pending] = generations[state.pending]
    BY <1>a, <2>0, <2>1, <2>2, StoreKeeps DEF Referenced
  <2> QED
    BY <1>5, <1>a, <2>3 DEF Reissue, Acked, Knows, CAOf
<1>6. CASE \E n \in Node : \/ DownloadPackage(n)
                          \/ Leave(n) \/ Join(n) \/ InstallPackage(n)
  <2> PICK n \in Node : DownloadPackage(n) \/ Leave(n) \/ Join(n) \/ InstallPackage(n)
    BY <1>6
  <2>1. UNCHANGED <<at, failed, nodes, todo, state, generations>>
    BY DEF DownloadPackage, Leave, Join, InstallPackage, Change
  <2>2. late \subseteq late'
    BY DEF DownloadPackage, Leave, Join, InstallPackage, Change
  <2>3. \A m \in Node \ late' : trust'[m] = trust[m]
    BY <1>a DEF DownloadPackage, Leave, Join, InstallPackage, Writes, Change, TypeOK
  <2>4. \A m \in Node \ late' : Knows(m) => Knows(m)'
    BY <2>1, <2>3 DEF Knows, CAOf
  <2> QED
    BY <1>a, <2>1, <2>2, <2>4 DEF Acked, TypeOK
<1>7. CASE \/ BeginPass \/ Renew \/ CommitRenewal \/ Stage \/ CommitStage \/ Sweep
           \/ OfferFails \/ DropEnds \/ Activate \/ Retire \/ ReconcileEnds \/ Open
           \/ StepFails \/ Crash
  <2>1. at' \notin {"offer", "activate", "reissued"}
    BY <1>7, <1>a
    DEF BeginPass, Renew, CommitRenewal, Stage, CommitStage, Sweep, SweepAllBut, Where,
        OfferFails, DropEnds, Activate, SwitchTo, Retire, Commit, ReconcileEnds, Open,
        StepFails, Crash, EndPass
  <2> QED
    BY <2>1 DEF Acked
<1>8. CASE \/ GraceEnds
           \/ \E c \in CA : CAAges(c)
           \/ \E g \in Generation : LeafComesDue(g)
  <2>1. at' \notin {"offer", "activate", "reissued"}
    BY <1>8 DEF GraceEnds, CAAges, LeafComesDue, Waiting
  <2> QED
    BY <2>1 DEF Acked
<1> QED
  BY <1>1, <1>2, <1>3, <1>4, <1>5, <1>6, <1>7, <1>8 DEF Next, Pass, Answer

(* The same for the current CA, in both rounds: a node that is registered  *)
(* and not late is one of those the pass has asked.                        *)
LEMMA StepRetained ==
  ASSUME Authority, [Next]_vars
  PROVE  Retained'
<1> USE DEF authority, pass, time, fleet, bounds
<1>a. TypeOK /\ Opens /\ Where /\ Retained
  BY DEF Authority, Safe
<1>1. CASE UNCHANGED vars
  BY <1>1, <1>a DEF vars, Retained, Trusts, CAOf
<1>2. CASE ListNodes
  BY <1>2 DEF ListNodes, List, Retained
<1>3. CASE \E n \in Node : Accept(n) \/ Refuse(n) \/ CallFails(n)
  <2> PICK n \in Node : Accept(n) \/ Refuse(n) \/ CallFails(n)
    BY <1>3
  <2>1. /\ at' = at /\ at \in {"offer", "drop"} /\ mtls' = mtls
        /\ todo' = todo \ {n} /\ nodes' = nodes /\ late' = late
        /\ state' = state /\ generations' = generations
    BY DEF Accept, Refuse, CallFails, Called
  <2>2. trust' = [trust EXCEPT ![n] = Bundle] \/ trust' = trust
    BY DEF Accept, Refuse, CallFails, Installs, Writes
  <2>3. CAOf(state.current) \in Bundle
    BY <1>a, CAsAreCAs
  <2>4. \A m \in Node : Trusts(m) => Trusts(m)'
    BY <2>1, <2>2, <2>3, <1>a DEF Trusts, CAOf, TypeOK
  <2>5. failed' = TRUE \/ (failed' = failed /\ Trusts(n)')
    BY <2>1, <2>3, <1>a DEF Accept, Refuse, CallFails, Installs, Writes, Trusts, CAOf, TypeOK
  <2> QED
    BY <2>1, <2>4, <2>5, <1>a DEF Retained, TypeOK
<1>4. CASE OfferEnds
  BY <1>4, <1>a DEF OfferEnds, AfterOffer, Retained, Trusts, CAOf
<1>5. CASE DropEnds
  BY <1>5, <1>a DEF DropEnds, Retained, Trusts, CAOf
<1>6. CASE \E n \in Node : \/ DownloadPackage(n)
                          \/ Leave(n) \/ Join(n) \/ InstallPackage(n)
  <2> PICK n \in Node : DownloadPackage(n) \/ Leave(n) \/ Join(n) \/ InstallPackage(n)
    BY <1>6
  <2>1. UNCHANGED <<at, failed, nodes, todo, state, generations>>
    BY DEF DownloadPackage, Leave, Join, InstallPackage, Change
  <2>2. late \subseteq late' /\ mtls' \subseteq mtls \cup late'
    BY DEF DownloadPackage, Leave, Join, InstallPackage, Change
  <2>3. \A m \in Node \ late' : trust'[m] = trust[m]
    BY <1>a DEF DownloadPackage, Leave, Join, InstallPackage, Writes, Change, TypeOK
  <2>4. \A m \in Node \ late' : Trusts(m) => Trusts(m)'
    BY <2>1, <2>3 DEF Trusts, CAOf
  <2> QED
    BY <1>a, <2>1, <2>2, <2>4 DEF Retained, TypeOK
<1>7. CASE \/ BeginPass \/ Renew \/ CommitRenewal \/ Stage \/ CommitStage \/ Sweep
           \/ OfferFails \/ Reissue \/ Activate \/ Retire \/ ReconcileEnds \/ Open
           \/ StepFails \/ Crash
  <2>1. at' \notin {"offer", "drop", "retire"}
    BY <1>7, <1>a
    DEF BeginPass, Renew, CommitRenewal, Stage, CommitStage, Sweep, SweepAllBut, Where,
        OfferFails, Reissue, Activate, SwitchTo, Retire, Commit, ReconcileEnds, Open,
        StepFails, Crash, EndPass
  <2> QED
    BY <2>1 DEF Retained
<1>8. CASE \/ GraceEnds
           \/ \E c \in CA : CAAges(c)
           \/ \E g \in Generation : LeafComesDue(g)
  <2>1. at' \notin {"offer", "drop", "retire"}
    BY <1>8 DEF GraceEnds, CAAges, LeafComesDue, Waiting
  <2> QED
    BY <2>1 DEF Retained
<1> QED
  BY <1>1, <1>2, <1>3, <1>4, <1>5, <1>6, <1>7, <1>8 DEF Next, Pass, Answer

(* An authority that names no other CA needs no new export.                *)
LEMMA ExportsUnchanged ==
  ASSUME Authority, exported' = exported,
         CAOf(state.current)' = CAOf(state.current),
         \/ at' \notin {"offer", "drop", "activate", "reissued"}
         \/ /\ at \in {"offer", "drop", "activate", "reissued"}
            /\ state' = state
            /\ state.pending # None => CAOf(state.pending)' = CAOf(state.pending)
  PROVE  Exports'
  BY DEF Authority, Exports

(* client-ca.crt is written after state.json: it has the current CA, since *)
(* the bundle that offered that CA was exported before it was activated.   *)
LEMMA StepExports ==
  ASSUME Authority, [Next]_vars
  PROVE  Exports'
<1> USE DEF authority, pass, time, fleet, bounds
<1>a. TypeOK /\ Opens /\ Where /\ Exports
  BY DEF Authority, Safe
<1>b. /\ state.current \in Generation /\ generations[state.current] \in Content
      /\ state.pending # None =>
           state.pending \in Generation /\ generations[state.pending] \in Content
  BY <1>a, StoredAuthority
<1>1. CASE UNCHANGED <<generations, state, exported, at>>
  BY <1>1, <1>a DEF Exports, CAOf
<1>2. CASE Export /\ state' = state /\ \A g \in Referenced(state) : CAOf(g)' = CAOf(g)
  <2>1. /\ CAOf(state.current) \in exported'
        /\ state.pending # None => CAOf(state.pending) \in exported'
    BY <1>2, <1>a DEF Export, CAsOf, Referenced, Opens
  <2>2. /\ CAOf(state.current)' = CAOf(state.current)
        /\ state.pending # None => CAOf(state.pending)' = CAOf(state.pending)
    BY <1>2, <1>a DEF Referenced, Opens
  <2> QED
    BY <1>2, <2>1, <2>2 DEF Exports
<1>3. CASE Sweep
  BY <1>2, <1>3, <1>a DEF Sweep, SweepAllBut, CAOf, Referenced, TypeOK
<1>4. CASE ListNodes \/ Open
  BY <1>2, <1>4 DEF ListNodes, List, Open, CAOf
<1>5. CASE Activate
  <2>1. /\ at \in {"activate", "reissued"} /\ state.pending # None
        /\ generations' = generations /\ exported' = exported /\ at' = "sweep"
        /\ CAOf(state.current)' = CAOf(state.pending)
    BY <1>5, <1>a DEF Activate, SwitchTo, Commit, Where, CAOf
  <2> QED
    BY <2>1, <1>a DEF Exports
<1>6. CASE CommitRenewal \/ CommitStage \/ Retire
  <2>1. exported' = exported /\ at' = "sweep"
    BY <1>6 DEF CommitRenewal, CommitStage, Retire, Commit
  <2>2. CAOf(state.current)' = CAOf(state.current)
    BY <1>6, <1>a DEF CommitRenewal, CommitStage, Retire, Commit, Where, CAOf, TypeOK
  <2> QED
    BY <2>1, <2>2, ExportsUnchanged
<1>7. CASE Renew \/ Stage \/ Reissue
  <2>1. state' = state /\ exported' = exported
    BY <1>7 DEF Renew, Stage, Reissue
  <2>2. \E content \in Content : Store(content)
    <3>1. CASE Renew
      BY <3>1, <1>b DEF Renew, CAOf, Content
    <3>2. CASE Stage
      BY <3>2 DEF Stage, Content
    <3>3. CASE Reissue
      BY <3>3, <1>a, <1>b DEF Reissue, Where, CAOf, Content
    <3> QED
      BY <1>7, <3>1, <3>2, <3>3
  <2>3. \A g \in Referenced(state) : generations'[g] = generations[g]
    BY <2>2, <1>a, StoreKeeps
  <2>4. /\ CAOf(state.current)' = CAOf(state.current)
        /\ state.pending # None => CAOf(state.pending)' = CAOf(state.pending)
    BY <2>1, <2>3, <1>a DEF CAOf, Referenced, Opens
  <2>5. at' \in {"offer", "drop", "activate", "reissued"} => at = "activate"
    BY <1>7 DEF Renew, Stage, Reissue
  <2> QED
    BY <2>1, <2>4, <2>5, ExportsUnchanged
<1>8. CASE \E g \in Generation : LeafComesDue(g)
  <2> PICK g \in Generation : LeafComesDue(g)
    BY <1>8
  <2>1. UNCHANGED <<state, exported, at>> /\ at \in {"idle", "down"}
    BY DEF LeafComesDue, Waiting
  <2>2. CAOf(state.current)' = CAOf(state.current)
    BY <1>a, <1>b DEF LeafComesDue, CAOf, TypeOK, Content
  <2> QED
    BY <2>1, <2>2, ExportsUnchanged
<1>9. CASE \/ BeginPass \/ OfferFails \/ OfferEnds \/ DropEnds \/ ReconcileEnds
           \/ StepFails \/ Crash
  <2>1. UNCHANGED <<generations, state, exported>>
    BY <1>9 DEF BeginPass, OfferFails, OfferEnds, DropEnds, ReconcileEnds, StepFails, Crash
  <2>2. \/ at' \notin {"offer", "drop", "activate", "reissued"}
        \/ at \in {"offer", "drop", "activate", "reissued"}
    BY <1>9
    DEF BeginPass, OfferFails, OfferEnds, DropEnds, ReconcileEnds, StepFails, Crash, EndPass
  <2> QED
    BY <2>1, <2>2, ExportsUnchanged DEF CAOf
<1> QED
  <2>1. CASE \E n \in Node : \/ Accept(n) \/ Refuse(n) \/ CallFails(n)
                             \/ DownloadPackage(n)
                             \/ Leave(n) \/ Join(n) \/ InstallPackage(n)
    BY <1>1, <2>1
    DEF Accept, Refuse, CallFails, Called, DownloadPackage, Leave, Join, InstallPackage, Change
  <2>2. CASE UNCHANGED vars \/ GraceEnds \/ \E c \in CA : CAAges(c)
    BY <1>1, <2>2 DEF vars, GraceEnds, CAAges
  <2> QED
    BY <1>3, <1>4, <1>5, <1>6, <1>7, <1>8, <1>9, <2>1, <2>2 DEF Next, Pass, Answer

(* Every step keeps the four parts of the invariant together. *)
LEMMA StepAuthority ==
  Authority /\ [Next]_vars => Authority'
  BY StepSafe, StepAcked, StepRetained, StepExports DEF Authority

(* The inductive invariant holds in every reachable state. *)
LEMMA AuthorityInductive ==
  Spec => []Authority
  BY InitSafe, StepAuthority, PTL DEF Spec

(* Every variable keeps its type, whatever the number of nodes.            *)
THEOREM TypeCorrect ==
  Spec => []TypeOK
<1>1. Authority => TypeOK
  BY DEF Authority, Safe
<1> QED
  BY <1>1, AuthorityInductive, PTL

(* A crash between any two steps leaves what open accepts.                 *)
THEOREM AuthorityAlwaysOpens ==
  Spec => []AuthorityOpens
<1>1. Authority => AuthorityOpens
  BY DEF Authority, Safe, AuthorityOpens
<1> QED
  BY <1>1, AuthorityInductive, PTL

(* A host that is installed from a package knows the panel of that day.    *)
THEOREM PackagesTrustThePanel ==
  Spec => []DeploymentTrustsPanel
<1>1. Authority => DeploymentTrustsPanel
  BY DEF Authority, Exports, DeploymentTrustsPanel, ReadDeploymentCA
<1> QED
  BY <1>1, AuthorityInductive, PTL

(* Only commits name another current generation, and only an activation    *)
(* names one of another CA.                                                *)
LEMMA ActivationStep ==
  ASSUME Authority, [Next]_vars, CAOf(state.current)' # CAOf(state.current)
  PROVE  \A n \in nodes \ late : CAOf(state.current)' \in trust[n]
<1> USE DEF authority, pass, time, fleet, bounds
<1>a. TypeOK /\ Opens /\ Where /\ Acked
  BY DEF Authority, Safe
<1>b. state.current \in Generation /\ generations[state.current] \in Content
  BY <1>a, StoredAuthority
<1>1. CASE UNCHANGED <<generations, state>>
  BY <1>1 DEF CAOf
<1>2. CASE UNCHANGED state /\ \E content \in Content : Store(content)
  <2> PICK content \in Content : Store(content)
    BY <1>2
  <2>1. generations'[state.current] = generations[state.current]
    BY <1>a, <1>b, StoreKeeps DEF Referenced, Opens
  <2> QED
    BY <1>2, <2>1 DEF CAOf
<1>3. CASE CommitRenewal
  BY <1>3, <1>a DEF CommitRenewal, Commit, Where, CAOf, TypeOK
<1>4. CASE CommitStage \/ Retire
  BY <1>4, <1>a DEF CommitStage, Retire, Commit, CAOf, TypeOK
<1>5. CASE Sweep
  BY <1>5, <1>a, <1>b DEF Sweep, SweepAllBut, CAOf, Referenced, Opens
<1>6. CASE Activate
  <2>0. /\ at \in {"activate", "reissued"} /\ state.pending # None
        /\ generations' = generations
        /\ CAOf(state.current)' = CAOf(state.pending)
    BY <1>6, <1>a DEF Activate, SwitchTo, Commit, Where, CAOf
  <2> QED
    BY <2>0, <1>a DEF Acked, Knows
<1>7. CASE \E g \in Generation : LeafComesDue(g)
  BY <1>7, <1>a, <1>b DEF LeafComesDue, CAOf, TypeOK, Content
<1>8. CASE Renew \/ Stage \/ Reissue
  <2>1. state' = state
    BY <1>8 DEF Renew, Stage, Reissue
  <2>2. \E c \in CA : Store([ca |-> c, leaf |-> "fresh"])
    <3>1. CASE Renew
      BY <3>1, <1>b DEF Renew, CAOf, Content
    <3>2. CASE Stage
      BY <3>2 DEF Stage
    <3>3. CASE Reissue
      BY <3>3, <1>a, StoredAuthority DEF Reissue, Where, CAOf, Content
    <3> QED
      BY <1>8, <3>1, <3>2, <3>3
  <2>3. \A c \in CA : [ca |-> c, leaf |-> "fresh"] \in Content
    BY DEF Content
  <2> QED
    BY <1>2, <2>1, <2>2, <2>3
<1> QED
  <2>1. CASE \E n \in Node : \/ Accept(n) \/ Refuse(n) \/ CallFails(n)
                             \/ DownloadPackage(n)
                             \/ Leave(n) \/ Join(n) \/ InstallPackage(n)
    BY <1>1, <2>1 DEF Accept, Refuse, CallFails, Called, DownloadPackage, Leave, Join, InstallPackage, Change
  <2>2. CASE \/ UNCHANGED vars \/ BeginPass \/ ListNodes \/ OfferFails \/ OfferEnds
             \/ DropEnds \/ ReconcileEnds \/ Open \/ StepFails \/ Crash \/ GraceEnds
             \/ \E c \in CA : CAAges(c)
    BY <1>1, <2>2
    DEF vars, BeginPass, ListNodes, List, OfferFails, OfferEnds, DropEnds,
        ReconcileEnds, Open, StepFails, Crash, GraceEnds, CAAges
  <2> QED
    BY <1>3, <1>4, <1>5, <1>6, <1>7, <1>8, <2>1, <2>2 DEF Next, Pass, Answer

(* The panel never presents itself under a CA that a node it had listed    *)
(* has not accepted, unless that node was given other trust since.         *)
THEOREM ActivationIsAcknowledged ==
  Spec => ActivatedIsAcknowledged
<1>1. Authority /\ [Next]_vars =>
        [CAOf(state.current)' # CAOf(state.current) =>
           \A n \in nodes \ late : CAOf(state.current)' \in trust[n]]_vars
  BY ActivationStep
<1> QED
  BY <1>1, AuthorityInductive, PTL DEF Spec, ActivatedIsAcknowledged

(* The CAs the panel can present itself under, step by step.               *)
LEMMA IdentityStep ==
  ASSUME Authority, [Next]_vars
  PROVE  \/ CAsOf({state.current, state.previous}) \subseteq
              CAsOf({state.current, state.previous})'
         \/ Retire
<1> USE DEF authority, pass, time, fleet, bounds
<1>a. TypeOK /\ Opens /\ Where
  BY DEF Authority, Safe
<1>b. state.current \in Generation /\ generations[state.current] \in Content
  BY <1>a, StoredAuthority
<1>1. CASE UNCHANGED <<generations, state>>
  BY <1>1 DEF CAsOf, CAOf
<1>2. CASE UNCHANGED state /\ \A g \in Referenced(state) : CAOf(g)' = CAOf(g)
  BY <1>2 DEF CAsOf, CAOf, Referenced
<1>3. CASE CommitRenewal
  BY <1>3, <1>a DEF CommitRenewal, Commit, Where, CAsOf, CAOf, TypeOK
<1>4. CASE CommitStage
  BY <1>4, <1>a DEF CommitStage, Commit, CAsOf, CAOf, TypeOK
<1>5. CASE Activate
  <2>1. state.previous = None /\ state'.previous = state.current /\ generations' = generations
    BY <1>5, <1>a DEF Activate, SwitchTo, Commit, Where, Opens
  <2> QED
    BY <2>1 DEF CAsOf, CAOf
<1>6. CASE Sweep
  BY <1>2, <1>6, <1>a DEF Sweep, SweepAllBut, CAOf, Referenced, TypeOK
<1>7. CASE \E g \in Generation : LeafComesDue(g)
  <2> PICK g \in Generation : LeafComesDue(g)
    BY <1>7
  <2>1. \A h \in Referenced(state) : h \in Generation /\ generations[h] \in Content
    BY <1>a, StoredAuthority DEF Referenced, Opens
  <2> QED
    BY <1>2, <2>1, <1>a DEF LeafComesDue, CAOf, TypeOK, Content
<1>8. CASE Renew \/ Stage \/ Reissue
  <2>1. state' = state
    BY <1>8 DEF Renew, Stage, Reissue
  <2>2. \E c \in CA : Store([ca |-> c, leaf |-> "fresh"])
    <3>1. CASE Renew
      BY <3>1, <1>b DEF Renew, CAOf, Content
    <3>2. CASE Stage
      BY <3>2 DEF Stage
    <3>3. CASE Reissue
      BY <3>3, <1>a, StoredAuthority DEF Reissue, Where, CAOf, Content
    <3> QED
      BY <1>8, <3>1, <3>2, <3>3
  <2>3. \A c \in CA : [ca |-> c, leaf |-> "fresh"] \in Content
    BY DEF Content
  <2>4. \A g \in Referenced(state) : generations'[g] = generations[g]
    BY <1>a, <2>2, <2>3, StoreKeeps
  <2> QED
    BY <1>2, <2>1, <2>4 DEF CAOf
<1> QED
  <2>1. CASE \E n \in Node : \/ Accept(n) \/ Refuse(n) \/ CallFails(n)
                             \/ DownloadPackage(n)
                             \/ Leave(n) \/ Join(n) \/ InstallPackage(n)
    BY <1>1, <2>1 DEF Accept, Refuse, CallFails, Called, DownloadPackage, Leave, Join, InstallPackage, Change
  <2>2. CASE \/ UNCHANGED vars \/ BeginPass \/ ListNodes \/ OfferFails \/ OfferEnds
             \/ DropEnds \/ ReconcileEnds \/ Open \/ StepFails \/ Crash \/ GraceEnds
             \/ \E c \in CA : CAAges(c)
    BY <1>1, <2>2
    DEF vars, BeginPass, ListNodes, List, OfferFails, OfferEnds, DropEnds,
        ReconcileEnds, Open, StepFails, Crash, GraceEnds, CAAges
  <2> QED
    BY <1>3, <1>4, <1>5, <1>6, <1>7, <1>8, <2>1, <2>2 DEF Next, Pass, Answer

(* What a step may do to the trust of a node that stays registered. *)
LEMMA TrustStep ==
  ASSUME Authority, [Next]_vars, NEW n \in mtls
  PROVE  trust'[n] = trust[n] \/ CAOf(state.current)' \in trust'[n] \/ n \in late'
<1> USE DEF authority, pass, time, fleet, bounds
<1>a. TypeOK /\ Opens
  BY DEF Authority, Safe
<1>1. CASE \E m \in Node : Accept(m) \/ CallFails(m)
  <2> PICK m \in Node : Accept(m) \/ CallFails(m)
    BY <1>1
  <2>1. UNCHANGED <<generations, state>> /\ CAOf(state.current) \in Bundle
    BY <1>a, CAsAreCAs DEF Accept, CallFails, Called
  <2>2. trust' = [trust EXCEPT ![m] = Bundle] \/ trust' = trust
    BY DEF Accept, CallFails, Installs, Writes
  <2> QED
    BY <2>1, <2>2, <1>a DEF CAOf, TypeOK
<1>2. CASE \E m \in Node : InstallPackage(m)
  BY <1>2, <1>a DEF InstallPackage, Writes, TypeOK
<1>3. CASE UNCHANGED trust
  BY <1>3
<1> QED
  <2>1. CASE \E m \in Node : Refuse(m) \/ DownloadPackage(m) \/ Leave(m) \/ Join(m)
    BY <1>3, <2>1 DEF Refuse, DownloadPackage, Leave, Join
  <2>2. CASE \/ UNCHANGED vars \/ BeginPass \/ Renew \/ CommitRenewal \/ Stage
             \/ CommitStage \/ Sweep \/ ListNodes \/ OfferFails \/ OfferEnds \/ DropEnds
             \/ Reissue \/ Activate \/ Retire \/ ReconcileEnds \/ Open \/ StepFails
             \/ Crash \/ GraceEnds
    BY <1>3, <2>2
    DEF vars, BeginPass, Renew, CommitRenewal, Stage, CommitStage, Sweep, SweepAllBut,
        ListNodes, List, OfferFails, OfferEnds, DropEnds, Reissue, Activate, SwitchTo,
        Retire, ReconcileEnds, Open, StepFails, Crash, GraceEnds
  <2>3. CASE \/ \E c \in CA : CAAges(c)
             \/ \E g \in Generation : LeafComesDue(g)
    BY <1>3, <2>3 DEF CAAges, LeafComesDue
  <2> QED
    BY <1>1, <1>2, <2>1, <2>2, <2>3 DEF Next, Pass, Answer

(* No node the panel could reach is lost by a step of the rotation.        *)
THEOREM NobodyIsEverStranded ==
  Spec => NobodyIsStranded
<1> DEFINE Kept == \A n \in mtls : Identified(n) => Identified(n)' \/ n \in late'
<1>1. ASSUME Authority, [Next]_vars PROVE Kept
  <2> SUFFICES ASSUME NEW n \in mtls, Identified(n), n \notin late'
               PROVE  Identified(n)'
    OBVIOUS
  <2>a. TypeOK /\ Opens /\ Where /\ Retained
    BY <1>1 DEF Authority, Safe
  <2>b. TypeOK' /\ Opens'
    BY <1>1, StepSafe DEF Authority, Safe
  <2>1. CAOf(state.current)' \in CAsOf({state.current, state.previous})'
    BY <2>b DEF CAsOf, Opens
  <2>2. CASE CAOf(state.current)' \in trust'[n]
    BY <2>1, <2>2 DEF Identified
  <2>3. CASE trust'[n] = trust[n] /\ ~Retire
    <3>1. CAsOf({state.current, state.previous}) \subseteq
            CAsOf({state.current, state.previous})'
      BY <1>1, <2>3, IdentityStep
    <3> QED
      BY <2>3, <3>1 DEF Identified
  <2>4. CASE Retire
    <3>1. at = "retire" /\ late' = late /\ trust' = trust /\ generations' = generations
          /\ state'.current = state.current
      BY <2>4, <2>a DEF Retire, Commit, authority, pass, time, fleet, bounds, TypeOK
    <3>2. CAOf(state.current) \in trust[n]
      BY <3>1, <2>a DEF Retained, Trusts
    <3> QED
      BY <3>1, <3>2, <2>2 DEF CAOf
  <2> QED
    BY <1>1, <2>2, <2>3, <2>4, TrustStep
<1>2. Authority /\ [Next]_vars => [Kept]_vars
  BY <1>1
<1> QED
  BY <1>2, AuthorityInductive, PTL DEF Spec, NobodyIsStranded
=============================================================================
