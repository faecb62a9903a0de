--------------------------- MODULE NodeAgent_proofs ---------------------------
(***************************************************************************)
(* Two components of the node agent.                                       *)
(* First UserSync: the traffic of an account, for any number of accounts,  *)
(* goroutines, groups and events.                                          *)
(* Then AgentProxies, with constants and variables of its own: what the    *)
(* supervisor's goroutines may work on, for any number of instances and    *)
(* handlers: one port per call, and only Xray's.                           *)
(***************************************************************************)
EXTENDS UserSync, FiniteSetTheorems, TLAPS

(* What the collectors hold of an account's traffic, unit by unit.         *)
Units(holds, a, s) == {u \in s \X Nat : u[2] \in 1 .. holds[u[1]][a]}

Holding == [Collector -> [Account -> Nat]]

LEMMA UnitsOfOne ==
  ASSUME NEW holds \in Holding, NEW a \in Account, NEW s \in SUBSET Collector, NEW c \in s,
         IsFiniteSet(Units(holds, a, s \ {c}))
  PROVE  /\ IsFiniteSet(Units(holds, a, s))
         /\ Cardinality(Units(holds, a, s)) =
              holds[c][a] + Cardinality(Units(holds, a, s \ {c}))
<1> DEFINE Others == Units(holds, a, s \ {c})
           Own == {c} \X (1 .. holds[c][a])
<1>1. holds[c][a] \in Nat
  BY DEF Holding
<1>2. Units(holds, a, s) = Others \cup Own /\ Others \cap Own = {}
  <2>1. ASSUME NEW u PROVE u \in Units(holds, a, s) <=> u \in Others \/ u \in Own
    BY <1>1 DEF Units
  <2>2. ASSUME NEW u PROVE ~(u \in Others /\ u \in Own)
    BY DEF Units
  <2> HIDE DEF Others, Own
  <2> QED
    BY <2>1, <2>2
<1>3. IsFiniteSet(Own) /\ Cardinality(Own) = holds[c][a]
  <2>1. IsFiniteSet({c}) /\ Cardinality({c}) = 1
    BY FS_Singleton
  <2>2. IsFiniteSet(1 .. holds[c][a]) /\ Cardinality(1 .. holds[c][a]) = holds[c][a]
    <3>1. ASSUME NEW n \in Nat PROVE IsFiniteSet(1 .. n) /\ Cardinality(1 .. n) = n
      <4>1. IsFiniteSet(1 .. n) /\ Cardinality(1 .. n) = IF 1 > n THEN 0 ELSE n - 1 + 1
        BY FS_Interval
      <4> QED
        BY <4>1
    <3> QED
      BY <1>1, <3>1
  <2>3. IsFiniteSet(Own) /\ Cardinality(Own) = Cardinality({c}) * Cardinality(1 .. holds[c][a])
    BY <2>1, <2>2, FS_Product
  <2> QED
    BY <1>1, <2>1, <2>2, <2>3
<1>4. IsFiniteSet(Others) /\ Cardinality(Others) \in Nat
  BY FS_CardinalityType
<1> HIDE DEF Others, Own
<1>5. /\ IsFiniteSet(Others \cup Own)
      /\ Cardinality(Others \cup Own) =
           Cardinality(Others) + Cardinality(Own) - Cardinality(Others \cap Own)
  BY <1>3, <1>4, FS_Union
<1>6. Cardinality(Others \cap Own) = 0
  BY <1>2, FS_EmptySet
<1> QED
  BY <1>1, <1>2, <1>3, <1>4, <1>5, <1>6 DEF Others

(* A set of sets of collectors has a smallest member: induction without a  *)
(* predicate as its parameter.                                             *)
LEMMA SmallestSet ==
  ASSUME IsFiniteSet(Collector), NEW T \in SUBSET SUBSET Collector, T # {}
  PROVE  \E s \in T : \A t \in T : ~(t \subseteq s /\ t # s)
<1>1. IsWellFoundedOn(StrictSubsetOrdering(Collector), SUBSET Collector)
  BY FS_StrictSubsetOrderingWellFounded, FS_FiniteSubsetsOfFinite
<1>2. \E s \in T : \A t \in T : ~(<<t, s>> \in StrictSubsetOrdering(Collector))
  BY <1>1, WFMin
<1> QED
  BY <1>2 DEF StrictSubsetOrdering

LEMMA UnitsAreFinite ==
  ASSUME IsFiniteSet(Collector), NEW holds \in Holding, NEW a \in Account,
         NEW s \in SUBSET Collector
  PROVE  IsFiniteSet(Units(holds, a, s))
<1> DEFINE Infinite == {t \in SUBSET Collector : ~IsFiniteSet(Units(holds, a, t))}
<1> SUFFICES ASSUME Infinite # {} PROVE FALSE
  OBVIOUS
<1>1. PICK t \in Infinite : \A r \in Infinite : ~(r \subseteq t /\ r # t)
  <2>1. Infinite \in SUBSET SUBSET Collector
    OBVIOUS
  <2> HIDE DEF Infinite
  <2> QED
    BY <2>1, SmallestSet
<1>2. CASE t = {}
  <2>1. Units(holds, a, t) = {}
    BY <1>2 DEF Units
  <2> QED
    BY <2>1, <1>1, FS_EmptySet
<1>3. ASSUME NEW c \in t PROVE FALSE
  <2>1. IsFiniteSet(Units(holds, a, t \ {c}))
    BY <1>1, <1>3
  <2> QED
    BY <1>1, <1>3, <2>1, UnitsOfOne
<1> QED
  BY <1>2, <1>3

(* The sum that MapThenSumSet takes, one collector after another.          *)
One(s) == CHOOSE c \in s : TRUE

Sums(holds, a, sum) ==
  sum = [s \in SUBSET Collector |->
           IF s = {} THEN 0 ELSE holds[One(s)][a] + sum[s \ {One(s)}]]

Summed(holds, a) ==
  CHOOSE sum : sum = [s \in SUBSET Collector |->
                        IF s = {} THEN 0
                        ELSE holds[CHOOSE c \in s : TRUE][a] + sum[s \ {CHOOSE c \in s : TRUE}]]

LEMMA HeldIsSummed ==
  ASSUME NEW a
  PROVE  /\ Held(a) = Summed(pending, a)[Collector]
         /\ Held(a)' = Summed(pending', a)[Collector]
  BY DEF Held, Summed, MapThenSumSet, MapThenFoldSet

(* Taken in any order, the sum counts the units.                           *)
LEMMA SummedIsCount ==
  ASSUME IsFiniteSet(Collector), NEW holds \in Holding, NEW a \in Account
  PROVE  Summed(holds, a)[Collector] = Cardinality(Units(holds, a, Collector))
<1> DEFINE count == [s \in SUBSET Collector |-> Cardinality(Units(holds, a, s))]
           sum == Summed(holds, a)
<1>1. ASSUME NEW s \in SUBSET Collector, s # {}
      PROVE  /\ One(s) \in s
             /\ Cardinality(Units(holds, a, s)) =
                  holds[One(s)][a] + Cardinality(Units(holds, a, s \ {One(s)}))
  <2>1. One(s) \in s
    BY <1>1 DEF One
  <2> QED
    BY <1>1, <2>1, UnitsAreFinite, UnitsOfOne
<1>2. Cardinality(Units(holds, a, {})) = 0
  <2>1. Units(holds, a, {}) = {}
    BY DEF Units
  <2> QED
    BY <2>1, FS_EmptySet
<1>3. Sums(holds, a, count)
  <2>1. ASSUME NEW s \in SUBSET Collector
        PROVE  count[s] = IF s = {} THEN 0 ELSE holds[One(s)][a] + count[s \ {One(s)}]
    BY <1>1, <1>2
  <2> QED
    BY <2>1 DEF Sums
<1>4. Sums(holds, a, sum)
  <2> HIDE DEF count
  <2> QED
    BY <1>3 DEF Sums, Summed, One
<1> DEFINE Wrong == {s \in SUBSET Collector : sum[s] # Cardinality(Units(holds, a, s))}
<1>5. Wrong = {}
  <2> SUFFICES ASSUME Wrong # {} PROVE FALSE
    OBVIOUS
  <2>1. Wrong \in SUBSET SUBSET Collector
    OBVIOUS
  <2>2. PICK s \in Wrong : \A t \in Wrong : ~(t \subseteq s /\ t # s)
    <3> HIDE DEF Wrong
    <3> QED
      BY <2>1, SmallestSet
  <2>3. sum[s] = IF s = {} THEN 0 ELSE holds[One(s)][a] + sum[s \ {One(s)}]
    <3> HIDE DEF sum
    <3> QED
      BY <1>4, <2>2 DEF Sums
  <2> HIDE DEF sum
  <2>4. CASE s = {}
    BY <1>2, <2>2, <2>3, <2>4
  <2>5. CASE s # {}
    <3>1. One(s) \in s /\ s \ {One(s)} \in SUBSET Collector
      BY <1>1, <2>2, <2>5
    <3>2. s \ {One(s)} \notin Wrong
      BY <2>2, <3>1
    <3> QED
      BY <1>1, <2>2, <2>3, <2>5, <3>1, <3>2
  <2> QED
    BY <2>4, <2>5
<1> QED
  BY <1>5

(* What one collector takes over or gives up changes the sum by as much.   *)
LEMMA OneCollectorChanges ==
  ASSUME IsFiniteSet(Collector), NEW holds \in Holding, NEW later \in Holding,
         NEW a \in Account, NEW c \in Collector,
         \A d \in Collector \ {c} : later[d][a] = holds[d][a]
  PROVE  /\ Summed(holds, a)[Collector] \in Nat /\ Summed(later, a)[Collector] \in Nat
         /\ Summed(later, a)[Collector] =
              Summed(holds, a)[Collector] + later[c][a] - holds[c][a]
<1> DEFINE Rest(h) == Units(h, a, Collector \ {c})
<1>1. Rest(later) = Rest(holds)
  BY DEF Units
<1>2. IsFiniteSet(Rest(holds)) /\ IsFiniteSet(Rest(later)) /\ Cardinality(Rest(holds)) \in Nat
  BY UnitsAreFinite, FS_CardinalityType
<1>3. ASSUME NEW h \in Holding, IsFiniteSet(Rest(h))
      PROVE  Summed(h, a)[Collector] = h[c][a] + Cardinality(Rest(h)) /\ h[c][a] \in Nat
  BY <1>3, SummedIsCount, UnitsOfOne DEF Holding
<1> HIDE DEF Rest
<1> QED
  BY <1>1, <1>2, <1>3

LEMMA NothingIsHeld ==
  ASSUME IsFiniteSet(Collector), NEW holds \in Holding, NEW a \in Account,
         \A c \in Collector : holds[c][a] = 0
  PROVE  Summed(holds, a)[Collector] = 0
<1>1. Units(holds, a, Collector) = {}
  BY DEF Units
<1> QED
  BY <1>1, SummedIsCount, FS_EmptySet

LEMMA SameIsHeld ==
  ASSUME IsFiniteSet(Collector), NEW holds \in Holding, NEW a \in Account
  PROVE  Summed(holds, a)[Collector] \in Nat
  BY SummedIsCount, UnitsAreFinite, FS_CardinalityType

(* The accounts' books: natural numbers, and nothing charged twice.        *)
Books ==
  /\ usage \in [Account -> Nat] /\ total \in [Account -> Nat]
  /\ meter \in [Account -> Nat] /\ spent \in [Account -> Nat]
  /\ pending \in Holding

Balanced ==
  \A a \in Account : Recorded(a) + meter[a] + Summed(pending, a)[Collector] <= spent[a]

Ledger == Books /\ Balanced

LEMMA LedgerIsCharge == ASSUME Ledger PROVE ChargedOnce
  BY HeldIsSummed DEF Ledger, Balanced, ChargedOnce

LEMMA InitLedger ==
  ASSUME IsFiniteSet(Collector), Init
  PROVE  Ledger
<1>1. Books
  BY DEF Init, Books, Holding, Nothing
<1>2. ASSUME NEW a \in Account PROVE Summed(pending, a)[Collector] = 0
  <2>1. \A c \in Collector : pending[c][a] = 0
    BY DEF Init, Nothing
  <2> QED
    BY <1>1, <2>1, NothingIsHeld DEF Books
<1> QED
  BY <1>1, <1>2 DEF Ledger, Balanced, Init, Nothing, Recorded

entries == <<usage, total, meter, spent>>

(* Requests of the panel, and traffic, change an account's own numbers.    *)
LEMMA EntryKeepsLedger ==
  ASSUME IsFiniteSet(Collector), Ledger, NEW a \in Account, UNCHANGED pending,
         \/ CreateAccount(a) \/ DisableAccount(a) \/ ResetTraffic(a)
         \/ Uses(a)
  PROVE  Ledger'
<1>1. /\ usage[a] \in Nat /\ total[a] \in Nat /\ meter[a] \in Nat /\ spent[a] \in Nat
      /\ Summed(pending, a)[Collector] \in Nat
  BY SameIsHeld DEF Ledger, Books
<1>2. Books'
  BY <1>1 DEF Ledger, Books, CreateAccount, DisableAccount, ResetTraffic, Uses,
     database, instance, counters
<1>3. \A b \in Account \ {a} : /\ usage'[b] = usage[b] /\ total'[b] = total[b]
                               /\ meter'[b] = meter[b] /\ spent'[b] = spent[b]
  BY DEF Ledger, Books, CreateAccount, DisableAccount, ResetTraffic, Uses,
     database, instance, counters
<1>4. (Recorded(a) + meter[a] + Summed(pending, a)[Collector] <= spent[a])'
  <2>1. Recorded(a) + meter[a] + Summed(pending, a)[Collector] <= spent[a]
    BY DEF Ledger, Balanced
  <2>2. /\ total'[a] = total[a]
        /\ \/ usage'[a] \in {0, 1} /\ spent'[a] = spent[a] + usage'[a] /\ meter'[a] = meter[a]
           \/ usage'[a] = 0 /\ spent'[a] = spent[a] /\ meter'[a] = meter[a]
           \/ /\ usage'[a] = usage[a] /\ spent'[a] = spent[a] + 1
              /\ meter'[a] = meter[a] + 1
    BY DEF Ledger, Books, CreateAccount, DisableAccount, ResetTraffic, Uses,
       database, instance, counters
  <2> QED
    BY <1>1, <2>1, <2>2 DEF Recorded
<1> QED
  BY <1>2, <1>3, <1>4 DEF Ledger, Balanced, Recorded

(* An instance or an agent that stops forgets what it has counted or held. *)
LEMMA ForgettingKeepsLedger ==
  ASSUME IsFiniteSet(Collector), Ledger,
         UNCHANGED <<usage, total, spent>>, meter' = Nothing,
         pending' \in {pending, [c \in Collector |-> Nothing]}
  PROVE  Ledger'
<1>1. Books'
  BY DEF Ledger, Books, Holding, Nothing
<1>2. ASSUME NEW a \in Account
      PROVE  (Recorded(a) + meter[a] + Summed(pending, a)[Collector] <= spent[a])'
  <2>1. /\ usage[a] \in Nat /\ total[a] \in Nat /\ meter[a] \in Nat /\ spent[a] \in Nat
        /\ meter'[a] = 0 /\ Summed(pending, a)[Collector] \in Nat
    BY SameIsHeld DEF Ledger, Books, Nothing
  <2>2. Summed(pending', a)[Collector] \in {Summed(pending, a)[Collector], 0}
    <3>1. CASE \A c \in Collector : pending'[c][a] = 0
      BY <1>1, <3>1, NothingIsHeld DEF Books
    <3>2. CASE pending' = pending
      BY <3>2
    <3> QED
      BY <3>1, <3>2 DEF Nothing
  <2>3. Recorded(a) + meter[a] + Summed(pending, a)[Collector] <= spent[a]
    BY DEF Ledger, Balanced
  <2> QED
    BY <2>1, <2>2, <2>3 DEF Recorded
<1> QED
  BY <1>1, <1>2 DEF Ledger, Balanced

(* A collector takes from the meter, and hands on, loses or gives up.      *)
LEMMA CollectorKeepsLedger ==
  ASSUME IsFiniteSet(Collector), Ledger, NEW c \in Collector,
         Collect(c) \/ Charge(c) \/ LockFails(c)
  PROVE  Ledger'
<1>1. /\ Books' /\ spent' = spent
      /\ \A d \in Collector \ {c} : pending'[d] = pending[d]
  <2>1. CASE Collect(c)
    <3>1. /\ meter' = Nothing /\ UNCHANGED <<usage, total, spent>>
          /\ \/ \E kept \in Kept :
                  pending' = [pending EXCEPT ![c] =
                                [a \in Account |-> IF a \in kept THEN meter[a] ELSE 0]]
             \/ UNCHANGED pending
      BY <2>1 DEF Collect, database, counters
    <3>2. ASSUME NEW kept
          PROVE  [a \in Account |-> IF a \in kept THEN meter[a] ELSE 0] \in [Account -> Nat]
      BY DEF Ledger, Books
    <3>3. PICK new \in [Account -> Nat] :
            pending' = [pending EXCEPT ![c] = new] \/ pending' = pending
      <4>1. CASE UNCHANGED pending
        BY <4>1, <3>2
      <4> QED
        BY <3>1, <3>2, <4>1
    <3>4. pending \in [Collector -> [Account -> Nat]]
      BY DEF Ledger, Books, Holding
    <3>5. /\ pending' \in [Collector -> [Account -> Nat]]
          /\ \A d \in Collector \ {c} : pending'[d] = pending[d]
      BY <3>3, <3>4
    <3>6. meter' \in [Account -> Nat]
      BY <3>1 DEF Nothing
    <3> QED
      BY <3>1, <3>5, <3>6 DEF Ledger, Books, Holding
  <2>2. CASE Charge(c)
    <3>1. PICK a \in Account :
            /\ pending' = [pending EXCEPT ![c][a] = 0]
            /\ \/ /\ usage' = [usage EXCEPT ![a] = @ + pending[c][a]]
                  /\ total' = [total EXCEPT ![a] =
                       pending[c][a] + IF @ < usage[a] THEN usage[a] ELSE @]
               \/ UNCHANGED <<usage, total>>
      BY <2>2 DEF Charge
    <3>2. pending[c][a] \in Nat /\ usage[a] \in Nat /\ total[a] \in Nat
      BY DEF Ledger, Books, Holding
    <3>3. meter' = meter /\ spent' = spent
      BY <2>2 DEF Charge, instance, counters
    <3>4. /\ pending \in [Collector -> [Account -> Nat]]
          /\ usage \in [Account -> Nat] /\ total \in [Account -> Nat]
      BY DEF Ledger, Books, Holding
    <3>5. /\ pending' \in [Collector -> [Account -> Nat]]
          /\ \A d \in Collector \ {c} : pending'[d] = pending[d]
      <4>1. [pending[c] EXCEPT ![a] = 0] \in [Account -> Nat]
        BY <3>4
      <4>2. pending' = [pending EXCEPT ![c] = [pending[c] EXCEPT ![a] = 0]]
        BY <3>1, <3>4
      <4> QED
        BY <4>1, <4>2, <3>4
    <3>6. usage' \in [Account -> Nat]
      <4>1. usage[a] + pending[c][a] \in Nat
        BY <3>2
      <4> QED
        BY <4>1, <3>1, <3>4
    <3>7. total' \in [Account -> Nat]
      <4>1. (pending[c][a] + IF total[a] < usage[a] THEN usage[a] ELSE total[a]) \in Nat
        BY <3>2
      <4> QED
        BY <4>1, <3>1, <3>4
    <3> QED
      BY <3>3, <3>5, <3>6, <3>7 DEF Ledger, Books, Holding
  <2>3. CASE LockFails(c)
    BY <2>3 DEF LockFails, database, instance, counters, Nothing,
       Ledger, Books, Holding
  <2> QED
    BY <2>1, <2>2, <2>3
<1>2. ASSUME NEW a \in Account
      PROVE  (Recorded(a) + meter[a] + Summed(pending, a)[Collector] <= spent[a])'
  <2>1. /\ usage[a] \in Nat /\ total[a] \in Nat /\ meter[a] \in Nat /\ spent[a] \in Nat
        /\ pending[c][a] \in Nat /\ pending'[c][a] \in Nat /\ usage'[a] \in Nat
        /\ total'[a] \in Nat /\ meter'[a] \in Nat
    BY <1>1 DEF Ledger, Books, Holding
  <2>2. /\ Summed(pending, a)[Collector] \in Nat
        /\ Summed(pending', a)[Collector] =
             Summed(pending, a)[Collector] + pending'[c][a] - pending[c][a]
    BY <1>1, OneCollectorChanges DEF Ledger, Books
  <2>3. Recorded(a) + meter[a] + Summed(pending, a)[Collector] <= spent[a]
    BY DEF Ledger, Balanced
  <2>4. CASE Collect(c)
    <3>1. meter'[a] = 0 /\ usage' = usage /\ total' = total
      BY <2>4 DEF Collect, database, Nothing
    <3>2. pending'[c][a] \in {meter[a], 0, pending[c][a]}
      BY <2>4 DEF Collect, Ledger, Books, Holding
    <3>3. pending[c][a] = 0
      BY <2>4 DEF Collect, Nothing
    <3> QED
      BY <1>1, <2>1, <2>2, <2>3, <3>1, <3>2, <3>3 DEF Recorded
  <2>5. CASE Charge(c)
    <3>1. meter' = meter
      BY <2>5 DEF Charge, instance
    <3>2. \/ /\ usage'[a] = usage[a] + pending[c][a] /\ pending'[c][a] = 0
             /\ total'[a] = pending[c][a] + IF total[a] < usage[a] THEN usage[a] ELSE total[a]
          \/ /\ pending'[c][a] \in {pending[c][a], 0}
             /\ usage'[a] = usage[a] /\ total'[a] = total[a]
      BY <2>5 DEF Charge, Ledger, Books, Holding
    <3> QED
      BY <1>1, <2>1, <2>2, <2>3, <3>1, <3>2 DEF Recorded
  <2>6. CASE LockFails(c)
    <3>1. meter' = meter /\ usage' = usage /\ total' = total
      BY <2>6 DEF LockFails, instance, database
    <3>2. pending'[c][a] = 0
      BY <2>6 DEF LockFails, Nothing, Ledger, Books, Holding
    <3> QED
      BY <1>1, <2>1, <2>2, <2>3, <3>1, <3>2 DEF Recorded
  <2> QED
    BY <2>4, <2>5, <2>6
<1> QED
  BY <1>1, <1>2 DEF Ledger, Balanced

LEMMA NextKeepsLedger ==
  ASSUME IsFiniteSet(Collector), Ledger, [Next]_(vars)
  PROVE  Ledger'
<1>1. CASE UNCHANGED <<entries, pending>>
  BY <1>1 DEF entries, Ledger, Books, Balanced, Recorded
<1>2. CASE CronHandlerUser \/ (\E g \in Goroutine : Goes(g)) \/ RestartsExited
  <2>1. UNCHANGED <<entries, pending>>
    BY <1>2 DEF CronHandlerUser, Goes, ListUsers, DeleteLooksUp,
       DeleteAtIndex, RemoveXrayUser, AddLooksUp, PostUser,
       AddXrayUser, RestartsExited, database, instance, counters, entries
  <2> QED
    BY <1>1, <2>1
<1>3. ASSUME NEW a \in Account,
             \/ DeleteAccount(a) \/ DeleteRow(a) \/ GiveQuota(a)
             \/ CreateAccount(a) \/ DisableAccount(a) \/ ResetTraffic(a)
             \/ Uses(a)
      PROVE  Ledger'
  <2>1. CASE DeleteAccount(a) \/ DeleteRow(a) \/ GiveQuota(a)
    BY <1>1, <2>1 DEF DeleteAccount, DeleteRow, GiveQuota, database,
       instance, counters, entries
  <2>2. CASE \/ CreateAccount(a) \/ DisableAccount(a) \/ ResetTraffic(a)
             \/ Uses(a)
    <3>1. UNCHANGED pending
      BY <2>2 DEF CreateAccount, DisableAccount, ResetTraffic, Uses
    <3> QED
      BY <2>2, <3>1, EntryKeepsLedger
  <2> QED
    BY <1>3, <2>1, <2>2
<1>4. CASE InstanceExits \/ NewCertificate \/ AgentRestarts
  <2>1. /\ UNCHANGED <<usage, total, spent>> /\ meter' = Nothing
        /\ pending' \in {pending, [c \in Collector |-> Nothing]}
    BY <1>4 DEF InstanceExits, NewCertificate, AgentRestarts, database,
       counters
  <2> QED
    BY <2>1, ForgettingKeepsLedger
<1>5. ASSUME NEW c \in Collector, Collect(c) \/ Charge(c) \/ LockFails(c)
      PROVE  Ledger'
  BY <1>5, CollectorKeepsLedger
<1>6. CASE UNCHANGED vars
  BY <1>1, <1>6 DEF vars, database, instance, counters, entries
<1> QED
  BY <1>2, <1>3, <1>4, <1>5, <1>6 DEF Next

(* No unit of traffic is charged twice, whichever collector fails, agent   *)
(* or instance restarts and account is reset in between.                   *)
THEOREM TrafficIsChargedOnce ==
  ASSUME IsFiniteSet(Collector)
  PROVE  Spec => []ChargedOnce
<1>1. Init => Ledger
  BY InitLedger
<1>2. Ledger /\ [Next]_(vars) => Ledger'
  BY NextKeepsLedger
<1>3. Ledger => ChargedOnce
  BY LedgerIsCharge
<1> QED
  BY <1>1, <1>2, <1>3, PTL DEF Spec

-----------------------------------------------------------------------------
(* The processes of the instances.  The two modules share no variable:     *)
(* what they both name gets a name of its own here.                        *)
CONSTANTS XrayPort, NaivePort, Handler, Configured, MaxFlips
VARIABLES config, torn, nodes, alive, orphans, excused, locked, thread, reached, blocked, up,
          incidents, flips

P == INSTANCE AgentProxies WITH Xray <- XrayPort, Naive <- NaivePort, row <- nodes,
                                running <- alive, events <- incidents

Record == [pc : P!Step, at : {"out", "inside", "refused"}, port : SUBSET P!Port,
           seen : BOOLEAN, todo : SUBSET XrayPort, rest : SUBSET XrayPort, round : {1, 2}]

(* What a goroutine's record looks like, whichever one it is.              *)
WellFormed(r) ==
  /\ r \in Record
  /\ \A p, q \in r.port : p = q
  /\ r.pc \notin {"write", "insert", "delete"} => r.port \subseteq XrayPort
  /\ r.at = "inside" => r.port # {}

LEMMA Goroutines == P!TypeOK => \A t \in P!Thread : WellFormed(thread[t])
  BY DEF P!TypeOK, WellFormed, Record, P!Starting, P!Stopping

LEMMA IdleIsWellFormed == WellFormed(P!Idle)
  BY DEF WellFormed, P!Idle, Record, P!Step

(* A step that gives one goroutine a well-formed record keeps thread's     *)
(* part of the type invariant.                                             *)
Threads ==
  /\ thread \in [P!Thread -> Record]
  /\ \A t \in P!Thread : WellFormed(thread[t])

Limits == incidents \in Nat /\ flips \in Nat

Variables ==
  /\ config \subseteq P!Port /\ torn \subseteq config \cap XrayPort /\ nodes \subseteq P!Port
  /\ alive \subseteq P!Port /\ orphans \subseteq XrayPort /\ excused \subseteq P!Port
  /\ locked \in BOOLEAN /\ reached \in BOOLEAN /\ blocked \in BOOLEAN /\ up \in BOOLEAN
  /\ Limits


LEMMA TypeParts == P!TypeOK <=> Variables /\ Threads
  BY DEF P!TypeOK, Variables, Limits, Threads, WellFormed, Record, P!Starting, P!Stopping

LEMMA EventsCount == Limits /\ (P!Event \/ P!QuotaFlips \/ UNCHANGED P!bounds) => Limits'
  BY DEF Limits, P!Event, P!QuotaFlips, P!bounds

LEMMA BecomesKeeps ==
  ASSUME Threads, NEW t \in P!Thread, NEW r, WellFormed(r), P!Becomes(t, r)
  PROVE  Threads'
<1>1. r \in Record
  BY DEF WellFormed
<1>2. thread' \in [P!Thread -> Record]
  BY <1>1 DEF P!Becomes, Threads
<1>3. ASSUME NEW u \in P!Thread PROVE WellFormed(thread'[u])
  <2>1. thread'[u] = IF u = t THEN r ELSE thread[u]
    BY DEF P!Becomes, Threads
  <2> QED
    BY <2>1 DEF Threads
<1>4. \A u \in P!Thread : WellFormed(thread[u])'
  BY <1>3 DEF WellFormed, Record, P!Step
<1> QED
  BY <1>2, <1>4 DEF Threads, Record

LEMMA DiesKeeps == ASSUME P!TypeOK, P!Dies, UNCHANGED P!bounds PROVE P!TypeOK'
<1>1. Variables'
  BY DEF P!TypeOK, Variables, Limits, P!Dies, P!disk, P!bounds
<1>2. Threads'
  BY IdleIsWellFormed DEF P!Dies, Threads, WellFormed
<1> QED
  BY <1>1, <1>2, TypeParts, PTL

-----------------------------------------------------------------------------
(* Where a goroutine goes after its call is a well-formed record again.    *)
LEMMA OutcomesAreWellFormed ==
  ASSUME P!TypeOK, NEW t \in P!Thread
  PROVE  /\ WellFormed(P!Fails(t))
         /\ P!Starting(t) \/ P!Stopping(t) => WellFormed(P!Succeeds(t))
         /\ P!Abandoned(t) \subseteq P!Port
<1> DEFINE r == thread[t]
<1>1. WellFormed(r)
  BY Goroutines
<1>2. WellFormed([r EXCEPT !.at = "out", !.seen = FALSE, !.todo = r.todo \ r.port, !.port = {}])
  BY <1>1 DEF WellFormed, Record, P!Step
<1>3. WellFormed(P!InLoop(t))
  BY <1>2 DEF P!InLoop, P!Returned, P!Left, WellFormed, Record
<1>4. WellFormed([P!InLoop(t) EXCEPT !.todo = {}])
  BY <1>3 DEF WellFormed, Record
<1>5. WellFormed(P!Idle)
  BY IdleIsWellFormed
<1>6. WellFormed([P!Idle EXCEPT !.pc = "kernel list", !.round = 2])
  BY <1>5 DEF WellFormed, Record, P!Step, P!Idle
<1>7. WellFormed(P!Fails(t))
  BY <1>3, <1>4, <1>5, <1>6 DEF P!Fails
<1>8. ASSUME P!Starting(t) \/ P!Stopping(t) PROVE WellFormed(P!Succeeds(t))
  <2>1. /\ WellFormed([P!Returned(t) EXCEPT !.pc = "insert"])
        /\ WellFormed([P!Returned(t) EXCEPT !.pc = "delete"])
    BY <1>1 DEF P!Returned, WellFormed, Record, P!Step
  <2>2. WellFormed([P!InLoop(t) EXCEPT !.pc = "kernel start", !.todo = r.rest])
    BY <1>1, <1>3 DEF P!InLoop, P!Returned, WellFormed, Record, P!Step
  <2> QED
    BY <1>3, <1>5, <2>1, <2>2 DEF P!Succeeds
<1>9. P!Abandoned(t) \subseteq P!Port
  BY <1>1 DEF P!Abandoned, WellFormed, Record, P!Port
<1> QED
  BY <1>7, <1>8, <1>9

LEMMA SupervisorKeeps ==
  ASSUME P!TypeOK, NEW t \in P!Thread, P!Supervisor(t)
  PROVE  P!TypeOK'
<1> DEFINE r == thread[t]
<1>1. Threads /\ WellFormed(r)
  BY TypeParts, Goroutines
<1>2. CASE P!TryLock(t)
  <2>1. Variables'
    BY <1>2 DEF P!TypeOK, Variables, Limits, P!TryLock, P!disk, P!quota, P!bounds
  <2> DEFINE refused == [r EXCEPT !.at = "refused"]
             inside(p, b) == [r EXCEPT !.at = "inside", !.port = {p}, !.seen = b]
  <2>2. PICK p \in P!Targets(t), b \in BOOLEAN :
          P!Becomes(t, refused) \/ P!Becomes(t, inside(p, b))
    <3>1. PICK p \in P!Targets(t) :
            P!Becomes(t, refused) \/ P!Becomes(t, inside(p, p \in alive))
      BY <1>2 DEF P!TryLock
    <3>2. (p \in alive) \in BOOLEAN
      OBVIOUS
    <3> QED
      BY <3>1, <3>2, Zenon
  <2>3. p \in XrayPort
    BY <1>1, <1>2, <2>2 DEF P!TryLock, P!Targets, WellFormed, Record, P!Starting, P!Stopping
  <2>4. WellFormed(refused)
    BY <1>1 DEF WellFormed, Record
  <2>5. WellFormed(inside(p, b))
    BY <1>1, <2>3 DEF WellFormed, Record, P!Port
  <2> HIDE DEF refused, inside
  <2>6. Threads'
    BY <1>1, <2>2, <2>4, <2>5, BecomesKeeps
  <2> QED
    BY <2>1, <2>6, TypeParts, PTL
<1>3. CASE P!MigrationFails(t)
  <2>1. Variables'
    BY <1>3, OutcomesAreWellFormed
    DEF P!TypeOK, Variables, Limits, P!MigrationFails, P!disk, P!quota, P!bounds
  <2>2. Threads'
    BY <1>1, <1>3, OutcomesAreWellFormed, BecomesKeeps DEF P!MigrationFails
  <2> QED
    BY <2>1, <2>2, TypeParts, PTL
<1>4. CASE P!Unlock(t) \/ P!Start(t) \/ P!Stop(t)
  <2>1. CASE P!Dies
    BY <1>4, <2>1, DiesKeeps DEF P!Unlock, P!Start, P!Stop
  <2>2. CASE ~P!Dies
    <3>1. Variables'
      <4>1. CASE P!Unlock(t)
        BY <2>2, <4>1, OutcomesAreWellFormed
        DEF P!TypeOK, Variables, Limits, P!Unlock, P!disk, P!quota, P!bounds
      <4>2. CASE P!Start(t)
        <5>1. r.port \subseteq XrayPort
          BY <1>1, <4>2 DEF P!Start, P!Starting, WellFormed
        <5>2. \E started \in SUBSET XrayPort, abandoned \in SUBSET P!Port :
                P!StartInside(started, abandoned)
          BY <2>2, <4>2, <5>1, OutcomesAreWellFormed DEF P!Start, P!Port
        <5> QED
          BY <4>2, <5>2
          DEF P!TypeOK, Variables, Limits, P!Start, P!StartInside, P!disk, P!quota, P!bounds,
              P!Port
      <4>3. CASE P!Stop(t)
        BY <2>2, <4>3, OutcomesAreWellFormed
        DEF P!TypeOK, Variables, Limits, P!Stop, P!StopInside, P!RemoveFile, P!disk,
            P!quota, P!bounds
      <4> QED
        BY <1>4, <4>1, <4>2, <4>3
    <3>2. \/ P!Becomes(t, P!Fails(t))
          \/ (P!Starting(t) \/ P!Stopping(t)) /\ P!Becomes(t, P!Succeeds(t))
      BY <1>4, <2>2 DEF P!Unlock, P!Start, P!Stop
    <3>3. Threads'
      BY <1>1, <3>2, OutcomesAreWellFormed, BecomesKeeps
    <3> QED
      BY <3>1, <3>3, TypeParts, PTL
  <2> QED
    BY <2>1, <2>2
<1> QED
  BY <1>2, <1>3, <1>4 DEF P!Supervisor

(* The calls of the panel, served by one goroutine each.                   *)
LEMMA CallsKeep ==
  ASSUME P!TypeOK, NEW h \in Handler, P!AddNode(h) \/ P!RemoveNode(h) \/ P!Serve(h)
  PROVE  P!TypeOK'
<1> DEFINE r == thread[h]
<1>1. h \in P!Thread /\ Variables /\ Threads /\ WellFormed(r)
  BY TypeParts, Goroutines DEF P!Thread
<1>2. Variables'
  <2> USE <1>1, EventsCount DEF Variables, P!disk, P!processes, P!quota, P!Called
  <2>1. r.port \subseteq P!Port
    BY <1>1 DEF WellFormed, Record
  <2>2. CASE P!AddNode(h)
    BY <2>2 DEF P!AddNode
  <2>3. CASE P!RemoveNode(h)
    BY <2>3 DEF P!RemoveNode, P!RemoveFile
  <2>4. CASE P!CreateConfig(h) \/ P!WriteConfig(h) \/ P!AddNaive(h)
    BY <2>1, <2>4 DEF P!CreateConfig, P!WriteConfig, P!AddNaive
  <2>5. CASE P!InsertNodeConfig(h) \/ P!DeleteNodeConfig(h)
    BY <2>1, <2>5 DEF P!InsertNodeConfig, P!DeleteNodeConfig
  <2> QED
    BY <2>2, <2>3, <2>4, <2>5 DEF P!Serve
<1>3. PICK s : WellFormed(s) /\ P!Becomes(h, s)
  <2>1. CASE P!AddNode(h)
    <3>1. PICK p \in P!Port : P!Becomes(h, [P!Idle EXCEPT !.pc = "write", !.port = {p}])
      BY <2>1 DEF P!AddNode
    <3>2. WellFormed([P!Idle EXCEPT !.pc = "write", !.port = {p}])
      BY IdleIsWellFormed DEF P!Idle, WellFormed, Record, P!Step
    <3> QED
      BY <3>1, <3>2
  <2>2. CASE P!RemoveNode(h)
    <3>1. PICK p \in P!Port :
            \/ p \in XrayPort /\ P!Becomes(h, [P!Idle EXCEPT !.pc = "remove stop", !.port = {p}])
            \/ P!Becomes(h, [P!Idle EXCEPT !.pc = "delete", !.port = {p}])
      BY <2>2 DEF P!RemoveNode
    <3>2. p \in XrayPort => WellFormed([P!Idle EXCEPT !.pc = "remove stop", !.port = {p}])
      BY IdleIsWellFormed DEF P!Idle, WellFormed, Record, P!Step
    <3>3. WellFormed([P!Idle EXCEPT !.pc = "delete", !.port = {p}])
      BY IdleIsWellFormed DEF P!Idle, WellFormed, Record, P!Step
    <3> QED
      BY <3>1, <3>2, <3>3
  <2>3. CASE P!CreateConfig(h) \/ P!WriteConfig(h) \/ P!AddNaive(h)
    <3>1. WellFormed([r EXCEPT !.pc = "insert"])
      BY <1>1 DEF WellFormed, Record, P!Step
    <3>2. r.port \subseteq XrayPort => /\ WellFormed([r EXCEPT !.pc = "fill"])
                                  /\ WellFormed([r EXCEPT !.pc = "add start"])
      BY <1>1 DEF WellFormed, Record, P!Step
    <3>3. r.pc = "fill" => r.port \subseteq XrayPort
      BY <1>1 DEF WellFormed
    <3> QED
      BY <2>3, <3>1, <3>2, <3>3, IdleIsWellFormed
      DEF P!CreateConfig, P!WriteConfig, P!AddNaive, P!Goes, P!Ends
  <2>4. CASE P!InsertNodeConfig(h) \/ P!DeleteNodeConfig(h)
    BY <2>4, IdleIsWellFormed DEF P!InsertNodeConfig, P!DeleteNodeConfig, P!Ends
  <2> QED
    BY <2>1, <2>2, <2>3, <2>4 DEF P!Serve
<1>4. Threads'
  BY <1>1, <1>3, BecomesKeeps
<1> QED
  BY <1>2, <1>4, TypeParts, PTL

(* The agent's start, the quota and a kernel's replacement.                *)
Loop ==
  \/ P!BootCheck \/ P!BootNaive \/ P!Reconcile \/ P!QuotaStopped \/ P!QuotaRestored
  \/ P!KernelSwitch \/ P!KernelList \/ P!ContainerRestarts

LEMMA LoopsKeep == ASSUME P!TypeOK, Loop PROVE P!TypeOK'
<1>1. {"boot", "quota", "kernel"} \subseteq P!Thread /\ Variables /\ Threads
  BY TypeParts DEF P!Thread
<1>2. Variables'
  <2> USE <1>1, EventsCount
      DEF Variables, P!disk, P!processes, P!quota, P!LoopEnds, P!StartNaive, P!Port
  <2>1. CASE P!BootCheck \/ P!BootNaive
    BY <2>1 DEF P!BootCheck, P!BootNaive
  <2>2. CASE P!Reconcile \/ P!QuotaStopped \/ P!QuotaRestored
    BY <2>2 DEF P!Reconcile, P!QuotaStopped, P!QuotaRestored
  <2>3. CASE P!KernelSwitch \/ P!KernelList \/ P!ContainerRestarts
    BY <2>3 DEF P!KernelSwitch, P!KernelList, P!ContainerRestarts
  <2> QED
    BY <2>1, <2>2, <2>3 DEF Loop
<1>3. PICK t, s : t \in P!Thread /\ WellFormed(s) /\ P!Becomes(t, s)
  <2>1. ASSUME NEW c \in {"boot start", "quota stop", "quota start"},
               NEW todo \in SUBSET XrayPort
        PROVE  WellFormed([P!Idle EXCEPT !.pc = c, !.todo = todo])
    BY IdleIsWellFormed DEF P!Idle, WellFormed, Record, P!Step
  <2>2. CASE P!BootCheck
    BY <1>1, <2>1, <2>2, IdleIsWellFormed DEF P!BootCheck, P!Ends
  <2>3. CASE P!BootNaive \/ P!QuotaStopped \/ P!QuotaRestored
    BY <1>1, <2>3, IdleIsWellFormed
    DEF P!BootNaive, P!QuotaStopped, P!QuotaRestored, P!LoopEnds, P!Ends
  <2>4. CASE P!Reconcile
    BY <1>1, <2>1, <2>4 DEF P!Reconcile
  <2>5. CASE P!KernelSwitch \/ P!KernelList
    <3> DEFINE k == thread["kernel"]
    <3>1. WellFormed(k)
      BY <1>1 DEF Threads
    <3>2. CASE P!KernelSwitch
      <4>1. k.pc = "idle" => WellFormed([k EXCEPT !.pc = "kernel list"])
        BY <3>1 DEF WellFormed, Record, P!Step
      <4> QED
        BY <1>1, <3>2, <4>1 DEF P!KernelSwitch, P!Goes
    <3>3. CASE P!KernelList
      <4>1. ASSUME NEW ports \in SUBSET XrayPort, k.pc = "kernel list"
            PROVE  WellFormed([k EXCEPT !.pc = "kernel stop", !.todo = ports, !.rest = ports])
        BY <3>1, <4>1 DEF WellFormed, Record, P!Step
      <4> QED
        BY <1>1, <3>3, <4>1, IdleIsWellFormed DEF P!KernelList, P!Ends
    <3> QED
      BY <2>5, <3>2, <3>3
  <2>6. CASE P!ContainerRestarts
    <3>1. WellFormed([P!Idle EXCEPT !.pc = "check"])
      BY IdleIsWellFormed DEF P!Idle, WellFormed, Record, P!Step
    <3> QED
      BY <1>1, <2>6, <3>1 DEF P!ContainerRestarts
  <2> QED
    BY <2>2, <2>3, <2>4, <2>5, <2>6 DEF Loop
<1>4. Threads'
  BY <1>1, <1>3, BecomesKeeps
<1> QED
  BY <1>2, <1>4, TypeParts, PTL

(* What happens to the instances and the agent from outside.               *)
LEMMA OthersKeep ==
  ASSUME P!TypeOK,
         P!MaintainCertificates \/ P!QuotaFlips \/ P!Crash \/ (\E p \in P!Port : P!Exits(p))
  PROVE  P!TypeOK'
<1> USE DEF P!disk, P!processes, P!quota
<1>1. CASE P!Crash
  <2>1. Variables'
    BY <1>1, TypeParts, EventsCount DEF P!Crash, P!Dies, Variables
  <2>2. Threads'
    BY <1>1, IdleIsWellFormed DEF P!Crash, P!Dies, Threads, WellFormed
  <2> QED
    BY <2>1, <2>2, TypeParts, PTL
<1>2. CASE ~P!Crash
  <2>1. Variables' /\ UNCHANGED thread
    <3>1. Limits'
      BY <1>2, TypeParts, EventsCount DEF Variables, P!MaintainCertificates, P!Exits
    <3> QED
      BY <1>2, <3>1, TypeParts
      DEF P!MaintainCertificates, P!StartNaive, P!QuotaFlips, P!Exits, Variables, P!Port
  <2>2. Threads'
    BY <2>1, TypeParts DEF Threads, WellFormed
  <2> QED
    BY <2>1, <2>2, TypeParts, PTL
<1> QED
  BY <1>1, <1>2

(* Every variable keeps its type: a call works on one port, the supervisor *)
(* of process.go on Xray's ports only, for any number of instances.        *)
THEOREM TypeCorrect ==
  ASSUME XrayPort \cap NaivePort = {}, Configured \subseteq P!Port
  PROVE  P!Spec => []P!TypeOK
<1>1. P!Init => P!TypeOK
  <2> SUFFICES ASSUME P!Init PROVE P!TypeOK
    OBVIOUS
  <2>1. WellFormed([P!Idle EXCEPT !.pc = "check"])
    BY IdleIsWellFormed DEF P!Idle, WellFormed, Record, P!Step
  <2>2. Threads
    BY <2>1, IdleIsWellFormed DEF P!Init, Threads, WellFormed
  <2>3. Variables
    BY DEF P!Init, Variables, Limits
  <2> QED
    BY <2>2, <2>3, TypeParts
<1>2. P!TypeOK /\ [P!Next]_(P!vars) => P!TypeOK'
  <2> SUFFICES ASSUME P!TypeOK, [P!Next]_(P!vars) PROVE P!TypeOK'
    OBVIOUS
  <2>1. CASE \E t \in P!Thread : P!Supervisor(t)
    BY <2>1, SupervisorKeeps
  <2>2. CASE \E h \in Handler : P!AddNode(h) \/ P!RemoveNode(h) \/ P!Serve(h)
    BY <2>2, CallsKeep
  <2>3. CASE Loop
    BY <2>3, LoopsKeep
  <2>4. CASE P!MaintainCertificates \/ P!QuotaFlips \/ P!Crash \/ (\E p \in P!Port : P!Exits(p))
    BY <2>4, OthersKeep
  <2>5. CASE UNCHANGED P!vars
    BY <2>5 DEF P!vars, P!disk, P!processes, P!quota, P!bounds, P!TypeOK, P!Starting, P!Stopping
  <2> QED
    BY <2>1, <2>2, <2>3, <2>4, <2>5 DEF P!Next, Loop
<1> QED
  BY <1>1, <1>2, PTL DEF P!Spec
=============================================================================
