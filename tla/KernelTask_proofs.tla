-------------------------- MODULE KernelTask_proofs ----------------------------
(***************************************************************************)
(* Kernel tasks, for any rows, nodes, canary and any number of attempts,   *)
(* runs, restarts and lost writes.                                         *)
(*                                                                         *)
(* Typed       what the tables and the goroutines may hold                 *)
(* Faithful    ... and what rows and goroutines say of the operations is   *)
(*             what the operations did                                     *)
(* Undisturbed while the panel does not restart: one goroutine works on a  *)
(*             row that has no result, with a key nobody has used          *)
(* Gate        ... and the run of the first attempts keeps to the canary   *)
(* Serial      the turns of the items, run by run                          *)
(* Settled     while the panel does not restart: stage and result          *)
(* Orderly     ... and one run at a time, whose last report is current     *)
(***************************************************************************)
EXTENDS KernelTask, WellFoundedInduction, TLAPS

Status == {"none", "queued", "running", "succeeded", "failed", "partial", "deleted"}

(* A goroutine that is not done has an item to write.                      *)
Known ==
  \A r \in Run, i \in Item : worker[r][i] \in Busy \cup {"todo"} => copy[r][i] # Absent

(* Between the commit and the launch nobody deletes a row.                 *)
Named == request.kind = "name" => \A i \in Item : row[i] # Absent

Typed == TypeOK /\ Known /\ Named

(* The three groups of variables that actions change.                      *)
Tables ==
  /\ row \in [Item -> Row \cup {Absent}]
  /\ status \in Status
  /\ lost \in Nat

Goroutines ==
  /\ run \in [Run -> [pc : {"unused", "opening", "opening_all", "canary", "others",
                           "stopping", "closing", "done"},
                     view : Status, token : BOOLEAN]]
  /\ worker \in [Run -> [Item -> {"none", "todo", "done", "failed"} \cup Busy]]
  /\ copy \in [Run -> [Item -> Row \cup {Absent}]]
  /\ Known

World ==
  /\ up \in BOOLEAN
  /\ server \in [Node -> {"registered", "removing", "gone"}]
  /\ op \in [Item -> [Key -> {"none", "active"} \cup Outcome]]
  /\ restarts \in Nat /\ trouble \in Nat

Asked ==
  /\ request \in [kind : {"none", "create", "name", "retry"}, items : SUBSET Item]
  /\ Named

LEMMA Parts == Typed <=> Tables /\ Goroutines /\ World /\ Asked
  BY DEF Typed, TypeOK, Tables, Goroutines, World, Asked, Status

LEMMA PartsAfter == Tables' /\ Goroutines' /\ World' /\ Asked' => Typed'
  BY DEF Typed, TypeOK, Tables, Goroutines, World, Asked, Status

LEMMA Attempts == MaxAttempts \in Nat /\ MaxAttempts >= 1
  BY BoundsNatural

LEMMA AgainIsNew ==
  ASSUME NEW item \in Row, item.attempt < MaxAttempts
  PROVE  /\ Again(item) \in Row
         /\ Again(item).stage = "queued" /\ Again(item).result = ""
         /\ Again(item).attempt = item.attempt + 1 /\ Again(item).key = item.attempt + 1
<1>1. item.attempt \in 1..MaxAttempts
  BY DEF Row
<1>2. item.attempt + 1 \in 1..MaxAttempts /\ item.attempt + 1 \in Key
  BY <1>1, Attempts DEF Key
<1> QED
  BY <1>2 DEF Again, Row

LEMMA WrittenIsTyped ==
  ASSUME Tables, NEW i \in Item, NEW item \in Row, NEW fits \in BOOLEAN,
         Write(i, item, fits), status' = status
  PROVE  Tables' /\ \A j \in Item : row[j] # Absent => row'[j] # Absent
  BY AbsentAssumption DEF Tables, Write

(* A step that leaves the request alone and deletes no row.                *)
LEMMA AskedStays ==
  ASSUME Asked, request' = request, \A j \in Item : row[j] # Absent => row'[j] # Absent
  PROVE  Asked'
  BY DEF Asked, Named

LEMMA LaunchedIsTyped ==
  ASSUME Goroutines, NEW items \in SUBSET Item, NEW table,
         \A i \in items : table[i] \in Row,
         NEW gated \in BOOLEAN, NEW token \in BOOLEAN,
         Launch(items, table, gated, token)
  PROVE  Goroutines'
<1> DEFINE w == [i \in Item |-> IF i \in items THEN "todo" ELSE "none"]
           c == [i \in Item |-> IF i \in items THEN table[i] ELSE Absent]
           s == [pc |-> IF gated THEN "opening" ELSE "opening_all",
                 view |-> "none", token |-> token]
<1>1. /\ w \in [Item -> {"none", "todo", "done", "failed"} \cup Busy]
      /\ c \in [Item -> Row \cup {Absent}]
  OBVIOUS
<1>2. /\ run' = [run EXCEPT ![NewRun] = s]
      /\ worker' = [worker EXCEPT ![NewRun] = w]
      /\ copy' = [copy EXCEPT ![NewRun] = c]
  BY DEF Launch
<1>3. \A i \in Item : w[i] \in Busy \cup {"todo"} => c[i] # Absent
  BY AbsentAssumption DEF Busy, Holding
<1> HIDE DEF w, c
<1>4. s \in [pc : {"unused", "opening", "opening_all", "canary", "others",
                   "stopping", "closing", "done"}, view : Status, token : BOOLEAN]
  BY DEF Status
<1> HIDE DEF s
<1>5. ASSUME NEW r \in Run, NEW i \in Item, worker'[r][i] \in Busy \cup {"todo"}
      PROVE  copy'[r][i] # Absent
  <2>1. CASE r = NewRun
    BY <1>2, <1>3, <1>5, <2>1 DEF Goroutines
  <2>2. CASE r # NewRun
    BY <1>2, <1>5, <2>2 DEF Goroutines, Known
  <2> QED
    BY <2>1, <2>2
<1> QED
  BY <1>1, <1>2, <1>4, <1>5 DEF Goroutines, Known

(* One goroutine moves, and knows its item while it has work.              *)
LEMMA MovedIsTyped ==
  ASSUME Goroutines, NEW r \in Run, NEW i \in Item,
         NEW to \in {"none", "todo", "done", "failed"} \cup Busy,
         NEW item \in Row \cup {Absent},
         to \in Busy \cup {"todo"} => item # Absent,
         worker' = [worker EXCEPT ![r][i] = to],
         copy' = [copy EXCEPT ![r][i] = item],
         run' = run
  PROVE  Goroutines'
<1>1. ASSUME NEW q \in Run, NEW j \in Item, worker'[q][j] \in Busy \cup {"todo"}
      PROVE  copy'[q][j] # Absent
  BY <1>1 DEF Goroutines, Known
<1> QED
  BY <1>1 DEF Goroutines, Known

-----------------------------------------------------------------------------
LEMMA InitTyped == Init => Typed
  BY AbsentAssumption, NodesAssigned, BoundsNatural
  DEF Init, Typed, TypeOK, Known, Named, Idle, Unused, Busy, Holding

LEMMA RequestsAreTyped ==
  ASSUME Typed,
         \/ CreateAsks \/ CreateCommits \/ CreateLaunches \/ RequestRefused \/ RetryCommits
         \/ \E i \in Item : CreateNames(i)
         \/ \E items \in SUBSET Item : RetryAsks(items)
  PROVE  Typed'
<1>0. Tables /\ Goroutines /\ World /\ Asked
  BY Parts
<1>1. World'
  BY <1>0 DEF World, CreateAsks, CreateCommits, CreateLaunches, RequestRefused, RetryCommits,
              CreateNames, RetryAsks, RequestOnly
<1>2. CASE CreateAsks \/ RequestRefused \/ \E items \in SUBSET Item : RetryAsks(items)
  <2>1. Tables' /\ Goroutines'
    BY <1>0, <1>2 DEF Tables, Goroutines, Known, CreateAsks, RequestRefused, RetryAsks,
                      goroutines, database
  <2>2. Asked'
    BY <1>0, <1>2 DEF Asked, Named, CreateAsks, RequestRefused, RetryAsks, Idle
  <2> QED
    BY <1>1, <2>1, <2>2, PartsAfter
<1>3. CASE CreateCommits
  <2> DEFINE fresh == [stage |-> "queued", result |-> "", attempt |-> 1, key |-> 0, op |-> FALSE]
  <2>1. fresh \in Row
    BY BoundsNatural DEF Row, Key
  <2>2. row' = [i \in Item |-> fresh]
    BY <1>3 DEF CreateCommits
  <2> HIDE DEF fresh
  <2>3. Tables' /\ Goroutines'
    BY <1>0, <1>3, <2>1, <2>2 DEF Tables, Goroutines, Known, CreateCommits, goroutines, Status
  <2>4. Asked'
    BY <1>0, <1>3, <2>1, <2>2, AbsentAssumption DEF Asked, Named, CreateCommits
  <2> QED
    BY <1>1, <2>3, <2>4, PartsAfter
<1>4. CASE CreateLaunches
  <2>1. \A i \in Item : row[i] \in Row
    BY <1>0, <1>4 DEF CreateLaunches, Asked, Named, Tables
  <2>2. Goroutines'
    BY <1>0, <1>4, <2>1, LaunchedIsTyped DEF CreateLaunches
  <2>3. Tables' /\ Asked'
    BY <1>0, <1>4 DEF Tables, Asked, Named, CreateLaunches, Idle, database
  <2> QED
    BY <1>1, <2>2, <2>3, PartsAfter
<1>5. CASE RetryCommits
  <2> DEFINE again == {i \in request.items \cap Rows : Failed(i)}
             table == [i \in Item |-> IF i \in again THEN Again(row[i]) ELSE row[i]]
  <2>1. /\ row' = table /\ status' = "queued" /\ lost' = lost
        /\ Launch(again, table, FALSE, TRUE)
        /\ request' = Idle
        /\ \A i \in again : row[i].attempt < MaxAttempts
    BY <1>5 DEF RetryCommits
  <2>2. again \in SUBSET Item
    BY DEF Rows
  <2>3. ASSUME NEW i \in again PROVE Again(row[i]) \in Row
    <3>1. row[i] \in Row /\ row[i].attempt < MaxAttempts
      BY <1>0, <2>1, <2>3 DEF Rows, Tables
    <3> QED
      BY <3>1, AgainIsNew
  <2>4. \A i \in again : table[i] \in Row
    BY <2>2, <2>3
  <2>5. table \in [Item -> Row \cup {Absent}]
    BY <1>0, <2>3 DEF Tables
  <2> HIDE DEF again, table
  <2>6. Goroutines'
    BY <1>0, <2>1, <2>2, <2>4, LaunchedIsTyped
  <2>7. Tables' /\ Asked'
    BY <1>0, <2>1, <2>5 DEF Tables, Asked, Named, Idle, Status
  <2> QED
    BY <1>1, <2>6, <2>7, PartsAfter
<1>6. ASSUME NEW i \in Item, CreateNames(i) PROVE Typed'
  <2>1. row[i] \in Row
    BY <1>0, <1>6 DEF CreateNames, Asked, Named, Tables
  <2>2. [row[i] EXCEPT !.key = 1] \in Row
    <3>1. 1 \in Key
      BY Attempts DEF Key
    <3> QED
      BY <2>1, <3>1 DEF Row
  <2>3. row' \in [Item -> Row \cup {Absent}] /\ \A j \in Item : row[j] # Absent => row'[j] # Absent
    BY <1>0, <1>6, <2>2, AbsentAssumption DEF CreateNames, Tables
  <2>4. Tables'
    BY <1>0, <1>6, <2>3 DEF CreateNames, Tables
  <2>5. Goroutines'
    BY <1>0, <1>6 DEF CreateNames, Goroutines, Known, goroutines
  <2>6. Asked'
    BY <1>0, <1>6, <2>3 DEF CreateNames, Asked, Named, Idle
  <2> QED
    BY <1>1, <2>4, <2>5, <2>6, PartsAfter
<1> QED
  BY <1>2, <1>3, <1>4, <1>5, <1>6

-----------------------------------------------------------------------------
LEMMA StatusIsTyped == Tables => StatusOfRows \in Status
  BY DEF Tables, StatusOfRows, Status

LEMMA RunsAreTyped ==
  ASSUME Typed, NEW r \in Run, RunTask(r)
  PROVE  Typed'
<1>0. Tables /\ Goroutines /\ World /\ Asked
  BY Parts
<1>1. World' /\ request' = request
  BY <1>0 DEF World, RunTask, Counts, Reports, CanaryPasses, CanaryFails, Finishes, RunOnly
<1>2. row' = row
  BY DEF RunTask, Counts, Reports, CanaryPasses, CanaryFails, Finishes, database
<1>3. Asked'
  BY <1>0, <1>1, <1>2, AskedStays
<1>4. CASE Reports(r)
  <2>1. Tables'
    BY <1>0, <1>2, <1>4 DEF Reports, Tables, Goroutines
  <2>2. run' = [run EXCEPT ![r].pc = AfterReport(run[r].pc), ![r].view = "none"]
    BY <1>4 DEF Reports, Goto
  <2>3. AfterReport(run[r].pc) \in {"canary", "others", "done"}
    BY DEF AfterReport
  <2>4. ASSUME NEW q \in Run, NEW i \in Item
        PROVE  /\ worker'[q][i] \in {worker[q][i], "none"}
               /\ copy'[q][i] = copy[q][i]
    BY <1>0, <1>4 DEF Reports, Goroutines
  <2>5. worker' \in [Run -> [Item -> {"none", "todo", "done", "failed"} \cup Busy]]
    <3>1. worker' = [worker EXCEPT ![r] =
                       [i \in Item |-> IF run[r].pc = "closing" THEN "none" ELSE worker[r][i]]]
      BY <1>4 DEF Reports
    <3>2. [i \in Item |-> IF run[r].pc = "closing" THEN "none" ELSE worker[r][i]]
            \in [Item -> {"none", "todo", "done", "failed"} \cup Busy]
      BY <1>0 DEF Goroutines
    <3> QED
      BY <1>0, <3>1, <3>2 DEF Goroutines
  <2>6. Known'
    BY <1>0, <2>4 DEF Known, Goroutines, Busy, Holding
  <2>7. Goroutines'
    BY <1>0, <1>4, <2>2, <2>3, <2>5, <2>6 DEF Goroutines, Status, Reports
  <2> QED
    BY <1>1, <1>3, <2>1, <2>7, PartsAfter
<1>5. CASE Counts(r) \/ CanaryPasses(r) \/ CanaryFails(r) \/ Finishes(r)
  <2>1. Tables' /\ UNCHANGED <<worker, copy>>
    BY <1>0, <1>5 DEF Counts, CanaryPasses, CanaryFails, Finishes, Tables, database
  <2>2. \/ run' = [run EXCEPT ![r].view = StatusOfRows]
        \/ \E pc \in {"others", "stopping", "closing"} :
             run' = [run EXCEPT ![r].pc = pc, ![r].view = "none"]
    BY <1>5 DEF Counts, CanaryPasses, CanaryFails, Finishes, Goto
  <2>3. StatusOfRows \in Status
    BY <1>0, StatusIsTyped
  <2>4. Known'
    BY <1>0, <2>1 DEF Goroutines, Known
  <2>5. Goroutines'
    <3>1. CASE run' = [run EXCEPT ![r].view = StatusOfRows]
      BY <1>0, <2>1, <2>3, <2>4, <3>1 DEF Goroutines
    <3>2. ASSUME NEW pc \in {"others", "stopping", "closing"},
                 run' = [run EXCEPT ![r].pc = pc, ![r].view = "none"]
          PROVE  Goroutines'
      BY <1>0, <2>1, <2>4, <3>2 DEF Goroutines, Status
    <3> QED
      BY <2>2, <3>1, <3>2
  <2> QED
    BY <1>1, <1>3, <2>1, <2>5, PartsAfter
<1> QED
  BY <1>4, <1>5 DEF RunTask

-----------------------------------------------------------------------------
LEMMA Changed ==
  ASSUME NEW item \in Row, NEW s \in Over \cup {"queued", "active"},
         NEW t \in {"", "succeeded", "failed"}
  PROVE  [item EXCEPT !.stage = s, !.result = t] \in Row
  BY DEF Row

(* failKernelTaskItem, wherever executeKernelTaskItem gives up.            *)
LEMMA FailedIsTyped ==
  ASSUME Tables, Goroutines, Asked, NEW r \in Run, NEW i \in Item,
         worker[r][i] \in Busy \cup {"todo"},
         FailsItem(r, i), UNCHANGED <<status, run, request>>
  PROVE  Tables' /\ Goroutines' /\ Asked'
<1>1. copy[r][i] \in Row
  BY DEF Goroutines, Known
<1>2. [copy[r][i] EXCEPT !.stage = "failed", !.result = "failed"] \in Row
  BY <1>1, Changed DEF Over
<1>3. Tables' /\ \A j \in Item : row[j] # Absent => row'[j] # Absent
  BY <1>2, WrittenIsTyped DEF FailsItem
<1>4. Goroutines'
  BY MovedIsTyped DEF FailsItem, Forgets, Busy, Holding
<1> QED
  BY <1>3, <1>4, AskedStays

LEMMA WorkersAreTyped ==
  ASSUME Typed, NEW r \in Run, NEW i \in Item, Execute(r, i)
  PROVE  Typed'
<1>0. Tables /\ Goroutines /\ World /\ Asked
  BY Parts
<1>1. worker[r][i] \in Busy \cup {"todo"}
  BY DEF Execute, TakesTurn, LocksNode, Inventories, Starts, Saves, PollsActive, Polls,
         TurnedAway, StopsLooking, LosesAnswer, GivesUp, Step, Busy, Holding
<1>2. copy[r][i] \in Row
  BY <1>0, <1>1 DEF Goroutines, Known
<1>3. request' = request /\ run' = run
  BY DEF Execute, TakesTurn, LocksNode, Inventories, Starts, Saves, PollsActive, Polls,
         TurnedAway, StopsLooking, LosesAnswer, GivesUp, RunOnly, WorkerOnly
<1>4. copy[r][i].key \in Key
  BY <1>2 DEF Row
<1>5. Admit(i, copy[r][i].key) => /\ op' \in [Item -> [Key -> {"none", "active"} \cup Outcome]]
                                  /\ op'[i][copy[r][i].key] \in {"active"} \cup Outcome
  BY <1>0, <1>4 DEF Admit, World
<1>6. World'
  <2>1. UNCHANGED <<up, server, restarts>>
    BY DEF Execute, TakesTurn, LocksNode, Inventories, Starts, Saves, PollsActive, Polls,
           TurnedAway, StopsLooking, LosesAnswer, GivesUp, RunOnly, WorkerOnly
  <2>2. op' = op \/ Admit(i, copy[r][i].key)
    BY DEF Execute, TakesTurn, LocksNode, Inventories, Starts, Saves, PollsActive, Polls,
           TurnedAway, StopsLooking, LosesAnswer, GivesUp, RunOnly
  <2>3. trouble' \in {trouble, trouble + 1}
    BY DEF Execute, TakesTurn, LocksNode, Inventories, Starts, Saves, PollsActive, Polls,
           TurnedAway, StopsLooking, LosesAnswer, GivesUp, RunOnly
  <2> QED
    BY <1>0, <1>5, <2>1, <2>2, <2>3 DEF World
<1>7. CASE TakesTurn(r, i) \/ LocksNode(r, i) \/ Inventories(r, i)
  <2>1. PICK to \in {"waiting", "locked", "asked"} : worker' = [worker EXCEPT ![r][i] = to]
    BY <1>7 DEF TakesTurn, LocksNode, Inventories, Step
  <2>2. UNCHANGED <<copy, row, status, lost>>
    BY <1>7 DEF TakesTurn, LocksNode, Inventories, database
  <2>3. Goroutines'
    <3>1. copy' = [copy EXCEPT ![r][i] = copy[r][i]]
      BY <1>0, <2>2 DEF Goroutines
    <3>2. copy[r][i] # Absent
      BY <1>2, AbsentAssumption
    <3> QED
      BY <1>0, <1>2, <1>3, <2>1, <3>1, <3>2, MovedIsTyped DEF Busy, Holding
  <2>4. Tables' /\ Asked'
    BY <1>0, <1>3, <2>2 DEF Tables, Asked, Named
  <2> QED
    BY <1>6, <2>3, <2>4, PartsAfter
<1>8. CASE Starts(r, i)
  <2> DEFINE s == StageOf(op'[i][copy[r][i].key])
             item == [copy[r][i] EXCEPT !.stage = s, !.op = TRUE]
  <2>1. s \in Over \cup {"queued", "active"}
    BY <1>5, <1>8 DEF Starts, StageOf, Outcome, Over
  <2>2. copy' = [copy EXCEPT ![r][i] = item]
    BY <1>0, <1>8 DEF Starts, Goroutines
  <2> HIDE DEF s
  <2>3. item \in Row
    BY <1>2, <2>1 DEF Row
  <2>4. item # Absent
    BY <2>3, AbsentAssumption
  <2> HIDE DEF item
  <2>5. worker' = [worker EXCEPT ![r][i] = "started"]
    BY <1>8 DEF Starts, Step
  <2>6. Goroutines'
    BY <1>0, <1>3, <2>2, <2>3, <2>4, <2>5, MovedIsTyped DEF Busy, Holding
  <2>7. Tables' /\ Asked'
    BY <1>0, <1>3, <1>8 DEF Tables, Asked, Named, Starts, database
  <2> QED
    BY <1>6, <2>6, <2>7, PartsAfter
<1>9. CASE Saves(r, i) \/ PollsActive(r, i)
  <2>1. Tables' /\ \A j \in Item : row[j] # Absent => row'[j] # Absent
    BY <1>0, <1>2, <1>9, WrittenIsTyped DEF Saves, PollsActive
  <2>2. Asked'
    BY <1>0, <1>3, <2>1, AskedStays
  <2>3. copy' = [copy EXCEPT ![r][i] = copy[r][i]]
    BY <1>0, <1>9 DEF Saves, PollsActive, Goroutines
  <2>4. worker' = [worker EXCEPT ![r][i] = "polling"]
    BY <1>0, <1>9 DEF Saves, PollsActive, Step, Goroutines
  <2>5. Goroutines'
    BY <1>0, <1>2, <1>3, <2>3, <2>4, MovedIsTyped, AbsentAssumption DEF Busy, Holding
  <2> QED
    BY <1>6, <2>1, <2>2, <2>5, PartsAfter
<1>10. CASE Polls(r, i)
  <2> DEFINE o == op[i][copy[r][i].key]
  <2>1. o \in Outcome
    BY <1>10 DEF Polls
  <2>2. Seen(copy[r][i], o) \in Row
    BY <1>2, <2>1, Changed DEF Seen, StageOf, Outcome, Over
  <2>3. Write(i, Seen(copy[r][i], o), ~(LongErrors /\ o = "unrestored")) /\ status' = status
    BY <1>10 DEF Polls
  <2>4. (~(LongErrors /\ o = "unrestored")) \in BOOLEAN
    OBVIOUS
  <2>5. Tables' /\ \A j \in Item : row[j] # Absent => row'[j] # Absent
    BY <1>0, <2>2, <2>3, <2>4, WrittenIsTyped
  <2>6. Asked'
    BY <1>0, <1>3, <2>5, AskedStays
  <2>7. /\ copy' = [copy EXCEPT ![r][i] = Absent]
        /\ \E to \in {"done", "failed"} : worker' = [worker EXCEPT ![r][i] = to]
    BY <1>10 DEF Polls, Forgets, Step
  <2>8. Goroutines'
    BY <1>0, <1>3, <2>7, MovedIsTyped DEF Busy, Holding
  <2> QED
    BY <1>6, <2>5, <2>6, <2>8, PartsAfter
<1>11. CASE TurnedAway(r, i) \/ StopsLooking(r, i) \/ LosesAnswer(r, i) \/ GivesUp(r, i)
  <2>1. FailsItem(r, i) /\ status' = status
    BY <1>11 DEF TurnedAway, StopsLooking, LosesAnswer, GivesUp
  <2>2. Tables' /\ Goroutines' /\ Asked'
    BY <1>0, <1>1, <1>3, <2>1, FailedIsTyped
  <2> QED
    BY <1>6, <2>2, PartsAfter
<1> QED
  BY <1>7, <1>8, <1>9, <1>10, <1>11 DEF Execute

-----------------------------------------------------------------------------
LEMMA RegistryIsTyped ==
  ASSUME Typed, NEW n \in Node,
         \/ BeginNodeServerRemoval(n) \/ CancelUnstartedNodeServerRemoval(n)
         \/ CompleteNodeServerRemoval(n) \/ DeleteNodeServerRecords(n)
  PROVE  Typed'
<1>0. Tables /\ Goroutines /\ World /\ Asked
  BY Parts
<1>1. World' /\ Goroutines' /\ request' = request /\ lost' = lost
  BY <1>0 DEF World, Goroutines, Known, goroutines, RegistryOnly, BeginNodeServerRemoval,
         CancelUnstartedNodeServerRemoval, CompleteNodeServerRemoval, DeleteNodeServerRecords
<1>2. UNCHANGED <<row, status>> \/ (ClearHistory(n) /\ request.kind # "name")
  BY DEF BeginNodeServerRemoval, CancelUnstartedNodeServerRemoval, CompleteNodeServerRemoval,
         DeleteNodeServerRecords
<1>3. Tables'
  BY <1>0, <1>1, <1>2 DEF Tables, ClearHistory, Status
<1>4. Asked'
  BY <1>0, <1>1, <1>2 DEF Asked, Named
<1> QED
  BY <1>1, <1>3, <1>4, PartsAfter

LEMMA RestartsAreTyped ==
  ASSUME Typed, Crash \/ RecoverKernelTasks
  PROVE  Typed'
<1>0. Tables /\ Goroutines /\ World /\ Asked
  BY Parts
<1>1. CASE Crash
  <2>1. World'
    <3>1. up' = FALSE /\ restarts' = restarts + 1 /\ UNCHANGED <<server, op, trouble>>
      BY <1>1 DEF Crash
    <3>2. restarts' \in Nat
      BY <1>0, <3>1 DEF World
    <3>3. up' \in BOOLEAN
      BY <3>1
    <3> QED
      BY <1>0, <3>1, <3>2, <3>3 DEF World
  <2>2. Tables'
    BY <1>0, <1>1 DEF Tables, Crash, database
  <2>3. Asked'
    BY <1>1 DEF Asked, Named, Crash, Idle
  <2>4. Goroutines'
    BY <1>1 DEF Goroutines, Known, Crash, Unused, Status, Busy, Holding
  <2> QED
    BY <2>1, <2>2, <2>3, <2>4, PartsAfter
<1>2. CASE RecoverKernelTasks
  <2>1. World'
    BY <1>0, <1>2 DEF World, RecoverKernelTasks
  <2>2. row' = [i \in Item |-> Interrupted(row[i])]
    BY <1>2 DEF RecoverKernelTasks
  <2>3. ASSUME NEW i \in Item
        PROVE  /\ Interrupted(row[i]) \in Row \cup {Absent}
               /\ row[i] # Absent => Interrupted(row[i]) # Absent
    <3>1. CASE row[i] # Absent
      <4>1. row[i] \in Row
        BY <1>0, <3>1 DEF Tables
      <4>2. [row[i] EXCEPT !.stage = "failed", !.result = "failed"] \in Row
        BY <4>1, Changed DEF Over
      <4> QED
        BY <4>1, <4>2, AbsentAssumption DEF Interrupted
    <3>2. CASE row[i] = Absent
      BY <3>2 DEF Interrupted
    <3> QED
      BY <3>1, <3>2
  <2>4. Tables' /\ Asked'
    BY <1>0, <1>2, <2>2, <2>3 DEF Tables, Asked, Named, RecoverKernelTasks
  <2> DEFINE again == Unfinished(row')
  <2>5. /\ DOMAIN again \in SUBSET Item
        /\ \A i \in DOMAIN again : again[i] \in Row
    BY <2>4 DEF Unfinished, Tables
  <2>6. UNCHANGED goroutines \/ Launch(DOMAIN again, again, FALSE, FALSE)
    BY <1>2 DEF RecoverKernelTasks
  <2> HIDE DEF again
  <2>7. Goroutines'
    <3>1. CASE UNCHANGED goroutines
      BY <1>0, <3>1 DEF Goroutines, Known, goroutines
    <3>2. CASE Launch(DOMAIN again, again, FALSE, FALSE)
      BY <1>0, <2>5, <3>2, LaunchedIsTyped
    <3> QED
      BY <2>6, <3>1, <3>2
  <2> QED
    BY <2>1, <2>4, <2>7, PartsAfter
<1> QED
  BY <1>1, <1>2

-----------------------------------------------------------------------------
LEMMA TypedStays ==
  ASSUME Typed, [Next]_vars
  PROVE  Typed'
<1>1. CASE UNCHANGED vars
  BY <1>1 DEF Typed, TypeOK, Known, Named, vars
<1>2. ASSUME NEW i \in Item, NEW k \in Key, Settles(i, k) PROVE Typed'
  <2>1. op' \in [Item -> [Key -> {"none", "active"} \cup Outcome]]
    BY <1>2 DEF Settles, Typed, TypeOK
  <2> QED
    BY <1>2, <2>1 DEF Settles, Typed, TypeOK, Known, Named, goroutines, database
<1> QED
  BY <1>1, <1>2, RequestsAreTyped, RunsAreTyped, WorkersAreTyped, RegistryIsTyped,
     RestartsAreTyped DEF Next

(* Rows, copies, goroutines and operations keep their types, and a         *)
(* goroutine with work left always has the item that it will write.        *)
THEOREM TypeCorrect == Spec => []TypeOK
<1>1. Init => Typed
  BY InitTyped
<1>2. Typed /\ [Next]_vars => Typed'
  BY TypedStays
<1>3. Typed => TypeOK
  BY DEF Typed
<1> QED
  BY <1>1, <1>2, <1>3, PTL DEF Spec

-----------------------------------------------------------------------------
(* What a step of executeKernelTaskItem does, item by item.  Every other   *)
(* goroutine, row and operation is left alone.                             *)
Elsewhere(r, i) ==
  /\ \A q \in Run, j \in Item :
       q # r \/ j # i => worker'[q][j] = worker[q][j] /\ copy'[q][j] = copy[q][j]
  /\ \A j \in Item : j # i => row'[j] = row[j] /\ op'[j] = op[j]
  /\ \A k \in Key : k # copy[r][i].key => op'[i][k] = op[i][k]
  /\ UNCHANGED <<up, server, request, run, status, restarts>>

Working(r, i) == worker[r][i] \in Busy \cup {"todo"}

\* The operation of the item's key before and after the step.
Before(r, i) == op[i][copy[r][i].key]
After(r, i) == op'[i][copy[r][i].key]

\* A write may be lost, refused, or find no row.
Wrote(i, item) == row'[i] = row[i] \/ (row[i] # Absent /\ row'[i] = item)

Admitted(r, i) ==
  worker[r][i] = "asked" /\ After(r, i) = IF Before(r, i) = "none" THEN "active" ELSE Before(r, i)

Advances(r, i) ==
  /\ <<worker[r][i], worker'[r][i]>> \in
       {<<"todo", "waiting">>, <<"waiting", "locked">>, <<"locked", "asked">>}
  /\ worker'[r][i] = "waiting" => TakesTurn(r, i)
  /\ row' = row /\ copy'[r][i] = copy[r][i] /\ op' = op

Begun(r, i) ==
  /\ worker'[r][i] = "started" /\ Admitted(r, i)
  /\ row' = row
  /\ copy'[r][i] = [copy[r][i] EXCEPT !.stage = StageOf(After(r, i)), !.op = TRUE]

Records(r, i) ==
  /\ worker[r][i] \in {"started", "polling"} /\ worker'[r][i] = "polling"
  /\ Wrote(i, copy[r][i])
  /\ copy'[r][i] = copy[r][i] /\ op' = op

Concludes(r, i) ==
  /\ worker[r][i] = "polling"
  /\ worker'[r][i] = IF Before(r, i) = "succeeded" THEN "done" ELSE "failed"
  /\ Before(r, i) \in Outcome
  /\ Wrote(i, Seen(copy[r][i], Before(r, i)))
  /\ copy'[r][i] = Absent /\ op' = op

Abandons(r, i) ==
  /\ worker'[r][i] = "failed"
  /\ Wrote(i, [copy[r][i] EXCEPT !.stage = "failed", !.result = "failed"])
  /\ copy'[r][i] = Absent
  /\ op' = op \/ Admitted(r, i)

LEMMA Moves ==
  ASSUME Typed, NEW r \in Run, NEW i \in Item, Execute(r, i)
  PROVE  /\ Working(r, i) /\ copy[r][i] \in Row
         /\ Elsewhere(r, i)
         /\ \/ Advances(r, i) \/ Begun(r, i) \/ Records(r, i)
            \/ Concludes(r, i) \/ Abandons(r, i)
<1>0. Tables /\ Goroutines /\ World
  BY Parts
<1>1. Working(r, i)
  BY DEF Execute, TakesTurn, LocksNode, Inventories, Starts, Saves, PollsActive, Polls,
         TurnedAway, StopsLooking, LosesAnswer, GivesUp, Step, Busy, Holding, Working
<1>2. copy[r][i] \in Row /\ copy[r][i].key \in Key
  <2>1. copy[r][i] \in Row
    BY <1>0, <1>1 DEF Goroutines, Known, Working
  <2> QED
    BY <2>1 DEF Row
<1>3. UNCHANGED <<up, server, request, run, status, restarts>>
  BY DEF Execute, TakesTurn, LocksNode, Inventories, Starts, Saves, PollsActive, Polls,
         TurnedAway, StopsLooking, LosesAnswer, GivesUp, RunOnly, WorkerOnly, database
<1>4. op' = op \/ (Admit(i, copy[r][i].key) /\ worker[r][i] = "asked")
  BY DEF Execute, TakesTurn, LocksNode, Inventories, Starts, Saves, PollsActive, Polls,
         TurnedAway, StopsLooking, LosesAnswer, GivesUp, RunOnly, Step
<1>5. /\ \A j \in Item : j # i => op'[j] = op[j]
      /\ \A k \in Key : k # copy[r][i].key => op'[i][k] = op[i][k]
      /\ Admit(i, copy[r][i].key) => After(r, i) = IF Before(r, i) = "none" THEN "active" ELSE Before(r, i)
  BY <1>0, <1>2, <1>4 DEF Admit, World, Before, After
<1>6. ASSUME NEW item, NEW fits \in BOOLEAN, Write(i, item, fits)
      PROVE  Wrote(i, item) /\ \A j \in Item : j # i => row'[j] = row[j]
  BY <1>0, <1>6 DEF Write, Tables, Wrote
<1>7. ASSUME Forgets(r, i)
      PROVE  /\ copy'[r][i] = Absent
             /\ \A q \in Run, j \in Item : q # r \/ j # i => copy'[q][j] = copy[q][j]
  BY <1>0, <1>7 DEF Forgets, Goroutines
<1>8. ASSUME NEW to, worker' = [worker EXCEPT ![r][i] = to]
      PROVE  /\ worker'[r][i] = to
             /\ \A q \in Run, j \in Item : q # r \/ j # i => worker'[q][j] = worker[q][j]
  BY <1>0, <1>8 DEF Goroutines
<1>9. CASE TakesTurn(r, i) \/ LocksNode(r, i) \/ Inventories(r, i)
  <2>1. PICK to \in {"waiting", "locked", "asked"} :
          /\ worker' = [worker EXCEPT ![r][i] = to]
          /\ <<worker[r][i], to>> \in {<<"todo", "waiting">>, <<"waiting", "locked">>, <<"locked", "asked">>}
          /\ to = "waiting" => TakesTurn(r, i)
    BY <1>9 DEF TakesTurn, LocksNode, Inventories, Step
  <2>2. UNCHANGED <<copy, row, op>>
    BY <1>9 DEF TakesTurn, LocksNode, Inventories, database, RunOnly
  <2>3. Advances(r, i)
    BY <1>8, <2>1, <2>2 DEF Advances
  <2> QED
    BY <1>1, <1>2, <1>3, <1>8, <2>1, <2>2, <2>3 DEF Elsewhere
<1>10. CASE Starts(r, i)
  <2>1. worker' = [worker EXCEPT ![r][i] = "started"] /\ worker[r][i] = "asked" /\ row' = row
        /\ Admit(i, copy[r][i].key)
    BY <1>10 DEF Starts, Step, database
  <2>2. copy' = [copy EXCEPT ![r][i] = [copy[r][i] EXCEPT !.stage = StageOf(After(r, i)), !.op = TRUE]]
    BY <1>0, <1>10 DEF Starts, Goroutines, After
  <2>3. /\ copy'[r][i] = [copy[r][i] EXCEPT !.stage = StageOf(After(r, i)), !.op = TRUE]
        /\ \A q \in Run, j \in Item : q # r \/ j # i => copy'[q][j] = copy[q][j]
    BY <1>0, <2>2 DEF Goroutines
  <2>4. Begun(r, i)
    BY <1>5, <1>8, <2>1, <2>3 DEF Begun, Admitted
  <2> QED
    BY <1>1, <1>2, <1>3, <1>5, <1>8, <2>1, <2>3, <2>4 DEF Elsewhere
<1>11. CASE Saves(r, i) \/ PollsActive(r, i)
  <2>1. Write(i, copy[r][i], TRUE) /\ copy' = copy /\ op' = op
    BY <1>11 DEF Saves, PollsActive
  <2>2. worker[r][i] \in {"started", "polling"} /\ worker' = [worker EXCEPT ![r][i] = "polling"]
    BY <1>0, <1>11 DEF Saves, PollsActive, Step, Goroutines
  <2>3. Records(r, i)
    BY <1>6, <1>8, <2>1, <2>2 DEF Records
  <2> QED
    BY <1>1, <1>2, <1>3, <1>5, <1>6, <1>8, <2>1, <2>2, <2>3 DEF Elsewhere
<1>12. CASE Polls(r, i)
  <2>1. /\ Write(i, Seen(copy[r][i], Before(r, i)), ~(LongErrors /\ Before(r, i) = "unrestored"))
        /\ Forgets(r, i) /\ op' = op /\ worker[r][i] = "polling" /\ Before(r, i) \in Outcome
        /\ worker' = [worker EXCEPT ![r][i] = IF Before(r, i) = "succeeded" THEN "done" ELSE "failed"]
    BY <1>12 DEF Polls, Step, Before
  <2>2. (~(LongErrors /\ Before(r, i) = "unrestored")) \in BOOLEAN
    OBVIOUS
  <2>3. Concludes(r, i)
    BY <1>6, <1>7, <1>8, <2>1, <2>2 DEF Concludes
  <2>4. \A j \in Item : j # i => row'[j] = row[j]
    BY <1>6, <2>1, <2>2
  <2>5. Elsewhere(r, i)
    BY <1>3, <1>5, <1>7, <1>8, <2>1, <2>4 DEF Elsewhere
  <2> QED
    BY <1>1, <1>2, <2>3, <2>5
<1>13. CASE TurnedAway(r, i) \/ StopsLooking(r, i) \/ LosesAnswer(r, i) \/ GivesUp(r, i)
  <2>1. FailsItem(r, i)
    BY <1>13 DEF TurnedAway, StopsLooking, LosesAnswer, GivesUp
  <2>2. /\ Write(i, [copy[r][i] EXCEPT !.stage = "failed", !.result = "failed"], TRUE)
        /\ Forgets(r, i) /\ worker' = [worker EXCEPT ![r][i] = "failed"]
    BY <2>1 DEF FailsItem
  <2>3. op' = op \/ Admitted(r, i)
    BY <1>4, <1>5 DEF Admitted
  <2>4. Abandons(r, i)
    BY <1>6, <1>7, <1>8, <2>2, <2>3 DEF Abandons
  <2> QED
    BY <1>1, <1>2, <1>3, <1>5, <1>6, <1>7, <1>8, <2>2, <2>4 DEF Elsewhere
<1> QED
  BY <1>9, <1>10, <1>11, <1>12, <1>13 DEF Execute

(* And a launch, run by run.                                               *)
LEMMA Launched ==
  ASSUME Goroutines, NEW items \in SUBSET Item, NEW table,
         NEW gated \in BOOLEAN, NEW token \in BOOLEAN,
         Launch(items, table, gated, token)
  PROVE  /\ \A r \in Run : r # NewRun => /\ run'[r] = run[r] /\ worker'[r] = worker[r]
                                       /\ copy'[r] = copy[r]
         /\ NewRun \in Run =>
              /\ run'[NewRun].pc = IF gated THEN "opening" ELSE "opening_all"
              /\ run'[NewRun].view = "none"
              /\ \A i \in Item :
                   /\ worker'[NewRun][i] = IF i \in items THEN "todo" ELSE "none"
                   /\ copy'[NewRun][i] = IF i \in items THEN table[i] ELSE Absent
  BY DEF Launch, Goroutines

-----------------------------------------------------------------------------
(* What an item says of its operation is what the operation says.          *)
Confirms(o, item) ==
  /\ item.result = "succeeded" => o[item.key] = "succeeded"
  /\ item.stage = "rolled_back" => o[item.key] = "rolled_back"

Told ==
  /\ \A i \in Item : row[i] # Absent => Confirms(op[i], row[i])
  /\ \A r \in Run, i \in Item : copy[r][i] # Absent => Confirms(op[i], copy[r][i])

(* A run that is not under way has no goroutines, and only a run that is   *)
(* about to report has counted.                                            *)
Bookkeeping ==
  \A r \in Run :
    /\ ~Alive(r) => \A i \in Item : worker[r][i] = "none"
    /\ run[r].view # "none" => run[r].pc \in {"opening", "opening_all", "closing"}

Quiet == \A r \in Run : run[r].pc = "unused"
Untouched == \A i \in Item, k \in Key : op[i][k] = "none"

(* Until CreateKernelTask launches its run, nothing else goes on.          *)
Opening ==
  /\ status = "none" => Quiet /\ Untouched /\ \A i \in Item : row[i] = Absent
  /\ ~up => request.kind = "none"
  /\ request.kind = "create" => status = "none" /\ request.items = Item
  /\ request.kind = "name" =>
       /\ Quiet /\ Untouched /\ status # "none" /\ Registered(Item)
       /\ \A i \in Item : /\ row[i].stage = "queued" /\ row[i].result = "" /\ row[i].attempt = 1
                          /\ i \notin request.items => row[i].key = 1

Faithful == Typed /\ Told /\ Bookkeeping /\ Opening

LEMMA OutcomesLast ==
  ASSUME Typed, [Next]_vars
  PROVE  \A i \in Item, k \in Key : op[i][k] \in Outcome => op'[i][k] = op[i][k]
<1>1. CASE UNCHANGED vars
  BY <1>1 DEF vars
<1>2. ASSUME NEW r \in Run, NEW i \in Item, Execute(r, i) PROVE op' = op \/ Admitted(r, i)
  BY <1>2, Moves DEF Advances, Begun, Records, Concludes, Abandons
<1>3. ASSUME NEW r \in Run, NEW i \in Item, Execute(r, i),
             NEW j \in Item, NEW k \in Key, op[j][k] \in Outcome
      PROVE  op'[j][k] = op[j][k]
  <2>1. Elsewhere(r, i)
    BY <1>3, Moves
  <2>2. CASE j = i /\ k = copy[r][i].key
    BY <1>2, <1>3, <2>2 DEF Admitted, Before, After, Outcome, Over
  <2> QED
    BY <2>1, <2>2 DEF Elsewhere
<1>4. ASSUME NEW i \in Item, NEW k \in Key, Settles(i, k),
             NEW j \in Item, NEW l \in Key, op[j][l] \in Outcome
      PROVE  op'[j][l] = op[j][l]
  BY <1>4 DEF Settles, Typed, TypeOK, Outcome, Over
<1>5. CASE \/ CreateAsks \/ CreateCommits \/ CreateLaunches \/ RequestRefused \/ RetryCommits
           \/ \E i \in Item : CreateNames(i)
           \/ \E items \in SUBSET Item : RetryAsks(items)
           \/ \E r \in Run : RunTask(r)
           \/ \E n \in Node : \/ BeginNodeServerRemoval(n) \/ CancelUnstartedNodeServerRemoval(n)
                             \/ CompleteNodeServerRemoval(n) \/ DeleteNodeServerRecords(n)
           \/ Crash \/ RecoverKernelTasks
  <2>1. op' = op
    BY <1>5 DEF CreateAsks, CreateCommits, CreateLaunches, RequestRefused, RetryCommits,
       CreateNames, RetryAsks, RequestOnly, RunTask, Counts, Reports, CanaryPasses, CanaryFails,
       Finishes, RunOnly, BeginNodeServerRemoval, CancelUnstartedNodeServerRemoval,
       CompleteNodeServerRemoval, DeleteNodeServerRecords, RegistryOnly, Crash, RecoverKernelTasks
  <2> QED
    BY <2>1
<1> QED
  BY <1>1, <1>3, <1>4, <1>5 DEF Next

(* Told is kept by a step that writes and copies only what is confirmed.   *)
LEMMA ToldStays ==
  ASSUME Typed, Told,
         \A i \in Item, k \in Key : op[i][k] \in Outcome => op'[i][k] = op[i][k],
         \A i \in Item : row'[i] \in {row[i], Absent} \/ Confirms(op'[i], row'[i]),
         \A r \in Run, i \in Item :
           copy'[r][i] \in {copy[r][i], Absent} \/ Confirms(op'[i], copy'[r][i])
  PROVE  Told'
<1>1. "succeeded" \in Outcome /\ "rolled_back" \in Outcome
  BY DEF Outcome, Over
<1>2. ASSUME NEW i \in Item, NEW item \in Row, Confirms(op[i], item)
      PROVE  Confirms(op'[i], item)
  <2>1. item.key \in Key
    BY DEF Row
  <2> QED
    BY <1>1, <1>2, <2>1 DEF Confirms
<1>3. ASSUME NEW i \in Item, row'[i] # Absent PROVE Confirms(op'[i], row'[i])
  BY <1>2, <1>3 DEF Told, Typed, TypeOK
<1>4. ASSUME NEW r \in Run, NEW i \in Item, copy'[r][i] # Absent PROVE Confirms(op'[i], copy'[r][i])
  <2>1. copy[r][i] \in Row \cup {Absent}
    BY DEF Typed, TypeOK
  <2> QED
    BY <1>2, <1>4, <2>1 DEF Told
<1> QED
  BY <1>3, <1>4 DEF Told

LEMMA InitFaithful == Init => Faithful
<1> SUFFICES ASSUME Init PROVE Faithful
  OBVIOUS
<1>1. Typed
  BY InitTyped
<1>2. Told
  BY DEF Init, Told
<1>3. Bookkeeping
  BY DEF Init, Bookkeeping, Unused, Alive
<1>4. Opening
  BY DEF Init, Opening, Quiet, Untouched, Unused, Idle
<1> QED
  BY <1>1, <1>2, <1>3, <1>4 DEF Faithful

(* Goroutines run only after the task's first launch.                      *)
LEMMA RunsAfterOpening ==
  ASSUME Typed, Bookkeeping, Opening, NEW r \in Run,
         RunTask(r) \/ \E i \in Item : Execute(r, i)
  PROVE  Alive(r) /\ status # "none" /\ request.kind \notin {"create", "name"}
<1>1. Alive(r)
  <2>1. CASE RunTask(r)
    BY <2>1 DEF RunTask, Counts, Reports, CanaryPasses, CanaryFails, Finishes, Bookkeeping, Alive
  <2>2. ASSUME NEW i \in Item, Execute(r, i) PROVE Alive(r)
    BY <2>2, Moves DEF Working, Bookkeeping, Busy, Holding
  <2> QED
    BY <2>1, <2>2
<1>2. ~Quiet
  BY <1>1 DEF Quiet, Alive
<1> QED
  BY <1>1, <1>2 DEF Opening

LEMMA RunsAreFaithful ==
  ASSUME Faithful, NEW r \in Run, RunTask(r)
  PROVE  Faithful'
<1>0. Typed /\ Told /\ Bookkeeping /\ Opening
  BY DEF Faithful
<1>1. Typed'
  BY <1>0, RunsAreTyped
<1>2. Told'
  BY <1>0 DEF Told, RunTask, Counts, Reports, CanaryPasses, CanaryFails, Finishes, RunOnly, database
<1>3. Bookkeeping'
  <2>1. ASSUME NEW q \in Run, q # r
        PROVE  run'[q] = run[q] /\ worker'[q] = worker[q]
    BY <1>0, <2>1 DEF Typed, TypeOK, RunTask, Counts, Reports, CanaryPasses, CanaryFails, Finishes, Goto
  <2>2. /\ ~Alive(r)' => \A i \in Item : worker'[r][i] = "none"
        /\ run'[r].view # "none" => run'[r].pc \in {"opening", "opening_all", "closing"}
    <3>1. run[r] \in [pc : {"unused", "opening", "opening_all", "canary", "others",
                           "stopping", "closing", "done"},
                     view : Status, token : BOOLEAN]
      BY <1>0 DEF Typed, TypeOK, Status
    <3>2. CASE Counts(r)
      <4>1. run' = [run EXCEPT ![r].view = StatusOfRows] /\ worker' = worker
        BY <3>2 DEF Counts
      <4>2. run'[r].pc = run[r].pc /\ run[r].pc \in {"opening", "opening_all", "closing"}
        BY <1>0, <3>1, <3>2, <4>1 DEF Counts, Typed, TypeOK
      <4> QED
        BY <4>1, <4>2 DEF Alive
    <3>3. CASE CanaryPasses(r) \/ CanaryFails(r) \/ Finishes(r)
      <4>1. PICK pc \in {"others", "stopping", "closing"} :
              run' = [run EXCEPT ![r].pc = pc, ![r].view = "none"]
        BY <3>3 DEF CanaryPasses, CanaryFails, Finishes, Goto
      <4>2. run'[r].pc = pc /\ run'[r].view = "none"
        BY <1>0, <3>1, <4>1 DEF Typed, TypeOK
      <4> QED
        BY <4>2 DEF Alive
    <3>4. CASE Reports(r)
      <4>1. run' = [run EXCEPT ![r].pc = AfterReport(run[r].pc), ![r].view = "none"]
        BY <3>4 DEF Reports, Goto
      <4>2. run'[r].pc = AfterReport(run[r].pc) /\ run'[r].view = "none"
        BY <1>0, <3>1, <4>1 DEF Typed, TypeOK
      <4>3. run[r].pc \in {"opening", "opening_all", "closing"}
        BY <1>0, <3>4 DEF Reports, Bookkeeping
      <4>4. CASE run[r].pc = "closing"
        BY <1>0, <3>4, <4>2, <4>4 DEF Reports, Typed, TypeOK
      <4>5. CASE run[r].pc # "closing"
        BY <4>2, <4>3, <4>5 DEF AfterReport, Alive
      <4> QED
        BY <4>4, <4>5
    <3> QED
      BY <3>2, <3>3, <3>4 DEF RunTask
  <2> QED
    BY <1>0, <2>1, <2>2 DEF Bookkeeping, Alive
<1>4. Opening'
  <2>1. request' = request /\ up' = up
    BY DEF RunTask, Counts, Reports, CanaryPasses, CanaryFails, Finishes, RunOnly
  <2>2. status' # "none" /\ request.kind \notin {"create", "name"}
    BY <1>0, RunsAfterOpening DEF RunTask, Counts, Reports, CanaryPasses, CanaryFails, Finishes, database
  <2> QED
    BY <1>0, <2>1, <2>2 DEF Opening
<1> QED
  BY <1>1, <1>2, <1>3, <1>4 DEF Faithful

LEMMA WorkersAreFaithful ==
  ASSUME Faithful, NEW r \in Run, NEW i \in Item, Execute(r, i)
  PROVE  Faithful'
<1>0. Typed /\ Told /\ Bookkeeping /\ Opening
  BY DEF Faithful
<1>1. Typed'
  BY <1>0, WorkersAreTyped
<1>2. Told'
  <2>1. \A j \in Item, k \in Key : op[j][k] \in Outcome => op'[j][k] = op[j][k]
    BY <1>0, OutcomesLast DEF Next
  <2>2. /\ copy[r][i] \in Row /\ Elsewhere(r, i)
        /\ \/ Advances(r, i) \/ Begun(r, i) \/ Records(r, i)
           \/ Concludes(r, i) \/ Abandons(r, i)
    BY <1>0, Moves
  <2>3. copy[r][i].key \in Key /\ Confirms(op[i], copy[r][i])
    BY <1>0, <2>2, AbsentAssumption DEF Told, Row
  <2>4. Confirms(op'[i], copy[r][i])
    BY <2>1, <2>3 DEF Confirms, Outcome, Over
  <2>5. row'[i] \in {row[i], Absent} \/ Confirms(op'[i], row'[i])
    <3>1. CASE Records(r, i)
      BY <2>4, <3>1 DEF Records, Wrote
    <3>2. CASE Concludes(r, i)
      <4>1. Confirms(op'[i], Seen(copy[r][i], Before(r, i)))
        BY <2>2, <3>2 DEF Concludes, Confirms, Seen, Before, StageOf, Row
      <4> QED
        BY <3>2, <4>1 DEF Concludes, Wrote
    <3>3. CASE Abandons(r, i)
      <4>1. Confirms(op'[i], [copy[r][i] EXCEPT !.stage = "failed", !.result = "failed"])
        BY <2>2 DEF Confirms, Row
      <4> QED
        BY <3>3, <4>1 DEF Abandons, Wrote
    <3> QED
      BY <2>2, <3>1, <3>2, <3>3 DEF Advances, Begun
  <2>6. copy'[r][i] \in {copy[r][i], Absent} \/ Confirms(op'[i], copy'[r][i])
    <3>1. CASE Begun(r, i)
      BY <2>2, <2>4, <3>1 DEF Begun, Confirms, After, StageOf, Row
    <3> QED
      BY <2>2, <3>1 DEF Advances, Records, Concludes, Abandons
  <2>7. \A j \in Item : row'[j] \in {row[j], Absent} \/ Confirms(op'[j], row'[j])
    BY <2>2, <2>5 DEF Elsewhere
  <2>8. \A q \in Run, j \in Item :
          copy'[q][j] \in {copy[q][j], Absent} \/ Confirms(op'[j], copy'[q][j])
    BY <2>2, <2>6 DEF Elsewhere
  <2> QED
    BY <1>0, <2>1, <2>7, <2>8, ToldStays
<1>3. Bookkeeping'
  <2>1. Alive(r) /\ Elsewhere(r, i)
    BY <1>0, RunsAfterOpening, Moves
  <2> QED
    BY <1>0, <2>1 DEF Bookkeeping, Alive, Elsewhere
<1>4. Opening'
  <2>1. status # "none" /\ request.kind \notin {"create", "name"} /\ Elsewhere(r, i)
    BY <1>0, RunsAfterOpening, Moves
  <2> QED
    BY <1>0, <2>1 DEF Opening, Elsewhere
<1> QED
  BY <1>1, <1>2, <1>3, <1>4 DEF Faithful

(* A launch keeps the books, and its goroutines know the table.            *)
LEMMA LaunchedIsFaithful ==
  ASSUME Typed, Told, Bookkeeping, op' = op,
         NEW items \in SUBSET Item, NEW table,
         \A i \in items : Confirms(op[i], table[i]),
         NEW gated \in BOOLEAN, NEW token \in BOOLEAN,
         Launch(items, table, gated, token)
  PROVE  /\ Bookkeeping'
         /\ \A r \in Run, i \in Item :
              copy'[r][i] \in {copy[r][i], Absent} \/ Confirms(op'[i], copy'[r][i])
<1>1. Goroutines
  BY Parts
<1>2. Bookkeeping'
  <2>1. ASSUME NEW r \in Run
        PROVE  /\ ~Alive(r)' => \A i \in Item : worker'[r][i] = "none"
               /\ run'[r].view # "none" => run'[r].pc \in {"opening", "opening_all", "closing"}
    <3>1. CASE r = NewRun
      <4>1. run'[r].pc \in {"opening", "opening_all"} /\ run'[r].view = "none"
        BY <1>1, <3>1, Launched
      <4> QED
        BY <4>1 DEF Alive
    <3>2. CASE r # NewRun
      <4>1. run'[r] = run[r] /\ worker'[r] = worker[r]
        BY <1>1, <3>2, Launched
      <4> QED
        BY <4>1 DEF Bookkeeping, Alive
    <3> QED
      BY <3>1, <3>2
  <2> QED
    BY <2>1 DEF Bookkeeping
<1>3. ASSUME NEW r \in Run, NEW i \in Item
      PROVE  copy'[r][i] \in {copy[r][i], Absent} \/ Confirms(op'[i], copy'[r][i])
  <2>1. CASE r = NewRun
    <3>1. copy'[r][i] = IF i \in items THEN table[i] ELSE Absent
      BY <1>1, <2>1, Launched
    <3> QED
      BY <3>1
  <2>2. CASE r # NewRun
    BY <1>1, <2>2, Launched
  <2> QED
    BY <2>1, <2>2
<1> QED
  BY <1>2, <1>3

LEMMA RequestsAreFaithful ==
  ASSUME Faithful,
         \/ CreateAsks \/ CreateCommits \/ CreateLaunches \/ RequestRefused \/ RetryCommits
         \/ \E i \in Item : CreateNames(i)
         \/ \E items \in SUBSET Item : RetryAsks(items)
  PROVE  Faithful'
<1>0. Typed /\ Told /\ Bookkeeping /\ Opening
  BY DEF Faithful
<1>1. Typed'
  BY <1>0, RequestsAreTyped
<1>2. UNCHANGED <<up, server, op>>
  BY DEF CreateAsks, CreateCommits, CreateLaunches, RequestRefused, RetryCommits,
         CreateNames, RetryAsks, RequestOnly
<1>3. CASE CreateAsks \/ RequestRefused \/ \E items \in SUBSET Item : RetryAsks(items)
  <2>1. UNCHANGED <<run, worker, copy, row, status>>
    BY <1>3 DEF CreateAsks, RequestRefused, RetryAsks, goroutines, database
  <2>2. Told' /\ Bookkeeping'
    BY <1>0, <1>2, <2>1 DEF Told, Bookkeeping, Alive
  <2>3. \/ status = "none" /\ request' = [kind |-> "create", items |-> Item] /\ up
        \/ request'.kind = "none"
        \/ request'.kind = "retry" /\ up
    BY <1>3 DEF CreateAsks, RequestRefused, RetryAsks, Idle
  <2>4. Opening'
    <3>1. /\ status' = "none" => Quiet' /\ Untouched' /\ \A i \in Item : row'[i] = Absent
      BY <1>0, <1>2, <2>1 DEF Opening, Quiet, Untouched
    <3>2. CASE status = "none" /\ request' = [kind |-> "create", items |-> Item] /\ up
      BY <1>2, <2>1, <3>1, <3>2 DEF Opening
    <3>3. CASE request'.kind = "none" \/ (request'.kind = "retry" /\ up)
      BY <1>2, <3>1, <3>3 DEF Opening
    <3> QED
      BY <2>3, <3>2, <3>3
  <2> QED
    BY <1>1, <2>2, <2>4 DEF Faithful
<1>4. CASE CreateCommits
  <2> DEFINE fresh == [stage |-> "queued", result |-> "", attempt |-> 1, key |-> 0, op |-> FALSE]
  <2>1. row' = [i \in Item |-> fresh] /\ UNCHANGED <<run, worker, copy>>
    BY <1>4 DEF CreateCommits, goroutines
  <2>2. \A i \in Item : row'[i] = fresh
    BY <2>1
  <2>3. Told'
    BY <1>0, <1>2, <2>1, <2>2 DEF Told, Confirms
  <2>4. Bookkeeping'
    BY <1>0, <2>1 DEF Bookkeeping, Alive
  <2>5. /\ Quiet /\ Untouched /\ request.items = Item /\ status' = "queued" /\ Registered(Item)
        /\ request'.items = request.items /\ request'.kind = "name" /\ up
    <3>1. request.kind = "create" /\ Registered(Item) /\ status' = "queued"
          /\ request' = [request EXCEPT !.kind = "name"]
      BY <1>4 DEF CreateCommits
    <3>2. request \in [kind : {"none", "create", "name", "retry"}, items : SUBSET Item]
      BY <1>0 DEF Typed, TypeOK
    <3>3. request'.items = request.items /\ request'.kind = "name"
      BY <3>1, <3>2
    <3>4. Quiet /\ Untouched /\ request.items = Item /\ up
      BY <1>0, <3>1 DEF Opening
    <3> QED
      BY <3>1, <3>3, <3>4
  <2>6. Quiet' /\ Untouched' /\ Registered(Item)'
    BY <1>2, <2>1, <2>5 DEF Quiet, Untouched, Registered
  <2>7. \A i \in Item : /\ row'[i].stage = "queued" /\ row'[i].result = "" /\ row'[i].attempt = 1
                        /\ i \in request'.items
    <3>1. request'.items = Item
      BY <2>5
    <3>2. fresh.stage = "queued" /\ fresh.result = "" /\ fresh.attempt = 1
      OBVIOUS
    <3> HIDE DEF fresh
    <3>3. \A i \in Item : row'[i].stage = "queued" /\ row'[i].result = "" /\ row'[i].attempt = 1
      BY <2>2, <3>2
    <3> QED
      BY <3>1, <3>3
  <2>8. Opening'
    BY <1>2, <2>5, <2>6, <2>7 DEF Opening
  <2> QED
    BY <1>1, <2>3, <2>4, <2>8 DEF Faithful
<1>5. CASE CreateLaunches
  <2> DEFINE gated == Canary # NoNode
             all == Item
             table == row
  <2>1. /\ Launch(all, table, gated, TRUE) /\ UNCHANGED <<row, status>> /\ request' = Idle
        /\ gated \in BOOLEAN /\ all \in SUBSET Item
    BY <1>5 DEF CreateLaunches, database
  <2>2. \A i \in Item : row[i] # Absent
    BY <1>0, <1>5 DEF CreateLaunches, Typed, Named
  <2>3. \A i \in all : Confirms(op[i], table[i])
    BY <1>0, <2>2 DEF Told
  <2> HIDE DEF gated, all, table
  <2>4. /\ Bookkeeping'
        /\ \A r \in Run, i \in Item :
             copy'[r][i] \in {copy[r][i], Absent} \/ Confirms(op'[i], copy'[r][i])
    BY <1>0, <1>2, <2>1, <2>3, LaunchedIsFaithful
  <2>5. Told'
    BY <1>0, <1>2, <2>1, <2>4, ToldStays
  <2>6. Opening'
    <3>1. status' # "none" /\ request'.kind = "none"
      <4>1. request.kind = "name"
        BY <1>5 DEF CreateLaunches
      <4>2. request'.kind = "none"
        BY <2>1 DEF Idle
      <4>3. status # "none"
        BY <1>0, <4>1 DEF Opening
      <4> QED
        BY <2>1, <4>2, <4>3
    <3> QED
      BY <1>2, <3>1 DEF Opening
  <2> QED
    BY <1>1, <2>4, <2>5, <2>6 DEF Faithful
<1>6. CASE RetryCommits
  <2> DEFINE again == {i \in request.items \cap Rows : Failed(i)}
             table == [i \in Item |-> IF i \in again THEN Again(row[i]) ELSE row[i]]
  <2>1. row' = table /\ status' = "queued" /\ Launch(again, table, FALSE, TRUE) /\ request' = Idle
    BY <1>6 DEF RetryCommits
  <2>2. again \in SUBSET Item /\ \A i \in again : table[i] = Again(row[i])
    BY DEF Rows
  <2>3. \A i \in Item : row'[i] = IF i \in again THEN Again(row[i]) ELSE row[i]
    BY <2>1
  <2> HIDE DEF again, table
  <2>4. \A i \in Item : Confirms(op[i], Again(row[i]))
    BY DEF Confirms, Again
  <2>5. \A i \in again : Confirms(op[i], table[i])
    BY <2>2, <2>4
  <2>6. /\ Bookkeeping'
        /\ \A r \in Run, i \in Item :
             copy'[r][i] \in {copy[r][i], Absent} \/ Confirms(op'[i], copy'[r][i])
    BY <1>0, <1>2, <2>1, <2>2, <2>5, LaunchedIsFaithful
  <2>7. Told'
    BY <1>0, <1>2, <2>3, <2>4, <2>6, ToldStays
  <2>8. Opening'
    BY <1>2, <2>1 DEF Opening, Idle
  <2> QED
    BY <1>1, <2>6, <2>7, <2>8 DEF Faithful
<1>7. ASSUME NEW i \in Item, CreateNames(i) PROVE Faithful'
  <2>1. UNCHANGED <<run, worker, copy, status>> /\ request.kind = "name" /\ i \in request.items
    BY <1>7 DEF CreateNames, goroutines
  <2>2. \/ row' = [row EXCEPT ![i].key = 1] /\ request' = [request EXCEPT !.items = @ \ {i}]
        \/ row' = row /\ request' = Idle
    BY <1>7 DEF CreateNames
  <2>3. row[i] \in Row
    BY <1>0, <2>1 DEF Typed, TypeOK, Named
  <2>4. ASSUME NEW j \in Item
        PROVE  /\ row'[j].stage = row[j].stage /\ row'[j].result = row[j].result
               /\ row'[j].attempt = row[j].attempt
               /\ row'[j].key = row[j].key \/ (j = i /\ row'[j].key = 1)
               /\ j # i => row'[j] = row[j]
    <3>1. CASE row' = row
      BY <3>1
    <3>2. CASE row' = [row EXCEPT ![i].key = 1]
      <4>1. row' = [row EXCEPT ![i] = [row[i] EXCEPT !.key = 1]]
        BY <3>2
      <4>2. row'[j] = IF j = i THEN [row[i] EXCEPT !.key = 1] ELSE row[j]
        BY <1>0, <4>1 DEF Typed, TypeOK
      <4> QED
        BY <2>3, <4>2 DEF Row
    <3> QED
      BY <2>2, <3>1, <3>2
  <2>5. row'[i].stage = "queued" /\ row'[i].result = ""
    BY <1>0, <2>1, <2>4 DEF Opening
  <2>6. Confirms(op'[i], row'[i])
    BY <2>5 DEF Confirms
  <2>7. Told'
    BY <1>0, <1>2, <2>1, <2>4, <2>6, ToldStays
  <2>8. Bookkeeping'
    BY <1>0, <2>1 DEF Bookkeeping, Alive
  <2>9. Opening'
    <3>1. CASE request' = Idle
      BY <1>0, <1>2, <2>1, <3>1 DEF Opening, Idle
    <3>2. CASE row' = [row EXCEPT ![i].key = 1] /\ request' = [request EXCEPT !.items = @ \ {i}]
      <4>1. request'.kind = "name" /\ request'.items = request.items \ {i}
        BY <1>0, <2>1, <3>2 DEF Typed, TypeOK
      <4>2. row'[i].key = 1
        BY <1>0, <2>3, <3>2 DEF Typed, TypeOK, Row
      <4>3. Quiet' /\ Untouched' /\ Registered(Item)' /\ status' # "none" /\ up
        BY <1>0, <1>2, <2>1 DEF Opening, Quiet, Untouched, Registered
      <4>4. \A j \in Item : /\ row'[j].stage = "queued" /\ row'[j].result = "" /\ row'[j].attempt = 1
                            /\ j \notin request'.items => row'[j].key = 1
        BY <1>0, <2>1, <2>4, <4>1, <4>2 DEF Opening
      <4> QED
        BY <1>2, <4>1, <4>3, <4>4 DEF Opening
    <3> QED
      BY <2>2, <3>1, <3>2
  <2> QED
    BY <1>1, <2>7, <2>8, <2>9 DEF Faithful
<1> QED
  BY <1>3, <1>4, <1>5, <1>6, <1>7

LEMMA OthersAreFaithful ==
  ASSUME Faithful,
         \/ \E i \in Item, k \in Key : Settles(i, k)
         \/ \E n \in Node : \/ BeginNodeServerRemoval(n) \/ CancelUnstartedNodeServerRemoval(n)
                           \/ CompleteNodeServerRemoval(n) \/ DeleteNodeServerRecords(n),
         Typed'
  PROVE  Faithful'
<1>0. Typed /\ Told /\ Bookkeeping /\ Opening
  BY DEF Faithful
<1>1. \A i \in Item, k \in Key : op[i][k] \in Outcome => op'[i][k] = op[i][k]
  BY <1>0, OutcomesLast DEF Next
<1>2. UNCHANGED <<up, request, run, worker, copy>>
  BY DEF Settles, goroutines, RegistryOnly, BeginNodeServerRemoval,
         CancelUnstartedNodeServerRemoval, CompleteNodeServerRemoval, DeleteNodeServerRecords
<1>3. \/ UNCHANGED <<row, status>>
      \/ /\ request.kind # "name"
         /\ \A i \in Item : row'[i] \in {row[i], Absent}
         /\ status' = status \/ (status # "none" /\ status' = "deleted")
  BY DEF Settles, database, ClearHistory, BeginNodeServerRemoval,
         CancelUnstartedNodeServerRemoval, CompleteNodeServerRemoval, DeleteNodeServerRecords
<1>4. Told'
  <2>1. \A i \in Item : row'[i] \in {row[i], Absent}
    BY <1>3
  <2> QED
    BY <1>0, <1>1, <1>2, <2>1, ToldStays
<1>5. Bookkeeping'
  BY <1>0, <1>2 DEF Bookkeeping, Alive
<1>6. Untouched => op' = op
  BY DEF Untouched, Settles, RegistryOnly, BeginNodeServerRemoval,
         CancelUnstartedNodeServerRemoval, CompleteNodeServerRemoval, DeleteNodeServerRecords
<1>7. request.kind = "name" => Untouched /\ server' = server
  <2>1. request.kind = "name" => request # Idle
    BY DEF Idle
  <2> QED
    BY <1>0, <2>1 DEF Opening, BeginNodeServerRemoval, CancelUnstartedNodeServerRemoval,
                      CompleteNodeServerRemoval, DeleteNodeServerRecords, Settles
<1>8. Opening'
  <2>1. status' = "none" => Quiet' /\ Untouched' /\ \A i \in Item : row'[i] = Absent
    BY <1>0, <1>2, <1>3, <1>6 DEF Opening, Quiet, Untouched
  <2>2. ~up' => request'.kind = "none"
    BY <1>0, <1>2 DEF Opening
  <2>3. request'.kind = "create" => status' = "none" /\ request'.items = Item
    BY <1>0, <1>2, <1>3 DEF Opening
  <2>4. ASSUME request'.kind = "name"
        PROVE  /\ Quiet' /\ Untouched' /\ status' # "none" /\ Registered(Item)'
               /\ \A i \in Item : /\ row'[i].stage = "queued" /\ row'[i].result = "" /\ row'[i].attempt = 1
                                  /\ i \notin request'.items => row'[i].key = 1
    <3>1. UNCHANGED <<row, status, server, op>>
      BY <1>2, <1>3, <1>6, <1>7, <2>4
    <3> QED
      BY <1>0, <1>2, <2>4, <3>1 DEF Opening, Quiet, Untouched, Registered
  <2> QED
    BY <2>1, <2>2, <2>3, <2>4 DEF Opening
<1> QED
  BY <1>4, <1>5, <1>8 DEF Faithful

LEMMA RestartsAreFaithful ==
  ASSUME Faithful, Crash \/ RecoverKernelTasks
  PROVE  Faithful'
<1>0. Typed /\ Told /\ Bookkeeping /\ Opening
  BY DEF Faithful
<1>1. Typed'
  BY <1>0, RestartsAreTyped
<1>2. CASE Crash
  <2>1. /\ \A r \in Run : run'[r] = Unused
        /\ \A r \in Run, i \in Item : worker'[r][i] = "none" /\ copy'[r][i] = Absent
        /\ UNCHANGED <<row, status, op>> /\ request' = Idle
    BY <1>2 DEF Crash, database
  <2>2. Told'
    BY <1>0, <2>1, ToldStays
  <2>3. Bookkeeping'
    BY <2>1 DEF Bookkeeping, Unused
  <2>4. Opening'
    <3>1. request'.kind = "none"
      BY <2>1 DEF Idle
    <3>2. Quiet'
      BY <2>1 DEF Quiet, Unused
    <3> QED
      BY <1>0, <2>1, <3>1, <3>2 DEF Opening, Untouched
  <2> QED
    BY <1>1, <2>2, <2>3, <2>4 DEF Faithful
<1>3. CASE RecoverKernelTasks
  <2>1. /\ row' = [i \in Item |-> Interrupted(row[i])] /\ UNCHANGED <<status, request, op>>
        /\ request.kind = "none"
    BY <1>0, <1>3 DEF RecoverKernelTasks, Opening
  <2>2. ASSUME NEW i \in Item
        PROVE  row'[i] \in {row[i], Absent} \/ Confirms(op'[i], row'[i])
    <3>1. row'[i] = Interrupted(row[i])
      BY <2>1
    <3>2. CASE row[i] = Absent
      BY <3>1, <3>2 DEF Interrupted
    <3>3. CASE row[i] # Absent
      <4>1. row[i] \in Row
        BY <1>0, <3>3 DEF Typed, TypeOK
      <4>2. Confirms(op'[i], [row[i] EXCEPT !.stage = "failed", !.result = "failed"])
        BY <4>1 DEF Confirms, Row
      <4> QED
        BY <3>1, <4>2 DEF Interrupted
    <3> QED
      BY <3>2, <3>3
  <2> DEFINE again == Unfinished(row')
  <2>3. ASSUME NEW i \in DOMAIN again PROVE Confirms(op'[i], again[i]) /\ i \in Item /\ row'[i] # Absent
    <3>1. i \in Item /\ again[i] = row'[i] /\ row'[i] # Absent
      BY DEF Unfinished
    <3>2. Confirms(op[i], row[i]) \/ row[i] = Absent
      BY <1>0, <3>1 DEF Told
    <3> QED
      BY <2>1, <2>2, <3>1, <3>2
  <2>4. UNCHANGED goroutines \/ (DOMAIN again # {} /\ Launch(DOMAIN again, again, FALSE, FALSE))
    BY <1>3 DEF RecoverKernelTasks
  <2>5. DOMAIN again \in SUBSET Item /\ \A i \in DOMAIN again : Confirms(op[i], again[i])
    BY <2>1, <2>3
  <2> HIDE DEF again
  <2>6. /\ Bookkeeping'
        /\ \A r \in Run, i \in Item :
             copy'[r][i] \in {copy[r][i], Absent} \/ Confirms(op'[i], copy'[r][i])
    <3>1. CASE UNCHANGED goroutines
      BY <1>0, <3>1 DEF goroutines, Bookkeeping, Alive
    <3>2. CASE Launch(DOMAIN again, again, FALSE, FALSE)
      BY <1>0, <2>1, <2>5, <3>2, LaunchedIsFaithful
    <3> QED
      BY <2>4, <3>1, <3>2
  <2>7. Told'
    BY <1>0, <2>1, <2>2, <2>6, ToldStays
  <2>8. Opening'
    <3>1. ASSUME status = "none"
          PROVE  Quiet' /\ Untouched' /\ \A i \in Item : row'[i] = Absent
      <4>1. \A i \in Item : row'[i] = Absent
        BY <1>0, <2>1, <3>1 DEF Opening, Interrupted
      <4>2. UNCHANGED goroutines
        BY <2>3, <2>4, <2>5, <4>1
      <4> QED
        BY <1>0, <2>1, <3>1, <4>1, <4>2 DEF Opening, Quiet, Untouched, goroutines
    <3> QED
      BY <2>1, <3>1 DEF Opening
  <2> QED
    BY <1>1, <2>6, <2>7, <2>8 DEF Faithful
<1> QED
  BY <1>2, <1>3

LEMMA FaithfulInvariant == Spec => []Faithful
<1>1. Init => Faithful
  BY InitFaithful
<1>2. Faithful /\ [Next]_vars => Faithful'
  <2> SUFFICES ASSUME Faithful, [Next]_vars PROVE Faithful'
    OBVIOUS
  <2>1. CASE UNCHANGED vars
    <3>1. Told' /\ Bookkeeping' /\ Opening'
      BY <2>1 DEF Faithful, Told, Bookkeeping, Alive, Opening, Quiet, Untouched, Registered, vars
    <3>2. Typed'
      BY <2>1, TypedStays DEF Faithful
    <3> QED
      BY <3>1, <3>2 DEF Faithful
  <2>2. Typed'
    <3>1. Typed
      BY DEF Faithful
    <3> QED
      BY <3>1, TypedStays
  <2> QED
    BY <2>1, <2>2, RequestsAreFaithful, RunsAreFaithful, WorkersAreFaithful, OthersAreFaithful,
       RestartsAreFaithful DEF Next
<1> QED
  BY <1>1, <1>2, PTL DEF Spec

(* Whatever runs, retries and restarts cross, whichever writes and answers *)
(* are lost and whenever the panel stops looking (kernel_upgrade.go,       *)
(* executeKernelTaskItem): a row that claims success, or a version that    *)
(* was put back, claims what the operation of its key did on the node.     *)
THEOREM ResultsAreTrue == Spec => []ResultIsTheOperations
<1>1. Faithful => ResultIsTheOperations
  BY DEF Faithful, Told, Confirms, ResultIsTheOperations, Rows
<1> QED
  BY <1>1, FaithfulInvariant, PTL

-----------------------------------------------------------------------------
(* What a task keeps as long as the panel does not restart.                *)

\* The node has not been asked to start the operation yet.
Waits(r, i) == worker[r][i] \in {"todo", "waiting", "locked", "asked"}

(* An item that a goroutine works on has a row without a result (or none,  *)
(* its node being gone), of the attempt that the goroutine knows, whose    *)
(* operation nobody has started before.                                    *)
Current(r, i) ==
  /\ copy[r][i].result = "" /\ copy[r][i].stage \in {"queued", "active"}
  /\ copy[r][i].key = copy[r][i].attempt
  /\ server[NodeOf[i]] # "removing"
  /\ row[i] # Absent => /\ row[i].result = "" /\ row[i].stage \in {"queued", "active"}
                        /\ row[i].attempt = copy[r][i].attempt
  /\ Waits(r, i) => Before(r, i) = "none"

Alone(r, i) == \A q \in Run : q # r => ~Working(q, i)

(* No operation is ahead of its row's attempt, and only rows of nodes that *)
(* are gone have disappeared.                                              *)
Numbered ==
  \A i \in Item : row[i] # Absent =>
    \A k \in Key : op[i][k] # "none" => k <= row[i].attempt

Dropped == \A i \in Item : status # "none" /\ row[i] = Absent => server[NodeOf[i]] = "gone"

Undisturbed ==
  restarts = 0 =>
    /\ up
    /\ \A r \in Run, i \in Item : Working(r, i) => Current(r, i) /\ Alone(r, i)
    /\ Numbered /\ Dropped

LEMMA NothingWorksAtFirst ==
  ASSUME Typed, Bookkeeping, Quiet
  PROVE  \A r \in Run, i \in Item : ~Working(r, i)
  BY DEF Bookkeeping, Quiet, Alive, Working, Busy, Holding

LEMMA WorkersAreUndisturbed ==
  ASSUME Faithful, Undisturbed, restarts = 0, NEW r \in Run, NEW i \in Item, Execute(r, i)
  PROVE  Undisturbed'
<1>0. Typed /\ up /\ Numbered /\ Dropped
      /\ \A q \in Run, j \in Item : Working(q, j) => Current(q, j) /\ Alone(q, j)
  BY DEF Faithful, Undisturbed
<1>1. /\ Working(r, i) /\ copy[r][i] \in Row /\ Elsewhere(r, i)
      /\ \/ Advances(r, i) \/ Begun(r, i) \/ Records(r, i)
         \/ Concludes(r, i) \/ Abandons(r, i)
  BY <1>0, Moves
<1>2. Current(r, i) /\ Alone(r, i)
  BY <1>0, <1>1
<1>3. row'[i] # row[i] =>
        /\ row[i] # Absent /\ row'[i] # Absent /\ row'[i].attempt = row[i].attempt
        /\ worker'[r][i] = "polling" => row'[i].result = "" /\ row'[i].stage \in {"queued", "active"}
  <2>1. CASE Records(r, i)
    <3>1. row'[i] = row[i] \/ (row[i] # Absent /\ row'[i] = copy[r][i])
      BY <2>1 DEF Records, Wrote
    <3> QED
      BY <1>1, <1>2, <3>1, AbsentAssumption DEF Current
  <2>2. CASE Concludes(r, i)
    <3> DEFINE item == Seen(copy[r][i], Before(r, i))
    <3>1. item \in Row /\ item.attempt = copy[r][i].attempt
      <4>1. item \in Row
        BY <1>1, <2>2, Changed DEF Concludes, Seen, StageOf, Outcome, Over
      <4>2. item.attempt = copy[r][i].attempt
        BY <1>1 DEF Seen, Row
      <4> QED
        BY <4>1, <4>2
    <3>2. worker'[r][i] # "polling"
      BY <2>2 DEF Concludes
    <3>3. row'[i] = row[i] \/ (row[i] # Absent /\ row'[i] = item)
      BY <2>2 DEF Concludes, Wrote
    <3> HIDE DEF item
    <3> QED
      BY <1>2, <3>1, <3>2, <3>3, AbsentAssumption DEF Current
  <2>3. CASE Abandons(r, i)
    <3> DEFINE item == [copy[r][i] EXCEPT !.stage = "failed", !.result = "failed"]
    <3>1. item \in Row /\ item.attempt = copy[r][i].attempt
      BY <1>1, Changed DEF Over, Row
    <3>2. worker'[r][i] # "polling"
      BY <2>3 DEF Abandons
    <3>3. row'[i] = row[i] \/ (row[i] # Absent /\ row'[i] = item)
      BY <2>3 DEF Abandons, Wrote
    <3> HIDE DEF item
    <3> QED
      BY <1>2, <3>1, <3>2, <3>3, AbsentAssumption DEF Current
  <2> QED
    BY <1>1, <2>1, <2>2, <2>3 DEF Advances, Begun
<1>4. \A q \in Run, j \in Item : Working(q, j)' => Working(q, j)
  BY <1>1 DEF Working, Elsewhere
<1>5. ASSUME NEW q \in Run, NEW j \in Item, Working(q, j)' PROVE Alone(q, j)'
  BY <1>0, <1>4, <1>5 DEF Alone
<1>6. ASSUME Working(r, i)' PROVE Current(r, i)'
  <2>1. /\ copy'[r][i].result = copy[r][i].result /\ copy'[r][i].key = copy[r][i].key
        /\ copy'[r][i].attempt = copy[r][i].attempt
        /\ Begun(r, i) \/ copy'[r][i] = copy[r][i]
    <3>1. Begun(r, i) \/ copy'[r][i] = copy[r][i]
      BY <1>1, <1>6 DEF Advances, Records, Concludes, Abandons, Working, Busy, Holding
    <3>2. CASE Begun(r, i)
      BY <1>1, <3>2 DEF Begun, Row
    <3> QED
      BY <3>1, <3>2
  <2>2. copy'[r][i].stage \in {"queued", "active"}
    <3>1. CASE Begun(r, i)
      <4>1. Before(r, i) = "none"
        BY <1>2, <3>1 DEF Begun, Admitted, Current, Waits
      <4>2. After(r, i) = "active"
        BY <3>1, <4>1 DEF Begun, Admitted
      <4> QED
        BY <1>1, <3>1, <4>2 DEF Begun, StageOf, Row
    <3> QED
      BY <1>2, <2>1, <3>1 DEF Current
  <2>3. Waits(r, i)' => Waits(r, i) /\ op' = op
    BY <1>1, <1>6 DEF Advances, Begun, Records, Concludes, Abandons, Waits
  <2>4. server' = server
    BY <1>1 DEF Elsewhere
  <2>5. row'[i] # Absent => /\ row'[i].result = "" /\ row'[i].stage \in {"queued", "active"}
                            /\ row'[i].attempt = copy'[r][i].attempt
    <3>1. CASE row'[i] = row[i]
      BY <1>2, <2>1, <3>1 DEF Current
    <3>2. CASE row'[i] # row[i]
      <4>1. worker'[r][i] = "polling"
        BY <1>1, <1>6, <3>2 DEF Advances, Begun, Records, Concludes, Abandons, Working, Busy, Holding
      <4> QED
        BY <1>2, <1>3, <2>1, <3>2, <4>1 DEF Current
    <3> QED
      BY <3>1, <3>2
  <2>6. Waits(r, i)' => Before(r, i)' = "none"
    BY <1>2, <2>1, <2>3 DEF Before, Current
  <2> QED
    BY <1>2, <2>1, <2>2, <2>4, <2>5, <2>6 DEF Current
<1>7. ASSUME NEW q \in Run, NEW j \in Item, Working(q, j)', q # r \/ j # i PROVE Current(q, j)'
  <2>1. j # i
    BY <1>2, <1>4, <1>7 DEF Alone
  <2>2. /\ worker'[q][j] = worker[q][j] /\ copy'[q][j] = copy[q][j] /\ row'[j] = row[j]
        /\ op'[j] = op[j] /\ server' = server
    BY <1>1, <2>1 DEF Elsewhere
  <2>3. Current(q, j)
    BY <1>0, <1>4, <1>7
  <2> QED
    BY <2>2, <2>3 DEF Current, Waits, Before
<1>8. Numbered'
  <2>1. ASSUME NEW j \in Item, row'[j] # Absent, NEW k \in Key, op'[j][k] # "none"
        PROVE  k <= row'[j].attempt
    <3>1. CASE j # i
      BY <1>0, <1>1, <2>1, <3>1 DEF Elsewhere, Numbered
    <3>2. CASE j = i
      <4>1. row[i] # Absent /\ row'[i].attempt = row[i].attempt
        BY <1>3, <2>1, <3>2
      <4>2. CASE k = copy[r][i].key
        <5>1. row[i] \in Row
          BY <1>0, <4>1 DEF Typed, TypeOK
        <5>2. row[i].attempt \in 1..MaxAttempts
          BY <5>1 DEF Row
        <5>3. k = row[i].attempt
          BY <1>2, <4>1, <4>2 DEF Current
        <5> QED
          BY <3>2, <4>1, <5>2, <5>3, Attempts
      <4>3. CASE k # copy[r][i].key
        BY <1>0, <1>1, <2>1, <3>2, <4>1, <4>3 DEF Elsewhere, Numbered
      <4> QED
        BY <4>2, <4>3
    <3> QED
      BY <3>1, <3>2
  <2> QED
    BY <2>1 DEF Numbered
<1>9. Dropped'
  <2>1. ASSUME NEW j \in Item, row'[j] = Absent PROVE row[j] = Absent
    BY <1>1, <1>3, <2>1 DEF Elsewhere
  <2>2. status' = status /\ server' = server
    BY <1>1 DEF Elsewhere
  <2> QED
    BY <1>0, <2>1, <2>2 DEF Dropped
<1>10. up'
  BY <1>0, <1>1 DEF Elsewhere
<1> QED
  BY <1>5, <1>6, <1>7, <1>8, <1>9, <1>10 DEF Undisturbed

LEMMA RequestsAreUndisturbed ==
  ASSUME Faithful, Faithful', Undisturbed, restarts = 0,
         \/ CreateAsks \/ CreateCommits \/ CreateLaunches \/ RequestRefused \/ RetryCommits
         \/ \E i \in Item : CreateNames(i)
         \/ \E items \in SUBSET Item : RetryAsks(items)
  PROVE  Undisturbed'
<1>0. Typed /\ Goroutines /\ Bookkeeping /\ Opening /\ up /\ Numbered /\ Dropped
      /\ \A q \in Run, j \in Item : Working(q, j) => Current(q, j) /\ Alone(q, j)
  BY Parts DEF Faithful, Undisturbed
<1>1. UNCHANGED <<up, server, op>>
  BY DEF CreateAsks, CreateCommits, CreateLaunches, RequestRefused, RetryCommits,
         CreateNames, RetryAsks, RequestOnly
<1>2. CASE CreateAsks \/ RequestRefused \/ \E items \in SUBSET Item : RetryAsks(items)
  <2>1. UNCHANGED <<worker, copy, row, status>>
    BY <1>2 DEF CreateAsks, RequestRefused, RetryAsks, goroutines, database
  <2> QED
    BY <1>0, <1>1, <2>1
    DEF Undisturbed, Working, Current, Alone, Numbered, Dropped, Waits, Before
<1>3. CASE CreateCommits
  <2> DEFINE fresh == [stage |-> "queued", result |-> "", attempt |-> 1, key |-> 0, op |-> FALSE]
  <2>1. row' = [i \in Item |-> fresh] /\ worker' = worker /\ request.kind = "create"
    BY <1>3 DEF CreateCommits, goroutines
  <2>2. fresh # Absent
    <3>1. fresh \in Row
      BY BoundsNatural DEF Row, Key
    <3> QED
      BY <3>1, AbsentAssumption
  <2>3. \A i \in Item : row'[i] # Absent
    BY <2>1, <2>2
  <2>4. Quiet /\ Untouched
    BY <1>0, <2>1 DEF Opening
  <2>5. \A q \in Run, j \in Item : ~Working(q, j)'
    BY <1>0, <2>1, <2>4, NothingWorksAtFirst DEF Working
  <2>6. Numbered' /\ Dropped'
    BY <1>1, <2>3, <2>4 DEF Untouched, Numbered, Dropped
  <2> QED
    BY <1>0, <1>1, <2>5, <2>6 DEF Undisturbed
<1>4. ASSUME NEW i \in Item, CreateNames(i) PROVE Undisturbed'
  <2>1. worker' = worker /\ request.kind = "name" /\ status' = status
    BY <1>4 DEF CreateNames, goroutines
  <2>2. row' = row \/ row' = [row EXCEPT ![i] = [row[i] EXCEPT !.key = 1]]
    BY <1>4 DEF CreateNames
  <2>3. row[i] \in Row /\ \A j \in Item : row[j] # Absent
    BY <1>0, <2>1 DEF Typed, TypeOK, Named
  <2>4. [row[i] EXCEPT !.key = 1] \in Row
    <3>1. 1 \in Key
      BY Attempts DEF Key
    <3> QED
      BY <2>3, <3>1 DEF Row
  <2>5. \A j \in Item : row'[j] # Absent
    BY <1>0, <2>2, <2>3, <2>4, AbsentAssumption DEF Typed, TypeOK
  <2>6. Quiet /\ Untouched
    BY <1>0, <2>1 DEF Opening
  <2>7. \A q \in Run, j \in Item : ~Working(q, j)'
    BY <1>0, <2>1, <2>6, NothingWorksAtFirst DEF Working
  <2>8. Numbered' /\ Dropped'
    BY <1>1, <2>5, <2>6 DEF Untouched, Numbered, Dropped
  <2> QED
    BY <1>0, <1>1, <2>7, <2>8 DEF Undisturbed
<1>5. CASE CreateLaunches
  <2> DEFINE gated == Canary # NoNode
             all == Item
             table == row
  <2>1. /\ Launch(all, table, gated, TRUE) /\ UNCHANGED <<row, status>>
        /\ gated \in BOOLEAN /\ all \in SUBSET Item
    BY <1>5 DEF CreateLaunches, database
  <2>2. request.kind = "name" /\ request.items = {}
    BY <1>5 DEF CreateLaunches
  <2>3. /\ Quiet /\ Untouched /\ Registered(Item)
        /\ \A i \in Item : /\ row[i].stage = "queued" /\ row[i].result = "" /\ row[i].attempt = 1
                           /\ row[i].key = 1
    BY <1>0, <2>2 DEF Opening
  <2>4. \A q \in Run, j \in Item : ~Working(q, j)
    BY <1>0, <2>3, NothingWorksAtFirst
  <2> HIDE DEF gated, all
  <2>5. ASSUME NEW q \in Run, NEW j \in Item, Working(q, j)'
        PROVE  q = NewRun /\ copy'[q][j] = row[j]
    <3> HIDE DEF table
    <3>1. CASE q # NewRun
      <4>1. worker'[q] = worker[q]
        BY <1>0, <2>1, <3>1, Launched
      <4> QED
        BY <2>4, <2>5, <4>1 DEF Working
    <3>2. CASE q = NewRun
      <4>1. worker'[q][j] = IF j \in all THEN "todo" ELSE "none"
        BY <1>0, <2>1, <3>2 DEF Launch, Goroutines
      <4>2. copy'[q][j] = IF j \in all THEN table[j] ELSE Absent
        BY <1>0, <2>1, <3>2 DEF Launch, Goroutines
      <4>3. j \in all
        BY <2>5, <4>1 DEF Working, Busy, Holding
      <4> QED
        BY <3>2, <4>2, <4>3 DEF table
    <3> QED
      BY <3>1, <3>2
  <2>6. ASSUME NEW q \in Run, NEW j \in Item, Working(q, j)'
        PROVE  Current(q, j)' /\ Alone(q, j)'
    <3>1. copy'[q][j] = row[j] /\ row'[j] = row[j]
      BY <2>1, <2>5, <2>6
    <3>2. Alone(q, j)'
      BY <2>5, <2>6 DEF Alone
    <3>3. server'[NodeOf[j]] = "registered"
      BY <1>1, <2>3 DEF Registered
    <3>4. 1 \in Key
      BY Attempts DEF Key
    <3>5. op'[j][copy'[q][j].key] = "none"
      BY <1>1, <2>3, <3>1, <3>4 DEF Untouched
    <3>6. Current(q, j)'
      BY <2>3, <3>1, <3>3, <3>5 DEF Current, Before
    <3> QED
      BY <3>2, <3>6
  <2>7. Numbered' /\ Dropped'
    BY <1>0, <1>1, <2>1 DEF Numbered, Dropped
  <2> QED
    BY <1>0, <1>1, <2>6, <2>7 DEF Undisturbed
<1>6. CASE RetryCommits
  <2> DEFINE again == {i \in request.items \cap Rows : Failed(i)}
             table == [i \in Item |-> IF i \in again THEN Again(row[i]) ELSE row[i]]
  <2>1. /\ row' = table /\ status' = "queued" /\ Launch(again, table, FALSE, TRUE)
        /\ again # {} /\ Registered(again) /\ \A i \in again : row[i].attempt < MaxAttempts
    BY <1>6 DEF RetryCommits
  <2>2. /\ again \in SUBSET Item /\ \A i \in again : table[i] = Again(row[i])
        /\ \A i \in again : row[i] \in Row /\ row[i] # Absent /\ row[i].stage \in {"failed", "rolled_back"}
    BY <1>0 DEF Rows, Typed, TypeOK, Failed
  <2>3. \A i \in Item : row'[i] = IF i \in again THEN Again(row[i]) ELSE row[i]
    BY <2>1
  <2>12. \A i \in again :
           /\ Again(row[i]) \in Row
           /\ Again(row[i]).stage = "queued" /\ Again(row[i]).result = ""
           /\ Again(row[i]).attempt = row[i].attempt + 1 /\ Again(row[i]).key = row[i].attempt + 1
    BY <2>1, <2>2, AgainIsNew
  <2> HIDE DEF again, table
  <2>4. status # "none"
    BY <1>0, <2>1, <2>2 DEF Opening
  <2>5. ASSUME NEW i \in again
        PROVE  /\ row[i].attempt \in Nat /\ row[i].attempt + 1 \in Key
               /\ op[i][row[i].attempt + 1] = "none"
    <3>1. row[i].attempt \in 1..MaxAttempts /\ i \in Item /\ row[i] # Absent
      BY <2>2 DEF Row
    <3>2. row[i].attempt \in Nat /\ row[i].attempt + 1 \in Key
      BY <2>1, <3>1, Attempts DEF Key
    <3>3. ~(row[i].attempt + 1 <= row[i].attempt)
      BY <3>2
    <3> QED
      BY <1>0, <3>1, <3>2, <3>3 DEF Numbered
  <2>6. \A i \in again, q \in Run : ~Working(q, i)
    BY <1>0, <2>2 DEF Current
  <2>7. \A i \in Item : row'[i] = Absent => row[i] = Absent
    BY <2>2, <2>3, <2>12, AbsentAssumption
  <2>8. ASSUME NEW q \in Run, NEW j \in Item, Working(q, j)'
        PROVE  \/ q = NewRun /\ j \in again /\ copy'[q][j] = Again(row[j])
               \/ q # NewRun /\ j \notin again /\ worker'[q][j] = worker[q][j] /\ copy'[q][j] = copy[q][j]
    <3>1. CASE q # NewRun
      <4>1. worker'[q] = worker[q] /\ copy'[q] = copy[q]
        BY <1>0, <2>1, <2>2, <3>1, Launched
      <4> QED
        BY <2>6, <2>8, <3>1, <4>1 DEF Working
    <3>2. CASE q = NewRun
      <4>1. /\ worker'[q][j] = IF j \in again THEN "todo" ELSE "none"
            /\ copy'[q][j] = IF j \in again THEN table[j] ELSE Absent
        BY <1>0, <2>1, <2>2, <3>2, Launched
      <4>2. j \in again
        BY <2>8, <4>1 DEF Working, Busy, Holding
      <4> QED
        BY <2>2, <3>2, <4>1, <4>2
    <3> QED
      BY <3>1, <3>2
  <2>9. ASSUME NEW q \in Run, NEW j \in Item, Working(q, j)'
        PROVE  Current(q, j)' /\ Alone(q, j)'
    <3>1. CASE q = NewRun
      <4>1. j \in again /\ copy'[q][j] = Again(row[j]) /\ row'[j] = Again(row[j])
        BY <2>3, <2>8, <2>9, <3>1
      <4>2. Alone(q, j)'
        BY <2>8, <3>1, <4>1 DEF Alone
      <4>3. server'[NodeOf[j]] = "registered"
        BY <1>1, <2>1, <4>1 DEF Registered
      <4>4. Current(q, j)'
        BY <1>1, <2>5, <2>12, <4>1, <4>3 DEF Current, Before
      <4> QED
        BY <4>2, <4>4
    <3>2. CASE q # NewRun
      <4>1. /\ j \notin again /\ worker'[q][j] = worker[q][j] /\ copy'[q][j] = copy[q][j]
            /\ row'[j] = row[j]
        BY <2>3, <2>8, <2>9, <3>2
      <4>2. Current(q, j) /\ Alone(q, j)
        BY <1>0, <2>9, <4>1 DEF Working
      <4>3. Current(q, j)'
        BY <1>1, <4>1, <4>2 DEF Current, Waits, Before
      <4>4. ASSUME NEW p \in Run, p # q, Working(p, j)' PROVE FALSE
        BY <2>8, <4>1, <4>2, <4>4 DEF Alone, Working
      <4> QED
        BY <4>3, <4>4 DEF Alone
    <3> QED
      BY <3>1, <3>2
  <2>10. Numbered'
    <3>1. ASSUME NEW j \in Item, row'[j] # Absent, NEW k \in Key, op'[j][k] # "none"
          PROVE  k <= row'[j].attempt
      <4>1. CASE j \notin again
        BY <1>0, <1>1, <2>3, <3>1, <4>1 DEF Numbered
      <4>2. CASE j \in again
        <5>1. k <= row[j].attempt
          BY <1>0, <1>1, <2>2, <3>1, <4>2 DEF Numbered
        <5>2. row'[j].attempt = row[j].attempt + 1
          BY <2>3, <2>12, <4>2
        <5> QED
          BY <2>5, <4>2, <5>1, <5>2, Attempts DEF Key
      <4> QED
        BY <4>1, <4>2
    <3> QED
      BY <3>1 DEF Numbered
  <2>11. Dropped'
    BY <1>0, <1>1, <2>4, <2>7 DEF Dropped
  <2> QED
    BY <1>0, <1>1, <2>9, <2>10, <2>11 DEF Undisturbed
<1> QED
  BY <1>2, <1>3, <1>4, <1>5, <1>6

LEMMA OthersAreUndisturbed ==
  ASSUME Faithful, Undisturbed, restarts = 0,
         \/ \E r \in Run : RunTask(r)
         \/ \E i \in Item, k \in Key : Settles(i, k)
         \/ \E n \in Node : \/ BeginNodeServerRemoval(n) \/ CancelUnstartedNodeServerRemoval(n)
                           \/ CompleteNodeServerRemoval(n) \/ DeleteNodeServerRecords(n)
  PROVE  Undisturbed'
<1>0. Typed /\ Bookkeeping /\ Opening /\ up /\ Numbered /\ Dropped
      /\ \A q \in Run, j \in Item : Working(q, j) => Current(q, j) /\ Alone(q, j)
  BY DEF Faithful, Undisturbed
<1>1. ASSUME NEW r \in Run, RunTask(r) PROVE Undisturbed'
  <2>1. UNCHANGED <<up, server, op, copy, row>>
    BY <1>1 DEF RunTask, Counts, Reports, CanaryPasses, CanaryFails, Finishes, RunOnly, database
  <2>2. ASSUME NEW q \in Run, NEW j \in Item PROVE worker'[q][j] \in {worker[q][j], "none"}
    <3>1. CASE Reports(r)
      BY <1>0, <3>1 DEF Reports, Typed, TypeOK
    <3>2. CASE worker' = worker
      BY <3>2
    <3> QED
      BY <1>1, <3>1, <3>2 DEF RunTask, Counts, CanaryPasses, CanaryFails, Finishes
  <2>3. status # "none"
    BY <1>0, <1>1, RunsAfterOpening
  <2>4. ASSUME NEW q \in Run, NEW j \in Item, Working(q, j)' PROVE worker'[q][j] = worker[q][j]
    BY <2>2, <2>4 DEF Working, Busy, Holding
  <2>5. ASSUME NEW q \in Run, NEW j \in Item, Working(q, j)' PROVE Current(q, j)' /\ Alone(q, j)'
    <3>1. Current(q, j) /\ Alone(q, j) /\ worker'[q][j] = worker[q][j]
      BY <1>0, <2>4, <2>5 DEF Working
    <3> QED
      BY <2>1, <2>4, <3>1 DEF Current, Alone, Working, Waits, Before
  <2>6. Numbered' /\ Dropped'
    BY <1>0, <2>1, <2>3 DEF Numbered, Dropped
  <2> QED
    BY <1>0, <2>1, <2>5, <2>6 DEF Undisturbed
<1>2. ASSUME NEW i \in Item, NEW k \in Key, Settles(i, k) PROVE Undisturbed'
  <2>1. UNCHANGED <<up, server, worker, copy, row, status>>
    BY <1>2 DEF Settles, goroutines, database
  <2>2. \A j \in Item, l \in Key : op[j][l] = "none" <=> op'[j][l] = "none"
    BY <1>0, <1>2 DEF Settles, Typed, TypeOK, Outcome, Over
  <2>3. ASSUME NEW q \in Run, NEW j \in Item, Working(q, j)' PROVE Current(q, j)' /\ Alone(q, j)'
    <3>1. Current(q, j) /\ Alone(q, j) /\ copy[q][j].key \in Key
      <4>1. Working(q, j)
        BY <2>1, <2>3 DEF Working
      <4>2. copy[q][j] \in Row
        BY <1>0, <4>1 DEF Typed, TypeOK, Known, Working
      <4> QED
        BY <1>0, <4>1, <4>2 DEF Row
    <3> QED
      BY <2>1, <2>2, <3>1 DEF Current, Alone, Working, Waits, Before
  <2>4. Numbered' /\ Dropped'
    BY <1>0, <2>1, <2>2 DEF Numbered, Dropped
  <2> QED
    BY <1>0, <2>1, <2>3, <2>4 DEF Undisturbed
<1>3. ASSUME NEW n \in Node,
             \/ BeginNodeServerRemoval(n) \/ CancelUnstartedNodeServerRemoval(n)
             \/ CompleteNodeServerRemoval(n) \/ DeleteNodeServerRecords(n)
      PROVE  Undisturbed'
  <2>1. UNCHANGED <<up, op, worker, copy>>
    BY <1>3 DEF goroutines, RegistryOnly, BeginNodeServerRemoval,
         CancelUnstartedNodeServerRemoval, CompleteNodeServerRemoval, DeleteNodeServerRecords
  <2>2. /\ \A m \in Node : m # n => server'[m] = server[m]
        /\ \/ /\ BeginNodeServerRemoval(n) /\ server[n] = "registered" /\ server'[n] = "removing"
              /\ UNCHANGED <<row, status>>
           \/ server[n] = "removing" /\ server'[n] = "registered" /\ UNCHANGED <<row, status>>
           \/ /\ server'[n] = "gone"
              /\ \A i \in Item : row'[i] = row[i] \/ (row'[i] = Absent /\ NodeOf[i] = n)
              /\ status' # "none" => status # "none"
    <3>1. server \in [Node -> {"registered", "removing", "gone"}]
      BY <1>0 DEF Typed, TypeOK
    <3>2. CASE BeginNodeServerRemoval(n)
      BY <3>1, <3>2 DEF BeginNodeServerRemoval
    <3>3. CASE CancelUnstartedNodeServerRemoval(n)
      BY <3>1, <3>3 DEF CancelUnstartedNodeServerRemoval
    <3>4. CASE CompleteNodeServerRemoval(n) \/ DeleteNodeServerRecords(n)
      <4>1. /\ server' = [server EXCEPT ![n] = "gone"]
            /\ ClearHistory(n) \/ UNCHANGED <<row, status>>
        BY <3>4 DEF CompleteNodeServerRemoval, DeleteNodeServerRecords
      <4>2. /\ \A i \in Item : row'[i] = row[i] \/ (row'[i] = Absent /\ NodeOf[i] = n)
            /\ status' # "none" => status # "none"
        BY <4>1 DEF ClearHistory
      <4> QED
        BY <3>1, <4>1, <4>2
    <3> QED
      BY <1>3, <3>2, <3>3, <3>4
  <2>3. ASSUME NEW q \in Run, NEW j \in Item, Working(q, j)' PROVE Current(q, j)' /\ Alone(q, j)'
    <3>1. Current(q, j) /\ Alone(q, j)
      BY <1>0, <2>1, <2>3 DEF Working
    <3>2. status # "none"
      BY <1>0, <2>1, <2>3, NothingWorksAtFirst DEF Opening, Working
    <3>3. server'[NodeOf[j]] # "removing"
      <4>1. CASE NodeOf[j] # n
        BY <2>2, <3>1, <4>1, NodesAssigned DEF Current
      <4>2. CASE NodeOf[j] = n /\ BeginNodeServerRemoval(n) /\ server[n] = "registered"
        <5>1. row[j] # Absent
          BY <1>0, <3>2, <4>2 DEF Dropped
        <5> QED
          BY <3>1, <4>2, <5>1 DEF Current, BeginNodeServerRemoval, Rows
      <4> QED
        BY <2>2, <4>1, <4>2
    <3>4. row'[j] \in {row[j], Absent}
      BY <2>2
    <3> QED
      BY <2>1, <3>1, <3>3, <3>4 DEF Current, Alone, Working, Waits, Before
  <2>4. Numbered'
    BY <1>0, <2>1, <2>2 DEF Numbered
  <2>5. Dropped'
    <3>1. ASSUME NEW j \in Item, status' # "none", row'[j] = Absent PROVE server'[NodeOf[j]] = "gone"
      <4>1. CASE NodeOf[j] = n /\ server'[n] = "gone"
        BY <4>1
      <4>2. CASE row[j] = Absent /\ status # "none"
        <5>1. server[NodeOf[j]] = "gone"
          BY <1>0, <4>2 DEF Dropped
        <5> QED
          BY <2>2, <5>1, NodesAssigned
      <4> QED
        BY <2>2, <3>1, <4>1, <4>2
    <3> QED
      BY <3>1 DEF Dropped
  <2> QED
    BY <1>0, <2>1, <2>3, <2>4, <2>5 DEF Undisturbed
<1> QED
  BY <1>1, <1>2, <1>3

(* Only a crash counts as a restart.                                       *)
LEMMA RestartsOnlyGrow ==
  ASSUME Typed, [Next]_vars
  PROVE  restarts' = restarts \/ (restarts' = restarts + 1 /\ Crash)
<1>1. \A r \in Run, i \in Item : Execute(r, i) => restarts' = restarts
  BY Moves DEF Elsewhere
<1>2. \A r \in Run : RunTask(r) => restarts' = restarts
  BY DEF RunTask, Counts, Reports, CanaryPasses, CanaryFails, Finishes, RunOnly
<1>3. CASE \/ CreateAsks \/ CreateCommits \/ CreateLaunches \/ RequestRefused \/ RetryCommits
           \/ \E i \in Item : CreateNames(i)
           \/ \E items \in SUBSET Item : RetryAsks(items)
           \/ \E i \in Item, k \in Key : Settles(i, k)
           \/ \E n \in Node : \/ BeginNodeServerRemoval(n) \/ CancelUnstartedNodeServerRemoval(n)
                             \/ CompleteNodeServerRemoval(n) \/ DeleteNodeServerRecords(n)
           \/ RecoverKernelTasks
  BY <1>3 DEF CreateAsks, CreateCommits, CreateLaunches, RequestRefused, RetryCommits,
     CreateNames, RetryAsks, RequestOnly, Settles, BeginNodeServerRemoval,
     CancelUnstartedNodeServerRemoval, CompleteNodeServerRemoval, DeleteNodeServerRecords,
     RegistryOnly, RecoverKernelTasks
<1>4. CASE Crash
  BY <1>4 DEF Crash
<1>5. CASE UNCHANGED vars
  BY <1>5 DEF vars
<1> QED
  BY <1>1, <1>2, <1>3, <1>4, <1>5 DEF Next

LEMMA UndisturbedStays ==
  ASSUME Faithful, Faithful', Undisturbed, [Next]_vars
  PROVE  Undisturbed'
<1>1. Typed /\ restarts \in Nat
  BY DEF Faithful, Typed, TypeOK
<1>2. CASE restarts' # 0
  BY <1>2 DEF Undisturbed
<1>3. CASE restarts' = 0
  <2>1. restarts = 0 /\ ~Crash
    <3>1. restarts' \in {restarts, restarts + 1}
      BY <1>1, RestartsOnlyGrow
    <3>2. Crash => restarts' = restarts + 1
      BY DEF Crash
    <3> QED
      BY <1>1, <1>3, <3>1, <3>2
  <2>2. ~RecoverKernelTasks
    BY <2>1 DEF Undisturbed, RecoverKernelTasks
  <2>3. CASE UNCHANGED vars
    <3>1. /\ up /\ Numbered /\ Dropped
          /\ \A r \in Run, i \in Item : Working(r, i) => Current(r, i) /\ Alone(r, i)
      BY <2>1 DEF Undisturbed
    <3>2. up' /\ Numbered' /\ Dropped'
      BY <2>3, <3>1 DEF Numbered, Dropped, vars
    <3>3. ASSUME NEW r \in Run, NEW i \in Item, Working(r, i)' PROVE Current(r, i)' /\ Alone(r, i)'
      <4>1. Current(r, i) /\ Alone(r, i)
        BY <2>3, <3>1, <3>3 DEF Working, vars
      <4> QED
        BY <2>3, <4>1 DEF Current, Alone, Working, Waits, Before, vars
    <3> QED
      BY <3>2, <3>3 DEF Undisturbed
  <2> QED
    BY <2>1, <2>2, <2>3, RequestsAreUndisturbed, WorkersAreUndisturbed, OthersAreUndisturbed DEF Next
<1> QED
  BY <1>2, <1>3

LEMMA UndisturbedInvariant == Spec => []Undisturbed
<1>1. Init => Undisturbed
  BY InitFaithful, NothingWorksAtFirst
  DEF Init, Undisturbed, Faithful, Numbered, Dropped, Quiet, Unused
<1>2. Faithful /\ Faithful' /\ Undisturbed /\ [Next]_vars => Undisturbed'
  BY UndisturbedStays
<1> QED
  BY <1>1, <1>2, FaithfulInvariant, PTL DEF Spec

(* However launches, retries (through the API too, while the task runs),   *)
(* lost writes and removals meet, two goroutines of runKernelTask never    *)
(* have the same row to bring to an end, unless the panel restarts: a run  *)
(* that recovery starts saves the final stage of an operation that ended   *)
(* meanwhile before its worker has polled it, and such a row can be        *)
(* retried (TLC shows the two goroutines with one restart and              *)
(* RetryWhileRunning).                                                     *)
THEOREM OneRunForEachItem == Spec => [](restarts = 0 => OneRunPerItem)
<1>1. Undisturbed => (restarts = 0 => OneRunPerItem)
  BY DEF Undisturbed, OneRunPerItem, Pending, Working, Alone
<1> QED
  BY <1>1, UndisturbedInvariant, PTL

(* BeginNodeServerRemoval looks at the results of the node's rows, not at  *)
(* the goroutines; without a restart that is enough: no goroutine has work *)
(* left on a node while it is being uninstalled.                           *)
THEOREM NoWorkOnLeavingNodes == Spec => [](restarts = 0 => RemovalExcludesTask)
<1>1. Undisturbed => (restarts = 0 => RemovalExcludesTask)
  BY DEF Undisturbed, RemovalExcludesTask, Pending, Working, Current
<1> QED
  BY <1>1, UndisturbedInvariant, PTL

-----------------------------------------------------------------------------
(* A run that has a first attempt to make is the one CreateKernelTask      *)
(* launched: all its attempts are first ones, and the nodes other than the *)
(* canary are let in only after every item of the canary is done.          *)
First(r) == \E i \in Item : Working(r, i) /\ copy[r][i].key = 1

Gated(r) ==
  /\ run[r].pc \in {"opening", "canary", "others", "stopping", "closing"}
  /\ \A j \in Item : Working(r, j) => copy[r][j].key = 1
  /\ \A c \in Item : CanaryItem(c) =>
       /\ worker[r][c] # "none"
       /\ worker[r][c] = "done" => op[c][1] = "succeeded"
       /\ run[r].pc = "others" => worker[r][c] = "done"
  /\ run[r].pc # "others" => \A j \in Item : ~CanaryItem(j) => worker[r][j] \notin Busy

Gate == restarts = 0 /\ Canary # NoNode => \A r \in Run : First(r) => Gated(r)

(* A run that a step passes by stays as it was.                            *)
LEMMA GatedStays ==
  ASSUME Typed, [Next]_vars, NEW r \in Run,
         run'[r] = run[r], worker'[r] = worker[r], copy'[r] = copy[r],
         First(r) => Gated(r), First(r)'
  PROVE  Gated(r)'
<1>1. First(r)
  BY DEF First, Working
<1>2. 1 \in Key /\ "succeeded" \in Outcome
  BY Attempts DEF Key, Outcome, Over
<1>3. \A c \in Item : op[c][1] = "succeeded" => op'[c][1] = "succeeded"
  BY <1>2, OutcomesLast
<1> QED
  BY <1>1, <1>3 DEF Gated, Working

LEMMA RunsAreGated ==
  ASSUME Faithful, [Next]_vars, NEW q \in Run, RunTask(q), First(q) => Gated(q), First(q)'
  PROVE  Gated(q)'
<1>0. Typed /\ Bookkeeping
  BY DEF Faithful
<1>1. UNCHANGED <<op, copy>>
  BY DEF RunTask, Counts, Reports, CanaryPasses, CanaryFails, Finishes, RunOnly
<1>2. CASE Reports(q)
  <2>1. /\ run'[q].pc = AfterReport(run[q].pc)
        /\ \A i \in Item : worker'[q][i] = IF run[q].pc = "closing" THEN "none" ELSE worker[q][i]
        /\ run[q].pc \in {"opening", "opening_all", "closing"}
    BY <1>0, <1>2 DEF Reports, Goto, Typed, TypeOK, Bookkeeping
  <2>2. run[q].pc # "closing"
    BY <2>1 DEF First, Working, Busy, Holding
  <2>3. \A i \in Item : worker'[q][i] = worker[q][i]
    BY <2>1, <2>2
  <2>4. Gated(q)
    BY <1>1, <2>3 DEF First, Working
  <2>5. run[q].pc = "opening" /\ run'[q].pc = "canary"
    BY <2>1, <2>2, <2>4 DEF Gated, AfterReport
  <2> QED
    BY <1>1, <2>3, <2>4, <2>5 DEF Gated, Working
<1>3. CASE Counts(q) \/ CanaryPasses(q) \/ CanaryFails(q) \/ Finishes(q)
  <2>1. worker' = worker
    BY <1>3 DEF Counts, CanaryPasses, CanaryFails, Finishes
  <2>2. First(q) /\ Gated(q)
    BY <1>1, <2>1 DEF First, Working
  <2>3. \/ run'[q].pc = run[q].pc
        \/ /\ run[q].pc = "canary" /\ run'[q].pc = "others"
           /\ \A c \in Item : CanaryItem(c) => worker[q][c] \in {"none", "done"}
        \/ run'[q].pc = "stopping" /\ run[q].pc = "canary"
        \/ run'[q].pc = "closing" /\ run[q].pc = "stopping"
    <3>1. CASE Counts(q)
      BY <1>0, <3>1 DEF Counts, Typed, TypeOK
    <3>2. CASE CanaryPasses(q)
      BY <1>0, <3>2 DEF CanaryPasses, Goto, Typed, TypeOK
    <3>3. CASE CanaryFails(q)
      BY <1>0, <3>3 DEF CanaryFails, Goto, Typed, TypeOK
    <3>4. CASE Finishes(q)
      <4>1. run[q].pc # "others"
        BY <2>2, <3>4 DEF Finishes, First, Working, Busy, Holding
      <4> QED
        BY <1>0, <3>4, <4>1 DEF Finishes, Goto, Typed, TypeOK
    <3> QED
      BY <1>3, <3>1, <3>2, <3>3, <3>4
  <2> QED
    BY <1>1, <2>1, <2>2, <2>3 DEF Gated, Working
<1> QED
  BY <1>2, <1>3 DEF RunTask

LEMMA WorkersAreGated ==
  ASSUME Typed, [Next]_vars, NEW q \in Run, NEW i \in Item, Execute(q, i),
         First(q) => Gated(q), First(q)'
  PROVE  Gated(q)'
<1>1. /\ Working(q, i) /\ copy[q][i] \in Row /\ Elsewhere(q, i)
      /\ \/ Advances(q, i) \/ Begun(q, i) \/ Records(q, i)
         \/ Concludes(q, i) \/ Abandons(q, i)
  BY Moves
<1>2. Working(q, i)' => copy'[q][i].key = copy[q][i].key
  <2>1. CASE Begun(q, i)
    BY <1>1, <2>1 DEF Begun, Row
  <2> QED
    BY <1>1, <2>1 DEF Advances, Records, Concludes, Abandons, Working, Busy, Holding
<1>3. \A j \in Item : Working(q, j)' => Working(q, j) /\ copy'[q][j].key = copy[q][j].key
  BY <1>1, <1>2 DEF Working, Elsewhere
<1>4. Gated(q)
  BY <1>3 DEF First
<1>5. copy[q][i].key = 1
  BY <1>1, <1>4 DEF Gated
<1>6. run' = run /\ \A j \in Item : j # i => worker'[q][j] = worker[q][j]
  BY <1>1 DEF Elsewhere
<1>7. 1 \in Key /\ "succeeded" \in Outcome
  BY Attempts DEF Key, Outcome, Over
<1>8. \A c \in Item : op[c][1] = "succeeded" => op'[c][1] = "succeeded"
  BY <1>7, OutcomesLast
<1>9. worker'[q][i] # "none" /\ (worker'[q][i] = "done" => op[i][1] = "succeeded")
  BY <1>1, <1>5 DEF Advances, Begun, Records, Concludes, Abandons, Before
<1>10. run[q].pc # "others" /\ ~CanaryItem(i) => worker'[q][i] \notin Busy
  <2> SUFFICES ASSUME run[q].pc # "others", ~CanaryItem(i) PROVE worker'[q][i] \notin Busy
    OBVIOUS
  <2>1. worker[q][i] = "todo"
    BY <1>1, <1>4 DEF Gated, Working
  <2>2. ~Advances(q, i)
    BY <2>1 DEF Advances, TakesTurn
  <2>3. worker'[q][i] = "failed"
    BY <1>1, <2>1, <2>2 DEF Begun, Admitted, Records, Concludes, Abandons
  <2> QED
    BY <2>3 DEF Busy, Holding
<1>11. run[q].pc = "others" => ~CanaryItem(i)
  BY <1>1, <1>4 DEF Gated, Working, Busy, Holding
<1> QED
  BY <1>3, <1>4, <1>6, <1>8, <1>9, <1>10, <1>11 DEF Gated

LEMMA RequestsAreGated ==
  ASSUME Faithful, Undisturbed, Gate, restarts = 0, Canary # NoNode, [Next]_vars,
         \/ CreateAsks \/ CreateCommits \/ CreateLaunches \/ RequestRefused \/ RetryCommits
         \/ \E i \in Item : CreateNames(i)
         \/ \E items \in SUBSET Item : RetryAsks(items),
         NEW r \in Run, First(r)'
  PROVE  Gated(r)'
<1>0. Typed /\ Goroutines /\ Bookkeeping /\ Opening /\ (First(r) => Gated(r))
  BY Parts DEF Faithful, Gate
<1>1. CASE \/ CreateAsks \/ CreateCommits \/ RequestRefused
           \/ \E i \in Item : CreateNames(i)
           \/ \E items \in SUBSET Item : RetryAsks(items)
  <2>1. UNCHANGED <<run, worker, copy>>
    BY <1>1 DEF CreateAsks, CreateCommits, RequestRefused, CreateNames, RetryAsks, goroutines
  <2> QED
    BY <1>0, <2>1, GatedStays
<1>2. CASE CreateLaunches
  <2> DEFINE gated == Canary # NoNode
             all == Item
             table == row
  <2>1. Launch(all, table, gated, TRUE) /\ gated \in BOOLEAN /\ gated /\ all \in SUBSET Item
    BY <1>2 DEF CreateLaunches
  <2>2. request.kind = "name" /\ request.items = {}
    BY <1>2 DEF CreateLaunches
  <2>3. Quiet /\ \A i \in Item : row[i].key = 1
    BY <1>0, <2>2 DEF Opening
  <2>4. ~First(r)
    BY <1>0, <2>3, NothingWorksAtFirst DEF First
  <2>5. \A i \in Item : i \in all /\ table[i].key = 1
    BY <2>3
  <2> HIDE DEF gated, all, table
  <2>6. r = NewRun
    <3>1. ASSUME r # NewRun PROVE FALSE
      <4>1. worker'[r] = worker[r] /\ copy'[r] = copy[r]
        BY <1>0, <2>1, <3>1, Launched
      <4> QED
        BY <2>4, <4>1 DEF First, Working
    <3> QED
      BY <3>1
  <2>7. run'[r].pc = "opening"
    BY <1>0, <2>1, <2>6 DEF Launch, Goroutines
  <2>8. \A i \in Item : worker'[r][i] = "todo"
    BY <1>0, <2>1, <2>5, <2>6 DEF Launch, Goroutines
  <2>9. \A i \in Item : copy'[r][i] = table[i]
    BY <1>0, <2>1, <2>5, <2>6 DEF Launch, Goroutines
  <2> QED
    BY <2>5, <2>7, <2>8, <2>9 DEF Gated, Busy, Holding
<1>3. CASE RetryCommits
  <2> DEFINE again == {i \in request.items \cap Rows : Failed(i)}
             table == [i \in Item |-> IF i \in again THEN Again(row[i]) ELSE row[i]]
  <2>1. Launch(again, table, FALSE, TRUE) /\ \A i \in again : row[i].attempt < MaxAttempts
    BY <1>3 DEF RetryCommits
  <2>2. /\ again \in SUBSET Item /\ \A i \in again : table[i] = Again(row[i])
        /\ \A i \in again : row[i] \in Row
    BY <1>0 DEF Rows, Typed, TypeOK, Failed
  <2> HIDE DEF again, table
  <2>3. ASSUME NEW i \in again PROVE table[i].key # 1
    <3>1. row[i].attempt \in 1..MaxAttempts
      BY <2>2 DEF Row
    <3>2. table[i].key = row[i].attempt + 1
      BY <2>1, <2>2, AgainIsNew
    <3> QED
      BY <3>1, <3>2, Attempts
  <2>4. r # NewRun
    <3>1. ASSUME r = NewRun, NEW i \in Item, Working(r, i)' PROVE copy'[r][i].key # 1
      <4>1. worker'[r][i] = IF i \in again THEN "todo" ELSE "none"
        BY <1>0, <2>1, <2>2, <3>1 DEF Launch, Goroutines
      <4>2. copy'[r][i] = IF i \in again THEN table[i] ELSE Absent
        BY <1>0, <2>1, <2>2, <3>1 DEF Launch, Goroutines
      <4>3. i \in again
        BY <3>1, <4>1 DEF Working, Busy, Holding
      <4> QED
        BY <2>3, <4>2, <4>3
    <3> QED
      BY <3>1 DEF First
  <2>5. run'[r] = run[r] /\ worker'[r] = worker[r] /\ copy'[r] = copy[r]
    BY <1>0, <2>1, <2>2, <2>4, Launched
  <2> QED
    BY <1>0, <2>5, GatedStays
<1> QED
  BY <1>1, <1>2, <1>3

LEMMA GateStays ==
  ASSUME Faithful, Undisturbed, Gate, [Next]_vars
  PROVE  Gate'
<1> SUFFICES ASSUME restarts' = 0, Canary # NoNode, NEW r \in Run, First(r)'
             PROVE  Gated(r)'
  BY DEF Gate
<1>0. Typed /\ restarts \in Nat
  BY DEF Faithful, Typed, TypeOK
<1>1. restarts = 0 /\ ~Crash
  <2>1. restarts' \in {restarts, restarts + 1}
    BY <1>0, RestartsOnlyGrow
  <2>2. Crash => restarts' = restarts + 1
    BY DEF Crash
  <2> QED
    BY <1>0, <2>1, <2>2
<1>2. ~RecoverKernelTasks
  BY <1>1 DEF Undisturbed, RecoverKernelTasks
<1>3. First(r) => Gated(r)
  BY <1>1 DEF Gate
<1>4. ASSUME UNCHANGED <<run, worker, copy>> PROVE Gated(r)'
  BY <1>0, <1>3, <1>4, GatedStays
<1>5. ASSUME NEW q \in Run, RunTask(q) PROVE Gated(r)'
  <2>1. CASE q = r
    BY <1>3, <1>5, <2>1, RunsAreGated
  <2>2. CASE q # r
    <3>1. copy' = copy /\ run'[r] = run[r]
      BY <1>0, <1>5, <2>2 DEF RunTask, Counts, Reports, CanaryPasses, CanaryFails, Finishes,
                              Goto, RunOnly, Typed, TypeOK
    <3>2. worker'[r] = worker[r]
      <4>1. CASE Reports(q)
        BY <1>0, <2>2, <4>1 DEF Reports, Typed, TypeOK
      <4>2. CASE worker' = worker
        BY <4>2
      <4> QED
        BY <1>5, <4>1, <4>2 DEF RunTask, Counts, CanaryPasses, CanaryFails, Finishes
    <3> QED
      BY <1>0, <1>3, <3>1, <3>2, GatedStays
  <2> QED
    BY <2>1, <2>2
<1>6. ASSUME NEW q \in Run, NEW i \in Item, Execute(q, i) PROVE Gated(r)'
  <2>1. CASE q = r
    BY <1>0, <1>3, <1>6, <2>1, WorkersAreGated
  <2>2. CASE q # r
    <3>1. /\ run' = run
          /\ \A j \in Item : worker'[r][j] = worker[r][j] /\ copy'[r][j] = copy[r][j]
      BY <1>0, <1>6, <2>2, Moves DEF Elsewhere
    <3>2. Typed'
      BY <1>0, TypedStays
    <3>3. worker'[r] = worker[r] /\ copy'[r] = copy[r]
      BY <1>0, <3>1, <3>2 DEF Typed, TypeOK
    <3> QED
      BY <1>0, <1>3, <3>1, <3>3, GatedStays
  <2> QED
    BY <2>1, <2>2
<1>7. CASE \/ \E i \in Item, k \in Key : Settles(i, k)
           \/ \E n \in Node : \/ BeginNodeServerRemoval(n) \/ CancelUnstartedNodeServerRemoval(n)
                             \/ CompleteNodeServerRemoval(n) \/ DeleteNodeServerRecords(n)
           \/ UNCHANGED vars
  BY <1>4, <1>7 DEF Settles, goroutines, RegistryOnly, BeginNodeServerRemoval,
     CancelUnstartedNodeServerRemoval, CompleteNodeServerRemoval, DeleteNodeServerRecords, vars
<1> QED
  BY <1>1, <1>2, <1>5, <1>6, <1>7, RequestsAreGated DEF Next

LEMMA GateInvariant == Spec => []Gate
<1>1. Init => Gate
  BY InitFaithful, NothingWorksAtFirst DEF Init, Gate, First, Faithful, Quiet, Unused
<1>2. Faithful /\ Undisturbed /\ Gate /\ [Next]_vars => Gate'
  BY GateStays
<1> QED
  BY <1>1, <1>2, FaithfulInvariant, UndisturbedInvariant, PTL DEF Spec

(* runKernelTask lets the other nodes in only after every kernel of the    *)
(* canary: whatever retries run beside the first run, no other node starts *)
(* its first attempt before every operation of the canary has succeeded on *)
(* the node itself, not just in its row.                                   *)
THEOREM CanaryGoesFirst == Spec => CanaryGate
<1> DEFINE Opens(i, k) ==
      /\ restarts = 0 /\ Canary # NoNode /\ ~CanaryItem(i)
      /\ op[i][k] = "none" /\ op'[i][k] # "none"
<1>1. ASSUME Faithful, Undisturbed, Gate, Next,
             NEW i \in Item, NEW k \in {0, 1}, Opens(i, k),
             NEW c \in Item, CanaryItem(c)
      PROVE  op[c][1] = "succeeded"
  <2>0. Typed /\ k \in Key /\ (\A r \in Run, j \in Item : Working(r, j) => Current(r, j))
    BY <1>1, Attempts DEF Faithful, Undisturbed, Key
  <2>1. ASSUME NEW j \in Item, NEW l \in Key, Settles(j, l) PROVE FALSE
    <3>1. /\ op \in [Item -> [Key -> {"none", "active"} \cup Outcome]]
          /\ op[j][l] = "active" /\ \E o \in Outcome : op' = [op EXCEPT ![j][l] = o]
      BY <2>0, <2>1 DEF Settles, Typed, TypeOK
    <3>2. op[i][k] = "none" /\ op'[i][k] # "none"
      BY <1>1
    <3> QED
      BY <2>0, <3>1, <3>2
  <2>2. op' # op
    BY <1>1
  <2>3. PICK r \in Run, j \in Item : Execute(r, j)
    BY <1>1, <2>1, <2>2 DEF Next, CreateAsks, CreateCommits, CreateLaunches, RequestRefused,
       RetryCommits, CreateNames, RetryAsks, RequestOnly, RunTask, Counts, Reports, CanaryPasses,
       CanaryFails, Finishes, RunOnly, BeginNodeServerRemoval, CancelUnstartedNodeServerRemoval,
       CompleteNodeServerRemoval, DeleteNodeServerRecords, RegistryOnly, Crash, RecoverKernelTasks
  <2>4. /\ Working(r, j) /\ copy[r][j] \in Row /\ Elsewhere(r, j)
        /\ op' = op \/ Admitted(r, j)
    BY <2>0, <2>3, Moves DEF Advances, Begun, Records, Concludes, Abandons
  <2>5. j = i /\ k = copy[r][i].key /\ worker[r][i] = "asked"
    BY <1>1, <2>0, <2>2, <2>4 DEF Elsewhere, Admitted
  <2>6. copy[r][i].key = 1
    <3>1. copy[r][i].attempt \in 1..MaxAttempts /\ copy[r][i].key = copy[r][i].attempt
      BY <2>0, <2>4, <2>5 DEF Current, Row
    <3> QED
      BY <2>5, <3>1, Attempts
  <2>7. Gated(r)
    BY <1>1, <2>4, <2>5, <2>6 DEF Gate, First
  <2>8. run[r].pc = "others"
    BY <1>1, <2>5, <2>7 DEF Gated, Busy, Holding
  <2> QED
    BY <1>1, <2>7, <2>8 DEF Gated
<1>2. Faithful /\ Undisturbed /\ Gate /\ [Next]_vars =>
        [\A i \in Item, k \in {0, 1} : Opens(i, k) =>
           \A c \in Item : CanaryItem(c) => op[c][1] = "succeeded"]_vars
  BY <1>1
<1> QED
  BY <1>2, FaithfulInvariant, UndisturbedInvariant, GateInvariant, PTL DEF Spec, CanaryGate

-----------------------------------------------------------------------------
(* What the status and the results say when nobody works any more.         *)

(* NewRun is the least free run, so there is one if any is free.           *)
LEMMA NewRunIsFree == RunsLeft => NewRun \in Run /\ run[NewRun].pc = "unused"
<1> DEFINE Free == {r \in Run : run[r].pc = "unused"}
<1>1. ASSUME RunsLeft PROVE \E r \in Free : \A q \in Free : ~(q < r)
  <2>1. Free \subseteq Nat /\ Free # {}
    BY <1>1, BoundsNatural DEF RunsLeft, Run
  <2> HIDE DEF Free
  <2>2. \E r \in Free : \A q \in Free : ~(<<q, r>> \in OpToRel(<, Nat))
    BY <2>1, NatLessThanWellFounded, WFMin
  <2> QED
    BY <2>1, <2>2 DEF OpToRel
<1>2. ASSUME RunsLeft
      PROVE  \E r \in Run : run[r].pc = "unused" /\ \A q \in 1..(r - 1) : run[q].pc # "unused"
  <2>1. PICK r \in Free : \A q \in Free : ~(q < r)
    BY <1>1, <1>2
  <2>2. ASSUME NEW q \in 1..(r - 1) PROVE run[q].pc # "unused"
    <3>1. q \in Run /\ q < r
      BY <2>1, BoundsNatural DEF Run
    <3> QED
      BY <2>1, <3>1
  <2> QED
    BY <2>1, <2>2
<1> QED
  BY <1>2 DEF NewRun

LEMMA StatusIsRunning ==
  ASSUME NEW i \in Item, row[i] # Absent, row[i].stage \notin Over
  PROVE  StatusOfRows = "running"
<1>1. i \in Rows /\ ~({row[j].stage : j \in Rows} \subseteq Over)
  BY DEF Rows
<1> QED
  BY <1>1 DEF StatusOfRows, Over

LEMMA StatusStays ==
  ASSUME row' = row, status' = status \/ Rows # {}
  PROVE  StatusOfRows' = StatusOfRows
<1> DEFINE stages == {row[i].stage : i \in Rows}
           Verdict(none, seen, otherwise) ==
             CASE none -> otherwise
               [] ~none /\ ~(seen \subseteq Over) -> "running"
               [] seen = {"succeeded"} -> "succeeded"
               [] ~none /\ seen \subseteq {"failed", "rolled_back"} -> "failed"
               [] OTHER -> "partial"
<1>1. Rows' = Rows
  BY DEF Rows
<1>2. stages' = stages
  BY <1>1
<1>3. /\ StatusOfRows = Verdict(Rows = {}, stages, status)
      /\ StatusOfRows' = Verdict(Rows' = {}, stages', status')
  BY DEF StatusOfRows
<1> HIDE DEF stages
<1>4. StatusOfRows' = Verdict(Rows = {}, stages, status')
  BY <1>1, <1>2, <1>3
<1>5. Rows # {} => Verdict(Rows = {}, stages, status') = Verdict(Rows = {}, stages, status)
  OBVIOUS
<1> QED
  BY <1>3, <1>4, <1>5

(* Before its turn an item waits, and the canary's take theirs in turn; a  *)
(* run that stops or closes has nobody at work.                            *)
Queued(r) == \A i \in Item : worker[r][i] \in {"todo", "none"}
Resting(r) == \A i \in Item : worker[r][i] \notin Busy

Serial ==
  \A r \in Run :
    /\ run[r].pc \in {"opening", "opening_all"} => Queued(r)
    /\ run[r].pc = "canary" =>
         \A i, j \in Item : worker[r][i] \in Busy /\ worker[r][j] \in Busy \cup {"failed"} => i = j
    /\ run[r].pc \in {"stopping", "closing"} => Resting(r)

\* Where a worker stands that has not had its turn.
LEMMA Turns ==
  ASSUME NEW r \in Run, NEW i \in Item, Execute(r, i), worker[r][i] = "todo"
  PROVE  \/ TakesTurn(r, i)
         \/ run[r].pc = "stopping" /\ worker' = [worker EXCEPT ![r][i] = "failed"]
  BY DEF Execute, LocksNode, Inventories, Starts, Saves, PollsActive, Polls,
         TurnedAway, StopsLooking, LosesAnswer, GivesUp, FailsItem, Step

LEMMA SerialStays ==
  ASSUME Typed, Serial, [Next]_vars
  PROVE  Serial'
<1> DEFINE Ordered(r) ==
      /\ run[r].pc \in {"opening", "opening_all"} => Queued(r)
      /\ run[r].pc = "canary" =>
           \A i, j \in Item : worker[r][i] \in Busy /\ worker[r][j] \in Busy \cup {"failed"} => i = j
      /\ run[r].pc \in {"stopping", "closing"} => Resting(r)
<1>0. Goroutines
  BY Parts
<1>1. SUFFICES ASSUME NEW r \in Run PROVE Ordered(r)'
  BY DEF Serial
<1>2. Ordered(r)
  BY DEF Serial
<1>3. ASSUME run'[r] = run[r], worker'[r] = worker[r] PROVE Ordered(r)'
  BY <1>2, <1>3 DEF Queued, Resting
<1>4. ASSUME NEW items \in SUBSET Item, NEW table, NEW gated \in BOOLEAN, NEW token \in BOOLEAN,
             Launch(items, table, gated, token)
      PROVE  Ordered(r)'
  <2>1. CASE r # NewRun
    BY <1>0, <1>3, <1>4, <2>1, Launched
  <2>2. CASE r = NewRun
    <3>1. run'[r].pc \in {"opening", "opening_all"} /\ \A i \in Item : worker'[r][i] \in {"todo", "none"}
      BY <1>0, <1>4, <2>2 DEF Launch, Goroutines
    <3> QED
      BY <3>1 DEF Queued
  <2> QED
    BY <2>1, <2>2
<1>5. ASSUME NEW q \in Run, RunTask(q) PROVE Ordered(r)'
  <2>1. CASE q # r
    <3>1. CASE Reports(q)
      BY <1>0, <1>3, <2>1, <3>1 DEF Reports, Goto, Goroutines
    <3>2. CASE Counts(q) \/ CanaryPasses(q) \/ CanaryFails(q) \/ Finishes(q)
      BY <1>0, <1>3, <2>1, <3>2 DEF Counts, CanaryPasses, CanaryFails, Finishes, Goto, Goroutines
    <3> QED
      BY <1>5, <3>1, <3>2 DEF RunTask
  <2>2. CASE q = r
    <3>1. CASE Reports(r)
      <4>1. /\ run'[r].pc = AfterReport(run[r].pc)
            /\ \A i \in Item : worker'[r][i] \in {worker[r][i], "none"}
        BY <1>0, <3>1 DEF Reports, Goto, Goroutines
      <4>2. run'[r].pc = "canary" => run[r].pc = "opening"
        BY <4>1 DEF AfterReport
      <4>3. run'[r].pc = "canary" => \A i \in Item : worker'[r][i] \in {"todo", "none"}
        BY <1>2, <4>1, <4>2 DEF Queued
      <4>4. run'[r].pc \in {"canary", "others", "done"}
        BY <4>1 DEF AfterReport
      <4> QED
        BY <4>3, <4>4 DEF Busy, Holding
    <3>2. CASE Counts(r)
      BY <1>0, <1>2, <3>2 DEF Counts, Goroutines, Queued, Resting
    <3>3. CASE CanaryPasses(r)
      BY <1>0, <3>3 DEF CanaryPasses, Goto, Goroutines
    <3>4. CASE CanaryFails(r)
      <4>1. run'[r].pc = "stopping" /\ worker' = worker /\ Resting(r)
        BY <1>0, <1>2, <3>4 DEF CanaryFails, Goto, Goroutines, Resting, Busy, Holding
      <4> QED
        BY <4>1 DEF Resting
    <3>5. CASE Finishes(r)
      <4>1. run'[r].pc = "closing" /\ worker' = worker /\ Resting(r)
        BY <1>0, <1>2, <3>5 DEF Finishes, Goto, Goroutines, Resting, Busy, Holding
      <4> QED
        BY <4>1 DEF Resting
    <3> QED
      BY <1>5, <2>2, <3>1, <3>2, <3>3, <3>4, <3>5 DEF RunTask
  <2> QED
    BY <2>1, <2>2
<1>6. ASSUME NEW q \in Run, NEW i \in Item, Execute(q, i) PROVE Ordered(r)'
  <2>1. /\ Working(q, i) /\ Elsewhere(q, i)
        /\ \/ Advances(q, i) \/ Begun(q, i) \/ Records(q, i)
           \/ Concludes(q, i) \/ Abandons(q, i)
    BY <1>6, Moves
  <2>2. run' = run
    BY <2>1 DEF Elsewhere
  <2>3. CASE q # r
    <3>1. \A j \in Item : worker'[r][j] = worker[r][j]
      BY <2>1, <2>3 DEF Elsewhere
    <3> QED
      BY <1>2, <2>2, <3>1 DEF Queued, Resting
  <2>4. CASE q = r
    <3>1. \A j \in Item : j # i => worker'[r][j] = worker[r][j]
      BY <2>1, <2>4 DEF Elsewhere
    <3>2. CASE worker[r][i] = "todo"
      <4>1. CASE TakesTurn(r, i)
        <5>1. \/ run[r].pc = "others"
              \/ run[r].pc = "canary" /\ \A j \in Item : worker[r][j] \notin Busy \cup {"failed"}
          BY <4>1 DEF TakesTurn
        <5> QED
          BY <2>2, <3>1, <5>1
      <4>2. CASE run[r].pc = "stopping" /\ worker' = [worker EXCEPT ![r][i] = "failed"]
        <5>1. worker'[r][i] = "failed"
          BY <1>0, <4>2 DEF Goroutines
        <5> QED
          BY <1>2, <2>2, <3>1, <4>2, <5>1 DEF Resting, Busy, Holding
      <4> QED
        BY <1>6, <2>4, <3>2, <4>1, <4>2, Turns
    <3>3. CASE worker[r][i] \in Busy
      <4>1. run[r].pc \notin {"opening", "opening_all", "stopping", "closing"}
        BY <1>2, <3>3 DEF Queued, Resting, Busy, Holding
      <4>2. CASE run[r].pc = "canary"
        <5>1. \A j \in Item : j # i => worker[r][j] \notin Busy \cup {"failed"}
          BY <1>2, <3>3, <4>2
        <5> QED
          BY <2>2, <3>1, <4>2, <5>1
      <4> QED
        BY <2>2, <4>1, <4>2
    <3> QED
      BY <2>1, <2>4, <3>2, <3>3 DEF Working
  <2> QED
    BY <2>3, <2>4
<1>7. CASE \/ CreateAsks \/ CreateCommits \/ RequestRefused
           \/ \E i \in Item : CreateNames(i)
           \/ \E items \in SUBSET Item : RetryAsks(items)
           \/ \E i \in Item, k \in Key : Settles(i, k)
           \/ \E n \in Node : \/ BeginNodeServerRemoval(n) \/ CancelUnstartedNodeServerRemoval(n)
                             \/ CompleteNodeServerRemoval(n) \/ DeleteNodeServerRecords(n)
           \/ UNCHANGED vars
  <2>1. UNCHANGED <<run, worker>>
    BY <1>7 DEF CreateAsks, CreateCommits, RequestRefused, CreateNames, RetryAsks, goroutines,
       Settles, BeginNodeServerRemoval, CancelUnstartedNodeServerRemoval,
       CompleteNodeServerRemoval, DeleteNodeServerRecords, RegistryOnly, vars
  <2> QED
    BY <1>3, <2>1
<1>8. CASE CreateLaunches
  <2> DEFINE gated == Canary # NoNode
  <2>1. Launch(Item, row, gated, TRUE) /\ gated \in BOOLEAN
    BY <1>8 DEF CreateLaunches
  <2> HIDE DEF gated
  <2> QED
    BY <1>4, <2>1
<1>9. CASE RetryCommits
  <2> DEFINE again == {i \in request.items \cap Rows : Failed(i)}
             table == [i \in Item |-> IF i \in again THEN Again(row[i]) ELSE row[i]]
  <2>1. Launch(again, table, FALSE, TRUE)
    BY <1>9 DEF RetryCommits
  <2>2. again \in SUBSET Item
    BY DEF Rows
  <2> HIDE DEF again, table
  <2> QED
    BY <1>4, <2>1, <2>2
<1>10. CASE RecoverKernelTasks
  <2> DEFINE again == Unfinished(row')
  <2>1. UNCHANGED goroutines \/ Launch(DOMAIN again, again, FALSE, FALSE)
    BY <1>10 DEF RecoverKernelTasks
  <2>2. DOMAIN again \in SUBSET Item
    BY DEF Unfinished
  <2> HIDE DEF again
  <2>3. CASE UNCHANGED goroutines
    BY <1>3, <2>3 DEF goroutines
  <2> QED
    BY <1>4, <2>1, <2>2, <2>3
<1>11. CASE Crash
  BY <1>11 DEF Crash, Unused
<1> QED
  BY <1>5, <1>6, <1>7, <1>8, <1>9, <1>10, <1>11 DEF Next

LEMMA SerialInvariant == Spec => []Serial
<1>1. Init => Serial
  BY DEF Init, Serial, Unused
<1>2. Typed /\ Serial /\ [Next]_vars => Serial'
  BY SerialStays
<1>3. Faithful => Typed
  BY DEF Faithful
<1> QED
  BY <1>1, <1>2, <1>3, FaithfulInvariant, PTL DEF Spec

(* Without a restart a row gets its final stage and its result at once.    *)
Settled == restarts = 0 => \A i \in Rows : row[i].stage \in Over => row[i].result # ""

LEMMA SettledStays ==
  ASSUME Faithful, Undisturbed, Settled, [Next]_vars
  PROVE  Settled'
<1> SUFFICES ASSUME restarts' = 0, NEW i \in Item, row'[i] # Absent, row'[i].stage \in Over
             PROVE  row'[i].result # ""
  BY DEF Settled, Rows
<1>0. Typed /\ restarts = 0 /\ ~Crash
  <2>1. Typed /\ restarts \in Nat
    BY DEF Faithful, Typed, TypeOK
  <2>2. restarts' \in {restarts, restarts + 1}
    BY <2>1, RestartsOnlyGrow
  <2>3. Crash => restarts' = restarts + 1
    BY DEF Crash
  <2> QED
    BY <2>1, <2>2, <2>3
<1>1. row[i] # Absent /\ row[i].stage \in Over => row[i].result # ""
  BY <1>0 DEF Settled, Rows
<1>2. CASE row'[i] = row[i]
  BY <1>1, <1>2
<1>3. ASSUME NEW r \in Run, NEW j \in Item, Execute(r, j) PROVE row'[i].result # ""
  <2>1. /\ Working(r, j) /\ copy[r][j] \in Row /\ Elsewhere(r, j)
        /\ \/ Advances(r, j) \/ Begun(r, j) \/ Records(r, j)
           \/ Concludes(r, j) \/ Abandons(r, j)
    BY <1>0, <1>3, Moves
  <2>2. CASE j # i
    BY <1>2, <2>1, <2>2 DEF Elsewhere
  <2>3. CASE j = i
    <3>1. copy[r][i].stage \in {"queued", "active"}
      BY <1>0, <2>1, <2>3 DEF Undisturbed, Current
    <3>2. CASE Records(r, i)
      BY <1>2, <3>1, <3>2 DEF Records, Wrote, Over
    <3>3. CASE Concludes(r, i)
      <4>1. Seen(copy[r][i], Before(r, i)).result # ""
        BY <2>1, <2>3 DEF Seen, Row
      <4> QED
        BY <1>2, <3>3, <4>1 DEF Concludes, Wrote
    <3>4. CASE Abandons(r, i)
      <4>1. [copy[r][i] EXCEPT !.stage = "failed", !.result = "failed"].result # ""
        BY <2>1, <2>3 DEF Row
      <4> QED
        BY <1>2, <3>4, <4>1 DEF Abandons, Wrote
    <3>5. CASE Advances(r, i) \/ Begun(r, i)
      BY <1>2, <3>5 DEF Advances, Begun
    <3> QED
      BY <2>1, <2>3, <3>2, <3>3, <3>4, <3>5
  <2> QED
    BY <2>2, <2>3
<1>4. CASE CreateCommits
  BY <1>4 DEF CreateCommits, Over
<1>5. ASSUME NEW j \in Item, CreateNames(j) PROVE row'[i].result # ""
  <2>1. row[i] \in Row /\ row \in [Item -> Row \cup {Absent}]
    BY <1>0, <1>5 DEF CreateNames, Typed, TypeOK, Named
  <2>2. row' = row \/ row' = [row EXCEPT ![j] = [row[j] EXCEPT !.key = 1]]
    BY <1>5 DEF CreateNames
  <2>3. row'[i].stage = row[i].stage /\ row'[i].result = row[i].result
    <3>1. CASE row'[i] = row[i]
      BY <3>1
    <3>2. CASE row'[i] = [row[i] EXCEPT !.key = 1]
      BY <2>1, <3>2 DEF Row
    <3> QED
      BY <2>1, <2>2, <3>1, <3>2
  <2>4. row[i] # Absent
    BY <2>1, AbsentAssumption
  <2> QED
    BY <1>1, <2>3, <2>4
<1>6. CASE RetryCommits
  <2>1. row'[i] = row[i] \/ row'[i] = Again(row[i])
    BY <1>6 DEF RetryCommits
  <2>2. Again(row[i]).stage = "queued"
    BY DEF Again
  <2> QED
    BY <1>2, <2>1, <2>2 DEF Over
<1>7. ASSUME NEW n \in Node, CompleteNodeServerRemoval(n) \/ DeleteNodeServerRecords(n)
      PROVE  row'[i].result # ""
  <2>1. row'[i] \in {row[i], Absent}
    BY <1>7 DEF CompleteNodeServerRemoval, DeleteNodeServerRecords, ClearHistory
  <2> QED
    BY <1>2, <2>1
<1>8. ~RecoverKernelTasks
  BY <1>0 DEF Undisturbed, RecoverKernelTasks
<1>9. CASE \/ CreateAsks \/ CreateLaunches \/ RequestRefused
           \/ \E items \in SUBSET Item : RetryAsks(items)
           \/ \E r \in Run : RunTask(r)
           \/ \E j \in Item, k \in Key : Settles(j, k)
           \/ \E n \in Node : BeginNodeServerRemoval(n) \/ CancelUnstartedNodeServerRemoval(n)
           \/ UNCHANGED vars
  <2>1. row' = row
    BY <1>9 DEF CreateAsks, CreateLaunches, RequestRefused, RetryAsks, database, RunTask, Counts,
       Reports, CanaryPasses, CanaryFails, Finishes, Settles, BeginNodeServerRemoval,
       CancelUnstartedNodeServerRemoval, vars
  <2> QED
    BY <1>2, <2>1
<1> QED
  BY <1>0, <1>3, <1>4, <1>5, <1>6, <1>7, <1>8, <1>9 DEF Next

(* With every row in place, no statement lost and retries from the web     *)
(* page, one run is under way at a time: a retry waits for a status that   *)
(* only the last report writes, and that report tells of the rows as they  *)
(* are.                                                                    *)
Calm ==
  restarts = 0 /\ lost = 0 /\ ~RetryWhileRunning /\ Item # {} /\ \A i \in Item : row[i] # Absent

Reporting(r) ==
  /\ status \in {"queued", "running"}
  /\ run[r].pc \in {"opening", "opening_all"} => \E i \in Item : worker[r][i] = "todo"
  /\ run[r].view # "none" => run[r].view = StatusOfRows

AllOver == \A r \in Run : ~Alive(r)

Orderly ==
  Calm =>
    /\ \A q, r \in Run : Alive(q) /\ Alive(r) => q = r
    /\ request.kind = "name" => status = "queued"
    /\ request.kind = "retry" => AllOver /\ RunsLeft
    /\ \A r \in Run : Alive(r) => Reporting(r)
    /\ AllOver /\ ~Quiet => status = StatusOfRows

(* Rows appear only by CreateKernelTask's commit; what is lost stays lost. *)
LEMMA CalmBefore ==
  ASSUME Typed, [Next]_vars, Calm', ~CreateCommits
  PROVE  Calm
<1>1. restarts = 0
  <2>1. restarts \in Nat /\ restarts' \in {restarts, restarts + 1}
    BY RestartsOnlyGrow DEF Typed, TypeOK
  <2> QED
    BY <2>1 DEF Calm
<1>2. lost = 0
  <2>1. lost \in Nat
    BY DEF Typed, TypeOK
  <2>2. ASSUME NEW i \in Item, NEW item, NEW fits \in BOOLEAN, Write(i, item, fits)
        PROVE  lost' \in {lost, lost + 1}
    BY <2>2 DEF Write
  <2>3. ASSUME NEW r \in Run, NEW i \in Item, Execute(r, i) PROVE lost' \in {lost, lost + 1}
    BY <2>2, <2>3 DEF Execute, TakesTurn, LocksNode, Inventories, Starts, Saves, PollsActive, Polls,
       TurnedAway, StopsLooking, LosesAnswer, GivesUp, FailsItem, database
  <2>4. CASE \/ CreateAsks \/ CreateLaunches \/ RequestRefused \/ RetryCommits
             \/ \E i \in Item : CreateNames(i)
             \/ \E items \in SUBSET Item : RetryAsks(items)
             \/ \E r \in Run : RunTask(r)
             \/ \E i \in Item, k \in Key : Settles(i, k)
             \/ \E n \in Node : \/ BeginNodeServerRemoval(n) \/ CancelUnstartedNodeServerRemoval(n)
                               \/ CompleteNodeServerRemoval(n) \/ DeleteNodeServerRecords(n)
             \/ Crash \/ RecoverKernelTasks \/ UNCHANGED vars
    <3>1. lost' \in {lost, lost + 1}
      BY <2>4 DEF CreateAsks, CreateLaunches, RequestRefused, RetryCommits, CreateNames, RetryAsks,
         database, RunTask, Counts, Reports, CanaryPasses, CanaryFails, Finishes, Settles,
         BeginNodeServerRemoval, CancelUnstartedNodeServerRemoval, CompleteNodeServerRemoval,
         DeleteNodeServerRecords, RegistryOnly, Crash, RecoverKernelTasks, vars
    <3> QED
      BY <2>1, <3>1 DEF Calm
  <2> QED
    BY <2>1, <2>3, <2>4 DEF Next, Calm
<1>3. ASSUME NEW i \in Item, row[i] = Absent PROVE row'[i] = Absent
  <2>1. ASSUME NEW r \in Run, NEW j \in Item, Execute(r, j) PROVE row'[i] = Absent
    BY <1>3, <2>1, Moves DEF Elsewhere, Advances, Begun, Records, Concludes, Abandons, Wrote
  <2>2. ~(\E j \in Item : CreateNames(j))
    BY <1>3 DEF CreateNames, Typed, Named
  <2>3. CASE RetryCommits
    BY <1>3, <2>3 DEF RetryCommits, Rows
  <2>4. CASE RecoverKernelTasks
    BY <1>3, <2>4 DEF RecoverKernelTasks, Interrupted
  <2>5. CASE \E n \in Node : CompleteNodeServerRemoval(n) \/ DeleteNodeServerRecords(n)
    BY <1>3, <2>5 DEF CompleteNodeServerRemoval, DeleteNodeServerRecords, ClearHistory
  <2>6. CASE \/ CreateAsks \/ CreateLaunches \/ RequestRefused
             \/ \E items \in SUBSET Item : RetryAsks(items)
             \/ \E r \in Run : RunTask(r)
             \/ \E j \in Item, k \in Key : Settles(j, k)
             \/ \E n \in Node : BeginNodeServerRemoval(n) \/ CancelUnstartedNodeServerRemoval(n)
             \/ Crash \/ UNCHANGED vars
    BY <1>3, <2>6 DEF CreateAsks, CreateLaunches, RequestRefused, RetryAsks, database, RunTask,
       Counts, Reports, CanaryPasses, CanaryFails, Finishes, Settles, BeginNodeServerRemoval,
       CancelUnstartedNodeServerRemoval, Crash, vars
  <2> QED
    BY <2>1, <2>2, <2>3, <2>4, <2>5, <2>6 DEF Next
<1> QED
  BY <1>1, <1>2, <1>3 DEF Calm

LEMMA OpeningRunsRun ==
  ASSUME Faithful, Undisturbed, Calm, NEW r \in Run, NEW i \in Item, worker[r][i] = "todo"
  PROVE  StatusOfRows = "running"
<1>1. Working(r, i) /\ row[i] # Absent
  BY DEF Working, Calm
<1>2. row[i].stage \in {"queued", "active"}
  BY <1>1 DEF Undisturbed, Calm, Current
<1> QED
  BY <1>1, <1>2, StatusIsRunning DEF Over

(* A run of a calm task goes on.                                           *)
LEMMA RunsAreOrderly ==
  ASSUME Faithful, Undisturbed, Serial, Orderly, Calm, Calm', NEW q \in Run, RunTask(q)
  PROVE  Orderly'
<1>0. /\ Typed /\ Bookkeeping /\ Opening
      /\ Alive(q) /\ \A r \in Run : r # q => ~Alive(r)
      /\ Reporting(q)
      /\ request.kind \notin {"name", "retry"}
  <2>1. Typed /\ Bookkeeping /\ Opening
    BY DEF Faithful
  <2>2. Alive(q) /\ request.kind # "name"
    BY <2>1, RunsAfterOpening
  <2> QED
    BY <2>1, <2>2 DEF Orderly, AllOver
<1>1. UNCHANGED <<request, row>>
  BY DEF RunTask, Counts, Reports, CanaryPasses, CanaryFails, Finishes, RunOnly, database
<1>2. Rows # {} /\ StatusOfRows' = StatusOfRows
  <2>1. Rows # {}
    BY DEF Calm, Rows
  <2> QED
    BY <1>1, <2>1, StatusStays
<1>3. \A r \in Run : r # q => run'[r] = run[r]
  BY <1>0 DEF RunTask, Counts, Reports, CanaryPasses, CanaryFails, Finishes, Goto, Typed, TypeOK
<1>4. \A r \in Run : r # q => ~Alive(r)'
  BY <1>0, <1>3 DEF Alive
<1>5. ASSUME Alive(q)', Reporting(q)' PROVE Orderly'
  BY <1>0, <1>1, <1>4, <1>5 DEF Orderly, AllOver
<1>6. CASE Counts(q)
  <2>1. /\ run'[q].pc = run[q].pc /\ run'[q].view = StatusOfRows
        /\ UNCHANGED <<worker, status>>
    BY <1>0, <1>6 DEF Counts, Typed, TypeOK, database
  <2> QED
    BY <1>0, <1>2, <1>5, <2>1 DEF Alive, Reporting
<1>7. CASE CanaryPasses(q) \/ CanaryFails(q) \/ Finishes(q)
  <2>1. /\ run'[q].pc \in {"others", "stopping", "closing"} /\ run'[q].view = "none"
        /\ status' = status
    BY <1>0, <1>7 DEF CanaryPasses, CanaryFails, Finishes, Goto, Typed, TypeOK, database
  <2> QED
    BY <1>0, <1>5, <2>1 DEF Alive, Reporting
<1>8. CASE Reports(q)
  <2>1. run[q].view = StatusOfRows /\ run[q].pc \in {"opening", "opening_all", "closing"}
    BY <1>0, <1>8 DEF Reports, Bookkeeping, Reporting
  <2>2. lost \in Nat /\ lost = 0 /\ lost' = 0
    BY <1>0 DEF Typed, TypeOK, Calm
  <2>3. status' = StatusOfRows
    BY <1>0, <1>8, <2>1, <2>2 DEF Reports, Reporting
  <2>4. run'[q].pc = AfterReport(run[q].pc) /\ run'[q].view = "none"
    BY <1>0, <1>8 DEF Reports, Goto, Typed, TypeOK
  <2>5. CASE run[q].pc = "closing"
    <3>1. AllOver'
      BY <1>4, <2>4, <2>5 DEF AllOver, Alive, AfterReport
    <3> QED
      BY <1>0, <1>1, <1>2, <2>3, <3>1 DEF Orderly, AllOver
  <2>6. CASE run[q].pc # "closing"
    <3>1. run'[q].pc \in {"canary", "others"}
      BY <2>1, <2>4, <2>6 DEF AfterReport
    <3>2. PICK i \in Item : worker[q][i] = "todo"
      BY <1>0, <2>1, <2>6 DEF Reporting
    <3>3. status' = "running"
      BY <2>3, <3>2, OpeningRunsRun
    <3> QED
      BY <1>5, <2>4, <3>1, <3>3 DEF Alive, Reporting
  <2> QED
    BY <2>5, <2>6
<1> QED
  BY <1>6, <1>7, <1>8 DEF RunTask

LEMMA WorkersAreOrderly ==
  ASSUME Faithful, Serial, Orderly, Calm, Calm', NEW q \in Run, NEW i \in Item, Execute(q, i)
  PROVE  Orderly'
<1>0. /\ Typed /\ Bookkeeping
      /\ Alive(q) /\ \A r \in Run : r # q => ~Alive(r)
      /\ Reporting(q)
      /\ request.kind \notin {"name", "retry"}
  <2>1. Typed /\ Bookkeeping /\ Opening
    BY DEF Faithful
  <2>2. Alive(q) /\ request.kind # "name"
    BY <2>1, RunsAfterOpening
  <2> QED
    BY <2>1, <2>2 DEF Orderly, AllOver
<1>1. Working(q, i) /\ UNCHANGED <<run, request, status>>
  BY <1>0, Moves DEF Elsewhere
<1>2. run[q].pc \in {"canary", "others", "stopping"}
  <2>1. CASE worker[q][i] = "todo"
    BY <2>1, Turns DEF TakesTurn
  <2>2. CASE worker[q][i] \in Busy
    <3>1. run[q].pc \notin {"opening", "opening_all", "closing"}
      BY <2>2 DEF Serial, Queued, Resting, Busy, Holding
    <3> QED
      BY <1>0, <3>1 DEF Alive, Typed, TypeOK
  <2> QED
    BY <1>1, <2>1, <2>2 DEF Working
<1>3. run[q].view = "none"
  BY <1>0, <1>2 DEF Bookkeeping
<1>4. Alive(q)' /\ Reporting(q)' /\ \A r \in Run : r # q => ~Alive(r)'
  BY <1>0, <1>1, <1>2, <1>3 DEF Alive, Reporting
<1> QED
  BY <1>0, <1>1, <1>4 DEF Orderly, AllOver

LEMMA RequestsAreOrderly ==
  ASSUME Faithful, Orderly, Calm, Calm',
         \/ CreateAsks \/ CreateLaunches \/ RequestRefused \/ RetryCommits
         \/ \E i \in Item : CreateNames(i)
         \/ \E items \in SUBSET Item : RetryAsks(items)
  PROVE  Orderly'
<1>0. Typed /\ Goroutines /\ Opening
  BY Parts DEF Faithful
<1>1. Rows # {} /\ Item # {}
  BY DEF Calm, Rows
<1>2. ~CreateAsks
  <2>1. CreateAsks => \A i \in Item : row[i] = Absent
    BY <1>0 DEF CreateAsks, Opening
  <2> QED
    BY <1>1, <2>1 DEF Calm
<1>3. CASE RequestRefused \/ \E items \in SUBSET Item : RetryAsks(items)
  <2>1. UNCHANGED <<run, worker, row, status>>
    BY <1>3 DEF RequestRefused, RetryAsks, goroutines, database
  <2>2. StatusOfRows' = StatusOfRows
    BY <2>1, StatusStays
  <2>3. /\ request'.kind # "name"
        /\ request'.kind = "retry" => RunsLeft /\ status \in {"failed", "partial"}
    BY <1>3 DEF RequestRefused, RetryAsks, Idle, Calm
  <2>4. status \in {"failed", "partial"} => AllOver
    BY DEF Orderly, Reporting, AllOver
  <2> QED
    BY <2>1, <2>2, <2>3, <2>4 DEF Orderly, Alive, AllOver, Quiet, RunsLeft, Reporting
<1>4. ASSUME NEW i \in Item, CreateNames(i) PROVE Orderly'
  <2>1. Quiet /\ UNCHANGED <<run, status>> /\ status = "queued"
    BY <1>0, <1>4 DEF CreateNames, goroutines, Opening, Orderly
  <2>2. request'.kind # "retry"
    <3>1. request' = Idle \/ request' = [request EXCEPT !.items = request.items \ {i}]
      BY <1>4 DEF CreateNames
    <3>2. request.kind = "name" /\ request \in [kind : {"none", "create", "name", "retry"}, items : SUBSET Item]
      BY <1>0, <1>4 DEF CreateNames, Typed, TypeOK
    <3> QED
      BY <3>1, <3>2 DEF Idle
  <2>3. Quiet' /\ \A r \in Run : ~Alive(r)'
    BY <2>1 DEF Quiet, Alive
  <2> QED
    BY <2>1, <2>2, <2>3 DEF Orderly
<1>5. ASSUME AllOver, RunsLeft, status' = "queued", request' = Idle,
             NEW items \in SUBSET Item, items # {}, NEW table,
             NEW gated \in BOOLEAN, NEW token \in BOOLEAN, Launch(items, table, gated, token)
      PROVE  Orderly'
  <2>1. PICK new \in Run : new = NewRun
    BY <1>5, NewRunIsFree
  <2>2. \A r \in Run : r # new => run'[r] = run[r]
    BY <1>0, <1>5, <2>1, Launched
  <2>3. /\ run'[new].pc \in {"opening", "opening_all"} /\ run'[new].view = "none"
        /\ \A i \in Item : worker'[new][i] = IF i \in items THEN "todo" ELSE "none"
    BY <1>0, <1>5, <2>1 DEF Launch, Goroutines
  <2>4. \A r \in Run : Alive(r)' => r = new
    BY <1>5, <2>2 DEF AllOver, Alive
  <2>5. Alive(new)' /\ Reporting(new)'
    BY <1>5, <2>3 DEF Alive, Reporting
  <2>6. request'.kind = "none"
    BY <1>5 DEF Idle
  <2> QED
    BY <2>1, <2>4, <2>5, <2>6 DEF Orderly, AllOver
<1>6. CASE CreateLaunches
  <2> DEFINE gated == Canary # NoNode
             all == Item
  <2>1. /\ Launch(all, row, gated, TRUE) /\ gated \in BOOLEAN /\ request' = Idle
        /\ request.kind = "name" /\ status' = status
        /\ all \in SUBSET Item /\ all # {}
    BY <1>1, <1>6 DEF CreateLaunches, database
  <2>2. Quiet /\ status = "queued"
    BY <1>0, <2>1 DEF Opening, Orderly
  <2>3. AllOver
    BY <2>2 DEF Quiet, AllOver, Alive
  <2>4. RunsLeft
    <3>1. 1 \in Run
      BY BoundsNatural DEF Run
    <3> QED
      BY <2>2, <3>1 DEF Quiet, RunsLeft
  <2> HIDE DEF gated, all
  <2> QED
    BY <1>5, <2>1, <2>2, <2>3, <2>4
<1>7. CASE RetryCommits
  <2> DEFINE again == {i \in request.items \cap Rows : Failed(i)}
             table == [i \in Item |-> IF i \in again THEN Again(row[i]) ELSE row[i]]
  <2>1. /\ Launch(again, table, FALSE, TRUE) /\ again # {} /\ request.kind = "retry"
        /\ status' = "queued" /\ request' = Idle
    BY <1>7 DEF RetryCommits
  <2>2. again \in SUBSET Item
    BY DEF Rows
  <2>3. AllOver /\ RunsLeft
    BY <2>1 DEF Orderly
  <2> HIDE DEF again, table
  <2> QED
    BY <1>5, <2>1, <2>2, <2>3
<1> QED
  BY <1>2, <1>3, <1>4, <1>6, <1>7

LEMMA OrderlyStays ==
  ASSUME Faithful, Undisturbed, Serial, Orderly, [Next]_vars
  PROVE  Orderly'
<1> SUFFICES ASSUME Calm' PROVE Orderly'
  BY DEF Orderly
<1>0. Typed /\ Opening
  BY DEF Faithful
<1>1. CASE CreateCommits
  <2>1. Quiet /\ run' = run /\ status' = "queued"
    BY <1>0, <1>1 DEF CreateCommits, Opening, goroutines
  <2>2. request'.kind = "name"
    <3>1. request \in [kind : {"none", "create", "name", "retry"}, items : SUBSET Item]
      BY <1>0 DEF Typed, TypeOK
    <3> QED
      BY <1>1, <3>1 DEF CreateCommits
  <2>3. Quiet' /\ \A r \in Run : ~Alive(r)'
    BY <2>1 DEF Quiet, Alive
  <2> QED
    BY <2>1, <2>2, <2>3 DEF Orderly
<1>2. CASE ~CreateCommits
  <2>1. Calm
    BY <1>0, <1>2, CalmBefore
  <2>2. ~Crash
    BY <2>1 DEF Crash, Calm
  <2>3. ~RecoverKernelTasks
    BY <2>1 DEF RecoverKernelTasks, Undisturbed, Calm
  <2>4. ASSUME UNCHANGED <<run, worker, row, request, status>> PROVE Orderly'
    <3>1. StatusOfRows' = StatusOfRows
      BY <2>4, StatusStays
    <3> QED
      BY <2>1, <2>4, <3>1 DEF Orderly, Alive, AllOver, Quiet, RunsLeft, Reporting
  <2>5. ASSUME NEW n \in Node, CompleteNodeServerRemoval(n) \/ DeleteNodeServerRecords(n)
        PROVE  Orderly'
    <3>1. UNCHANGED <<run, worker, request>> /\ (ClearHistory(n) \/ UNCHANGED <<row, status>>)
      BY <2>5 DEF CompleteNodeServerRemoval, DeleteNodeServerRecords, RegistryOnly, goroutines
    <3>2. CASE ClearHistory(n)
      <4>1. \A i \in Item : NodeOf[i] # n
        BY <3>2 DEF ClearHistory, Calm
      <4>2. row' = row
        <5>1. row' = [i \in Item |-> row[i]]
          BY <3>2, <4>1 DEF ClearHistory
        <5> QED
          BY <1>0, <5>1 DEF Typed, TypeOK
      <4>3. \E i \in Rows : NodeOf[i] # n
        BY <2>1, <4>1 DEF Calm, Rows
      <4>4. status' = status
        BY <3>2, <4>3 DEF ClearHistory
      <4> QED
        BY <2>4, <3>1, <4>2, <4>4
    <3> QED
      BY <2>4, <3>1, <3>2
  <2>6. CASE \/ \E i \in Item, k \in Key : Settles(i, k)
             \/ \E n \in Node : BeginNodeServerRemoval(n) \/ CancelUnstartedNodeServerRemoval(n)
             \/ UNCHANGED vars
    <3>1. UNCHANGED <<run, worker, row, request, status>>
      BY <2>6 DEF Settles, BeginNodeServerRemoval, CancelUnstartedNodeServerRemoval, RegistryOnly,
                  goroutines, database, vars
    <3> QED
      BY <2>4, <3>1
  <2> QED
    BY <1>2, <2>1, <2>2, <2>3, <2>5, <2>6, RequestsAreOrderly, RunsAreOrderly, WorkersAreOrderly
    DEF Next
<1> QED
  BY <1>1, <1>2

(* RefreshKernelTaskStatus counts and writes in two statements, and the    *)
(* page offers a retry by the status: as long as retries come from the     *)
(* page and the panel does not restart, a row that nobody works on has its *)
(* result when its stage is final, and (if no write was lost) the status   *)
(* that a task ends with is the one of its rows.                           *)
THEOREM EndedTasksAreSettled ==
  Spec => [](restarts = 0 /\ ~RetryWhileRunning => EndedTaskIsSettled)
<1>1. Init => Settled /\ Orderly
  BY DEF Init, Settled, Orderly, Rows, Calm, Idle, Unused, Alive, AllOver, Quiet
<1>2. Faithful /\ Undisturbed /\ Settled /\ [Next]_vars => Settled'
  BY SettledStays
<1>3. Faithful /\ Undisturbed /\ Serial /\ Orderly /\ [Next]_vars => Orderly'
  BY OrderlyStays
<1>4. Settled /\ Orderly => (restarts = 0 /\ ~RetryWhileRunning => EndedTaskIsSettled)
  <2> SUFFICES ASSUME Settled, Orderly, restarts = 0, ~RetryWhileRunning
               PROVE  OverHasResult /\ StatusIsCurrent
    BY DEF EndedTaskIsSettled
  <2>1. OverHasResult
    BY DEF OverHasResult, Settled
  <2>2. ASSUME Rows = Item, lost = 0, \A r \in Run : ~Alive(r), \E r \in Run : run[r].pc = "done"
        PROVE  status = StatusOfRows
    <3>1. CASE Item = {}
      BY <2>2, <3>1 DEF StatusOfRows
    <3>2. CASE Item # {}
      <4>1. Calm
        BY <2>2, <3>2 DEF Calm, Rows
      <4>2. AllOver /\ ~Quiet
        BY <2>2 DEF AllOver, Quiet
      <4> QED
        BY <4>1, <4>2 DEF Orderly
    <3> QED
      BY <3>1, <3>2
  <2> QED
    BY <2>1, <2>2 DEF StatusIsCurrent
<1> QED
  BY <1>1, <1>2, <1>3, <1>4, FaithfulInvariant, UndisturbedInvariant, SerialInvariant, PTL DEF Spec
=============================================================================
