-------------------------- MODULE NodeRemoval_proofs --------------------------
(***************************************************************************)
(* The order of a removal, for any number of nodes, receipts, crashes and  *)
(* lost calls: nothing is usable that an uninstall has touched, nothing is *)
(* deleted that was not uninstalled, and the receipt outlives the outbox.  *)
(***************************************************************************)
EXTENDS NodeRemoval, TLAPS

(* A call that is still waited for belongs to the operation that sent it.  *)
Served(n) == serving[n] # None /\ serving[n].live

Attended ==
  /\ \A call \in requests :
       call.live => /\ op[call.node].at = "remove"
                    /\ op[call.node].mode = call.mode
                    /\ ~Served(call.node)
  /\ \A n \in Node : Served(n) => /\ op[n].at = "remove"
                                  /\ op[n].mode = serving[n].mode

(* What each step of an operation knows about the registration.            *)
Ordered ==
  /\ \A n \in Node :
       /\ op[n].at = "preflight" => server[n] = "registered" /\ op[n].fresh
       /\ op[n].at = "begin" => server[n] = IF op[n].fresh THEN "registered" ELSE "removing"
       /\ op[n].at \in {"remove", "cancel", "complete"} => server[n] = "removing"
       /\ op[n].at = "finalize" => server[n] = "uninstalled"
  /\ \A item \in outbox \cup batch \cup finals : server[item.node] = "uninstalled"

Calls(n) == {call \in requests : call.node = n}

(* Nobody is on the way to a host that is usable, or may be again.         *)
Untouched ==
  \A n \in Node :
    /\ \/ server[n] = "registered"
       \/ op[n].at = "cancel" /\ op[n].fresh
       => n \notin touched /\ Calls(n) = {} /\ serving[n] = None
    /\ op[n].at = "remove" /\ op[n].fresh =>
         /\ \A call \in Calls(n) : call.live
         /\ serving[n] # None => serving[n].live
         /\ Calls(n) # {} => n \notin touched /\ serving[n] = None

(* What the host keeps, and for how long.                                  *)
Kept ==
  \A n \in Node :
    /\ server[n] \in {"registered", "removing"} =>
         /\ cleanup[n] = "none" /\ loop[n] = "off" /\ ~callback[n]
         /\ history[n]
    /\ n \notin superseded =>
         /\ result[n] # None => ~installed[n] /\ serving[n] = None
         /\ service[n] = "executed" => ~installed[n]
         /\ server[n] = "uninstalled" =>
              /\ ~installed[n]
              /\ result[n] # None => history[n] = (result[n].mode = "keep")
              /\ result[n] = None => service[n] = "down" /\ cleanup[n] \in {"erased", "gone"}
         /\ loop[n] = "acked" => Rows(n) = {}
         /\ \A item \in Rows(n) : Matches(item) /\ cleanup[n] = "none"

(* The panel deletes with the receipt and the mode that the host has saved. *)
Receipted ==
  \A n \in Node : n \notin superseded /\ op[n].at = "complete" =>
    result[n] # None /\ result[n].mode = op[n].mode /\ result[n].receipt = op[n].receipt

Removal == TypeOK /\ Attended /\ Ordered /\ Untouched /\ Kept /\ Receipted

(* The actions, in groups that touch the same state.                       *)
Asks(n) ==
  \/ \E m \in Mode : Uninstall(n, m)
  \/ PreflightPasses(n) \/ PreflightRefuses(n) \/ Begin(n) \/ BeginRefused(n)

Settles(n) == GivesUp(n) \/ Cancel(n) \/ Complete(n) \/ Finalize(n) \/ DeleteRecords(n)

Shares(n) == RequestUpdate(n) \/ UpdateAnswered(n) \/ CreateTask(n) \/ TaskEnds(n)

Answers(call) == AnswerAgain(call) \/ RefuseRemoval(call) \/ FailRemoval(call) \/ BeginExecute(call)

Executes(n) == Executed(n) \/ ExecuteFails(n) \/ SaveReceipt(n)

Cleans(n) == Callback(n) \/ CleanupStep(n) \/ CleanupFails(n)

Runs(n) ==
  ServeUpdate(n) \/ JobEnds(n) \/ ServiceDies(n) \/ ServiceBoots(n) \/ ClearLock(n) \/ Reinstall(n)

Passes == FinalizerReads \/ FinalizerTakes \/ PanelCrashes

LEMMA NextSplits ==
  ASSUME [Next]_vars
  PROVE  \/ \E n \in Node : \/ Asks(n) \/ Settles(n) \/ Shares(n)
                           \/ Executes(n) \/ Cleans(n) \/ Runs(n)
         \/ \E call \in requests : Answers(call)
         \/ \E item \in finals : ServeFinalize(item)
         \/ Passes
         \/ UNCHANGED vars
  BY DEF Next, PanelStep, HostStep, Serve, Asks, Settles, Shares, Answers, Executes, Cleans,
       Runs, Passes

(* TypeOK by parts: the panel's rows, its operations, the hosts' truth     *)
(* values and states, the network and what happened.                       *)
RowsType ==
  /\ server \in [Node -> Registration] /\ tasks \subseteq Node
  /\ outbox \subseteq Outbox /\ batch \subseteq Outbox /\ finals \subseteq Outbox

OpType ==
  /\ op \in [Node -> Operation]
  /\ \A n \in Node :
       /\ op[n].at # "free" => op[n].mode \in Mode
       /\ op[n].at \in {"complete", "finalize"} => op[n].receipt \in Receipt

FlagType ==
  /\ history \in [Node -> BOOLEAN] /\ installed \in [Node -> BOOLEAN]
  /\ job \in [Node -> BOOLEAN] /\ callback \in [Node -> BOOLEAN]

HostType ==
  /\ product \in [Node -> {"free", "held", "stale"}]
  /\ cleanup \in [Node -> {"none", "marked", "erased", "gone"}]
  /\ loop \in [Node -> {"off", "calling", "acked"}]
  /\ result \in [Node -> [mode : Mode, receipt : Receipt] \cup {None}]

ServingType ==
  /\ service \in [Node -> {"up", "executing", "executed", "down"}]
  /\ serving \in [Node -> [mode : Mode, live : BOOLEAN] \cup {None}]
  /\ \A n \in Node : service[n] \in {"executing", "executed"} <=> serving[n] # None

RequestsType == requests \subseteq [node : Node, mode : Mode, live : BOOLEAN]

NetworkType ==
  /\ admission \in Node \cup {None} /\ update \in Node \cup {None} /\ updates \subseteq Node
  /\ faults \in [{"panel", "service", "lost", "repair"} -> Nat]
  /\ touched \subseteq Node /\ superseded \subseteq Node

LEMMA TypeParts ==
  TypeOK <=> RowsType /\ OpType /\ FlagType /\ HostType /\ ServingType /\ RequestsType /\ NetworkType
  BY DEF TypeOK, RowsType, OpType, FlagType, HostType, ServingType, RequestsType, NetworkType

(* A caller that has gone leaves its call as it is otherwise.              *)
LEMMA Hangup ==
  /\ \A s \in [mode : Mode, live : BOOLEAN] :
       /\ [s EXCEPT !.live = FALSE] \in [mode : Mode, live : BOOLEAN]
       /\ [s EXCEPT !.live = FALSE] # None
  /\ \A call \in [node : Node, mode : Mode, live : BOOLEAN] :
       [call EXCEPT !.live = FALSE] \in [node : Node, mode : Mode, live : BOOLEAN]
  BY NoneAssumption

LEMMA ItemTyped ==
  ASSUME OpType, NEW n \in Node, op[n].at \in {"complete", "finalize"}
  PROVE  Item(n) \in Outbox
  BY DEF OpType, Item, Outbox

LEMMA RowsTypeSteps == ASSUME RowsType, OpType, [Next]_vars PROVE RowsType'
<1> USE DEF RowsType, Registration, Outbox, PanelOnly, HostOnly, Happens, host, database,
     memory, network, past
<1>1. ASSUME NEW n \in Node, Asks(n) PROVE RowsType'
  BY <1>1 DEF Asks, Uninstall, PreflightPasses, PreflightRefuses, Withdraw, Begin, BeginRefused
<1>2. ASSUME NEW n \in Node, Settles(n) PROVE RowsType'
  <2>1. CASE GivesUp(n)
    BY <1>2, <2>1 DEF GivesUp
  <2>2. CASE Cancel(n)
    BY <1>2, <2>2 DEF Cancel
  <2>3. CASE Complete(n)
    <3>1. Item(n) \in Outbox
      BY <1>2, <2>3, ItemTyped DEF Complete
    <3> QED
      BY <1>2, <2>3, <3>1 DEF Complete
  <2>4. CASE Finalize(n)
    BY <1>2, <2>4 DEF Finalize, Item
  <2>5. CASE DeleteRecords(n)
    BY <1>2, <2>5 DEF DeleteRecords, Rows
  <2> QED
    BY <1>2, <2>1, <2>2, <2>3, <2>4, <2>5 DEF Settles
<1>3. ASSUME NEW n \in Node, Shares(n) PROVE RowsType'
  BY <1>3 DEF Shares, RequestUpdate, UpdateAnswered, CreateTask, TaskEnds
<1>4. ASSUME NEW n \in Node, Executes(n) PROVE RowsType'
  BY <1>4 DEF Executes, Executed, ExecuteFails, ReplyError, Answered, SaveReceipt, Reply
<1>5. ASSUME NEW n \in Node, Cleans(n) PROVE RowsType'
  BY <1>5 DEF Cleans, Callback, OutboxWithout, CleanupStep, NextCleanup, CleanupFails
<1>6. ASSUME NEW n \in Node, Runs(n) PROVE RowsType'
  BY <1>6 DEF Runs, ServeUpdate, JobEnds, ServiceDies, ServiceBoots, ClearLock, Reinstall
<1>7. ASSUME NEW call \in requests, Answers(call) PROVE RowsType'
  BY <1>7 DEF Answers, AnswerAgain, Reply, ReplyError, RefuseRemoval, FailRemoval, BeginExecute
<1>8. ASSUME NEW item \in finals, ServeFinalize(item) PROVE RowsType'
  BY <1>8 DEF ServeFinalize
<1>9. CASE Passes
  BY <1>9 DEF Passes, FinalizerReads, FinalizerTakes, PanelCrashes
<1>10. CASE UNCHANGED vars
  BY <1>10 DEF vars
<1> QED
  BY NextSplits, <1>1, <1>2, <1>3, <1>4, <1>5, <1>6, <1>7, <1>8, <1>9, <1>10

LEMMA FlagTypeSteps == ASSUME FlagType, [Next]_vars PROVE FlagType'
<1> USE DEF FlagType, PanelOnly, HostOnly, Happens, host, database, memory, network, past
<1>1. ASSUME NEW n \in Node, Asks(n) PROVE FlagType'
  BY <1>1 DEF Asks, Uninstall, PreflightPasses, PreflightRefuses, Withdraw, Begin, BeginRefused
<1>2. ASSUME NEW n \in Node, Settles(n) PROVE FlagType'
  BY <1>2 DEF Settles, GivesUp, Cancel, Complete, Item, Finalize, DeleteRecords, Rows
<1>3. ASSUME NEW n \in Node, Shares(n) PROVE FlagType'
  BY <1>3 DEF Shares, RequestUpdate, UpdateAnswered, CreateTask, TaskEnds
<1>4. ASSUME NEW n \in Node, Executes(n) PROVE FlagType'
  BY <1>4 DEF Executes, Executed, ExecuteFails, ReplyError, Answered, SaveReceipt, Reply
<1>5. ASSUME NEW n \in Node, Cleans(n) PROVE FlagType'
  BY <1>5 DEF Cleans, Callback, OutboxWithout, CleanupStep, NextCleanup, CleanupFails
<1>6. ASSUME NEW n \in Node, Runs(n) PROVE FlagType'
  BY <1>6 DEF Runs, ServeUpdate, JobEnds, ServiceDies, ServiceBoots, ClearLock, Reinstall
<1>7. ASSUME NEW call \in requests, Answers(call) PROVE FlagType'
  BY <1>7 DEF Answers, AnswerAgain, Reply, ReplyError, RefuseRemoval, FailRemoval, BeginExecute
<1>8. ASSUME NEW item \in finals, ServeFinalize(item) PROVE FlagType'
  BY <1>8 DEF ServeFinalize
<1>9. CASE Passes
  BY <1>9 DEF Passes, FinalizerReads, FinalizerTakes, PanelCrashes
<1>10. CASE UNCHANGED vars
  BY <1>10 DEF vars
<1> QED
  BY NextSplits, <1>1, <1>2, <1>3, <1>4, <1>5, <1>6, <1>7, <1>8, <1>9, <1>10

LEMMA HostTypeSteps == ASSUME HostType, ServingType, [Next]_vars PROVE HostType'
<1> USE DEF HostType, ServingType, PanelOnly, HostOnly, Happens, host, database, memory,
     network, past
<1>1. ASSUME NEW n \in Node, Asks(n) PROVE HostType'
  BY <1>1 DEF Asks, Uninstall, PreflightPasses, PreflightRefuses, Withdraw, Begin, BeginRefused
<1>2. ASSUME NEW n \in Node, Settles(n) PROVE HostType'
  BY <1>2 DEF Settles, GivesUp, Cancel, Complete, Item, Finalize, DeleteRecords, Rows
<1>3. ASSUME NEW n \in Node, Shares(n) PROVE HostType'
  BY <1>3 DEF Shares, RequestUpdate, UpdateAnswered, CreateTask, TaskEnds
<1>4. ASSUME NEW n \in Node, Executes(n) PROVE HostType'
  BY <1>4 DEF Executes, Executed, ExecuteFails, ReplyError, Answered, SaveReceipt, Reply
<1>5. ASSUME NEW n \in Node, Cleans(n) PROVE HostType'
  BY <1>5 DEF Cleans, Callback, OutboxWithout, CleanupStep, NextCleanup, CleanupFails
<1>6. ASSUME NEW n \in Node, Runs(n) PROVE HostType'
  BY <1>6 DEF Runs, ServeUpdate, JobEnds, ServiceDies, ServiceBoots, ClearLock, Reinstall
<1>7. ASSUME NEW call \in requests, Answers(call) PROVE HostType'
  BY <1>7 DEF Answers, AnswerAgain, Reply, ReplyError, RefuseRemoval, FailRemoval, BeginExecute
<1>8. ASSUME NEW item \in finals, ServeFinalize(item) PROVE HostType'
  BY <1>8 DEF ServeFinalize
<1>9. CASE Passes
  BY <1>9 DEF Passes, FinalizerReads, FinalizerTakes, PanelCrashes
<1>10. CASE UNCHANGED vars
  BY <1>10 DEF vars
<1> QED
  BY NextSplits, <1>1, <1>2, <1>3, <1>4, <1>5, <1>6, <1>7, <1>8, <1>9, <1>10

LEMMA ServingTypeSteps == ASSUME ServingType, RequestsType, [Next]_vars PROVE ServingType'
<1> USE NoneAssumption, Hangup DEF ServingType, RequestsType, PanelOnly, HostOnly, Happens,
     host, database, memory, network, past
<1>1. ASSUME NEW n \in Node, Asks(n) PROVE ServingType'
  BY <1>1 DEF Asks, Uninstall, PreflightPasses, PreflightRefuses, Withdraw, Begin, BeginRefused
<1>2. ASSUME NEW n \in Node, Settles(n) PROVE ServingType'
  <2>1. CASE GivesUp(n)
    BY <1>2, <2>1 DEF GivesUp
  <2>2. CASE Cancel(n)
    BY <1>2, <2>2 DEF Cancel
  <2>3. CASE Complete(n)
    BY <1>2, <2>3 DEF Complete, Item
  <2>4. CASE Finalize(n)
    BY <1>2, <2>4 DEF Finalize, Item
  <2>5. CASE DeleteRecords(n)
    BY <1>2, <2>5 DEF DeleteRecords, Rows
  <2> QED
    BY <1>2, <2>1, <2>2, <2>3, <2>4, <2>5 DEF Settles
<1>3. ASSUME NEW n \in Node, Shares(n) PROVE ServingType'
  BY <1>3 DEF Shares, RequestUpdate, UpdateAnswered, CreateTask, TaskEnds
<1>4. ASSUME NEW n \in Node, Executes(n) PROVE ServingType'
  BY <1>4 DEF Executes, Executed, ExecuteFails, ReplyError, Answered, SaveReceipt, Reply
<1>5. ASSUME NEW n \in Node, Cleans(n) PROVE ServingType'
  BY <1>5 DEF Cleans, Callback, OutboxWithout, CleanupStep, NextCleanup, CleanupFails
<1>6. ASSUME NEW n \in Node, Runs(n) PROVE ServingType'
  BY <1>6 DEF Runs, ServeUpdate, JobEnds, ServiceDies, ServiceBoots, ClearLock, Reinstall
<1>7. ASSUME NEW call \in requests, Answers(call) PROVE ServingType'
  <2>1. CASE AnswerAgain(call)
    BY <1>7, <2>1 DEF AnswerAgain, Reply, ReplyError
  <2>2. CASE FailRemoval(call)
    BY <1>7, <2>2 DEF FailRemoval, ReplyError
  <2>3. CASE BeginExecute(call)
    BY <1>7, <2>3 DEF BeginExecute
  <2>4. CASE RefuseRemoval(call)
    BY <1>7, <2>4 DEF RefuseRemoval, Reply
  <2> QED
    BY <1>7, <2>1, <2>2, <2>3, <2>4 DEF Answers
<1>8. ASSUME NEW item \in finals, ServeFinalize(item) PROVE ServingType'
  BY <1>8 DEF ServeFinalize
<1>9. CASE Passes
  <2>1. CASE PanelCrashes
    BY <1>9, <2>1 DEF PanelCrashes
  <2>2. CASE FinalizerReads \/ FinalizerTakes
    BY <1>9, <2>2 DEF FinalizerReads, FinalizerTakes
  <2> QED
    BY <1>9, <2>1, <2>2 DEF Passes
<1>10. CASE UNCHANGED vars
  BY <1>10 DEF vars
<1> QED
  BY NextSplits, <1>1, <1>2, <1>3, <1>4, <1>5, <1>6, <1>7, <1>8, <1>9, <1>10

LEMMA RequestsTypeSteps == ASSUME RequestsType, OpType, [Next]_vars PROVE RequestsType'
<1> USE Hangup DEF RequestsType, PanelOnly, HostOnly, Happens, host, database, memory,
     network, past
<1>1. ASSUME NEW n \in Node, Asks(n) PROVE RequestsType'
  <2>1. CASE Begin(n)
    <3>1. op[n].mode \in Mode
      BY <1>1, <2>1 DEF Begin, OpType
    <3>2. requests' = requests \cup {[node |-> n, mode |-> op[n].mode, live |-> TRUE]}
      BY <1>1, <2>1 DEF Begin
    <3>3. [node |-> n, mode |-> op[n].mode, live |-> TRUE] \in [node : Node, mode : Mode,
         live : BOOLEAN]
      BY <3>1
    <3> QED
      BY <3>2, <3>3
  <2>2. CASE (\E m \in Mode : Uninstall(n, m)) \/ PreflightPasses(n) \/ PreflightRefuses(n)
       \/ BeginRefused(n)
    BY <1>1, <2>2 DEF Uninstall, PreflightPasses, PreflightRefuses, Withdraw, BeginRefused
  <2> QED
    BY <1>1, <2>1, <2>2 DEF Asks
<1>2. ASSUME NEW n \in Node, Settles(n) PROVE RequestsType'
  <2>1. CASE GivesUp(n)
    <3> DEFINE call == [node |-> n, mode |-> op[n].mode, live |-> TRUE]
    <3>1. \/ requests' = requests \ {call}
          \/ /\ call \in requests
             /\ requests' = (requests \ {call}) \cup {[call EXCEPT !.live = FALSE]}
      BY <1>2, <2>1 DEF GivesUp
    <3>2. call \in requests => [call EXCEPT !.live = FALSE] \in [node : Node, mode : Mode,
         live : BOOLEAN]
      BY Hangup
    <3> QED
      BY <3>1, <3>2
  <2>2. CASE Cancel(n) \/ Complete(n) \/ Finalize(n) \/ DeleteRecords(n)
    BY <1>2, <2>2 DEF Cancel, Complete, Item, Finalize, DeleteRecords, Rows
  <2> QED
    BY <1>2, <2>1, <2>2 DEF Settles
<1>3. ASSUME NEW n \in Node, Shares(n) PROVE RequestsType'
  BY <1>3 DEF Shares, RequestUpdate, UpdateAnswered, CreateTask, TaskEnds
<1>4. ASSUME NEW n \in Node, Executes(n) PROVE RequestsType'
  BY <1>4 DEF Executes, Executed, ExecuteFails, ReplyError, Answered, SaveReceipt, Reply
<1>5. ASSUME NEW n \in Node, Cleans(n) PROVE RequestsType'
  BY <1>5 DEF Cleans, Callback, OutboxWithout, CleanupStep, NextCleanup, CleanupFails
<1>6. ASSUME NEW n \in Node, Runs(n) PROVE RequestsType'
  BY <1>6 DEF Runs, ServeUpdate, JobEnds, ServiceDies, ServiceBoots, ClearLock, Reinstall
<1>7. ASSUME NEW call \in requests, Answers(call) PROVE RequestsType'
  BY <1>7 DEF Answers, AnswerAgain, Reply, ReplyError, RefuseRemoval, FailRemoval, BeginExecute
<1>8. ASSUME NEW item \in finals, ServeFinalize(item) PROVE RequestsType'
  BY <1>8 DEF ServeFinalize
<1>9. CASE Passes
  <2>1. CASE PanelCrashes
    <3>1. requests' = {[call EXCEPT !.live = FALSE] : call \in requests}
      BY <1>9, <2>1 DEF PanelCrashes
    <3> QED
      BY <3>1, Hangup
  <2>2. CASE FinalizerReads \/ FinalizerTakes
    BY <1>9, <2>2 DEF FinalizerReads, FinalizerTakes
  <2> QED
    BY <1>9, <2>1, <2>2 DEF Passes
<1>10. CASE UNCHANGED vars
  BY <1>10 DEF vars
<1> QED
  BY NextSplits, <1>1, <1>2, <1>3, <1>4, <1>5, <1>6, <1>7, <1>8, <1>9, <1>10

LEMMA NetworkTypeSteps == ASSUME NetworkType, ServingType, RequestsType, [Next]_vars PROVE
     NetworkType'
<1> USE DEF NetworkType, ServingType, RequestsType, PanelOnly, HostOnly, Happens, host,
     database, memory, network, past
<1>1. ASSUME NEW n \in Node, Asks(n) PROVE NetworkType'
  <2>1. CASE (\E m \in Mode : Uninstall(n, m))
    BY <1>1, <2>1 DEF Uninstall
  <2>2. CASE Begin(n)
    BY <1>1, <2>2 DEF Begin
  <2>3. CASE PreflightPasses(n) \/ PreflightRefuses(n) \/ BeginRefused(n)
    BY <1>1, <2>3 DEF PreflightPasses, PreflightRefuses, Withdraw, BeginRefused
  <2> QED
    BY <1>1, <2>1, <2>2, <2>3 DEF Asks
<1>2. ASSUME NEW n \in Node, Settles(n) PROVE NetworkType'
  <2>1. CASE GivesUp(n)
    BY <1>2, <2>1 DEF GivesUp
  <2>2. CASE Cancel(n)
    BY <1>2, <2>2 DEF Cancel
  <2>3. CASE Complete(n)
    BY <1>2, <2>3 DEF Complete, Item
  <2>4. CASE Finalize(n) \/ DeleteRecords(n)
    BY <1>2, <2>4 DEF Finalize, Item, DeleteRecords, Rows
  <2> QED
    BY <1>2, <2>1, <2>2, <2>3, <2>4 DEF Settles
<1>3. ASSUME NEW n \in Node, Shares(n) PROVE NetworkType'
  BY <1>3 DEF Shares, RequestUpdate, UpdateAnswered, CreateTask, TaskEnds
<1>4. ASSUME NEW n \in Node, Executes(n) PROVE NetworkType'
  BY <1>4 DEF Executes, Executed, ExecuteFails, ReplyError, Answered, SaveReceipt, Reply
<1>5. ASSUME NEW n \in Node, Cleans(n) PROVE NetworkType'
  BY <1>5 DEF Cleans, Callback, OutboxWithout, CleanupStep, NextCleanup, CleanupFails
<1>6. ASSUME NEW n \in Node, Runs(n) PROVE NetworkType'
  BY <1>6 DEF Runs, ServeUpdate, JobEnds, ServiceDies, ServiceBoots, ClearLock, Reinstall
<1>7. ASSUME NEW call \in requests, Answers(call) PROVE NetworkType'
  <2>1. CASE AnswerAgain(call)
    BY <1>7, <2>1 DEF AnswerAgain, Reply, ReplyError
  <2>2. CASE FailRemoval(call)
    BY <1>7, <2>2 DEF FailRemoval, ReplyError
  <2>3. CASE BeginExecute(call)
    BY <1>7, <2>3 DEF BeginExecute
  <2>4. CASE RefuseRemoval(call)
    BY <1>7, <2>4 DEF RefuseRemoval, Reply
  <2> QED
    BY <1>7, <2>1, <2>2, <2>3, <2>4 DEF Answers
<1>8. ASSUME NEW item \in finals, ServeFinalize(item) PROVE NetworkType'
  BY <1>8 DEF ServeFinalize
<1>9. CASE Passes
  <2>1. CASE PanelCrashes
    BY <1>9, <2>1 DEF PanelCrashes
  <2>2. CASE FinalizerReads \/ FinalizerTakes
    BY <1>9, <2>2 DEF FinalizerReads, FinalizerTakes
  <2> QED
    BY <1>9, <2>1, <2>2 DEF Passes
<1>10. CASE UNCHANGED vars
  BY <1>10 DEF vars
<1> QED
  BY NextSplits, <1>1, <1>2, <1>3, <1>4, <1>5, <1>6, <1>7, <1>8, <1>9, <1>10

LEMMA OpBecomes ==
  ASSUME OpType, NEW n \in Node, NEW r \in Operation,
         r.at # "free" => r.mode \in Mode,
         r.at \in {"complete", "finalize"} => r.receipt \in Receipt,
         op' = [op EXCEPT ![n] = r]
  PROVE  OpType'
  BY DEF OpType

(* The reply to a call that is still waited for comes to its operation.    *)
LEMMA ReplyTyped ==
  ASSUME OpType, NEW n \in Node, op[n].at = "remove", NEW r \in Receipt,
         op' = [op EXCEPT ![n].at = "complete", ![n].receipt = r]
  PROVE  OpType'
<1> DEFINE s == [op[n] EXCEPT !.at = "complete", !.receipt = r]
<1>1. s \in Operation /\ s.mode \in Mode /\ s.receipt \in Receipt
  BY DEF OpType, Operation
<1>2. op' = [op EXCEPT ![n] = s]
  OBVIOUS
<1> HIDE DEF s
<1> QED
  BY <1>1, <1>2, OpBecomes

LEMMA BeginTyped ==
  ASSUME OpType, NEW n \in Node, op[n].at = "begin", op' = [op EXCEPT ![n].at = "remove"]
  PROVE  OpType'
<1> DEFINE s == [op[n] EXCEPT !.at = "remove"]
<1>1. s \in Operation /\ s.mode \in Mode /\ s.at = "remove"
  BY DEF OpType, Operation
<1>2. op' = [op EXCEPT ![n] = s]
  OBVIOUS
<1> HIDE DEF s
<1> QED
  BY <1>1, <1>2, OpBecomes

LEMMA FreeTyped ==
  ASSUME OpType, NEW n \in Node, op' = op \/ op' = [op EXCEPT ![n] = Free]
  PROVE  OpType'
<1>1. Free \in Operation /\ Free.at = "free"
  BY DEF Free, Operation
<1> QED
  BY <1>1, OpBecomes DEF OpType

LEMMA OpTypeSteps == ASSUME TypeOK, Attended, [Next]_vars PROVE OpType'
<1> USE TypeParts DEF OpType, Free, Operation, Outbox, RowsType, RequestsType, ServingType,
     HostType, Attended, Served, PanelOnly, HostOnly, Happens, host, database, memory,
     network, past
<1>1. ASSUME NEW n \in Node, Asks(n) PROVE OpType'
  <2>1. CASE (\E m \in Mode : Uninstall(n, m))
    BY <1>1, <2>1 DEF Uninstall
  <2>2. CASE PreflightPasses(n)
    BY <1>1, <2>2 DEF PreflightPasses
  <2>3. CASE PreflightRefuses(n)
    BY <1>1, <2>3 DEF PreflightRefuses, Withdraw
  <2>4. CASE Begin(n)
    <3>1. op[n].at = "begin" /\ op' = [op EXCEPT ![n].at = "remove"]
      BY <1>1, <2>4 DEF Begin
    <3> QED
      BY <3>1, BeginTyped
  <2>5. CASE BeginRefused(n)
    BY <1>1, <2>5 DEF BeginRefused, Withdraw
  <2> QED
    BY <1>1, <2>1, <2>2, <2>3, <2>4, <2>5 DEF Asks
<1>2. ASSUME NEW n \in Node, Settles(n) PROVE OpType'
  <2>1. CASE GivesUp(n)
    BY <1>2, <2>1 DEF GivesUp
  <2>2. CASE Cancel(n)
    BY <1>2, <2>2 DEF Cancel
  <2>3. CASE Complete(n)
    BY <1>2, <2>3 DEF Complete, Item
  <2>4. CASE Finalize(n)
    BY <1>2, <2>4 DEF Finalize, Item
  <2>5. CASE DeleteRecords(n)
    BY <1>2, <2>5 DEF DeleteRecords, Rows
  <2> QED
    BY <1>2, <2>1, <2>2, <2>3, <2>4, <2>5 DEF Settles
<1>3. ASSUME NEW n \in Node, Shares(n) PROVE OpType'
  BY <1>3 DEF Shares, RequestUpdate, UpdateAnswered, CreateTask, TaskEnds
<1>4. ASSUME NEW n \in Node, Executes(n) PROVE OpType'
  <2>1. CASE ExecuteFails(n)
    BY <1>4, <2>1 DEF ExecuteFails, ReplyError, Answered
  <2>2. CASE SaveReceipt(n)
    <3>1. PICK r \in Receipt : Reply(Answered(n), "complete", r)
      BY <1>4, <2>2 DEF SaveReceipt
    <3>2. CASE serving[n].live
      <4>1. op[n].at = "remove"
        BY <1>4, <2>2, <3>2 DEF SaveReceipt
      <4>2. op' = [op EXCEPT ![n].at = "complete", ![n].receipt = r]
        BY <3>1, <3>2 DEF Reply, Answered
      <4> QED
        BY <4>1, <4>2, ReplyTyped
    <3>3. CASE ~serving[n].live
      BY <3>1, <3>3 DEF Reply, Answered
    <3> QED
      BY <3>2, <3>3
  <2>3. CASE Executed(n)
    BY <1>4, <2>3 DEF Executed
  <2> QED
    BY <1>4, <2>1, <2>2, <2>3 DEF Executes
<1>5. ASSUME NEW n \in Node, Cleans(n) PROVE OpType'
  BY <1>5 DEF Cleans, Callback, OutboxWithout, CleanupStep, NextCleanup, CleanupFails
<1>6. ASSUME NEW n \in Node, Runs(n) PROVE OpType'
  <2>1. CASE ServiceDies(n)
    BY <1>6, <2>1 DEF ServiceDies
  <2>2. CASE ServeUpdate(n) \/ JobEnds(n) \/ ServiceBoots(n) \/ ClearLock(n) \/ Reinstall(n)
    BY <1>6, <2>2 DEF ServeUpdate, JobEnds, ServiceBoots, ClearLock, Reinstall
  <2> QED
    BY <1>6, <2>1, <2>2 DEF Runs
<1>7. ASSUME NEW call \in requests, Answers(call) PROVE OpType'
  <2>1. CASE AnswerAgain(call)
    <3> DEFINE n == call.node
    <3>1. CASE call.live /\ cleanup[n] = "none" /\ call.mode = result[n].mode
      <4>1. n \in Node /\ op[n].at = "remove" /\ result[n].receipt \in Receipt
        BY <1>7, <2>1, <3>1 DEF AnswerAgain
      <4>2. op' = [op EXCEPT ![n].at = "complete", ![n].receipt = result[n].receipt]
        BY <1>7, <2>1, <3>1 DEF AnswerAgain, Reply
      <4> QED
        BY <4>1, <4>2, ReplyTyped
    <3>2. CASE ~(call.live /\ cleanup[n] = "none" /\ call.mode = result[n].mode)
      <4>1. op' = op \/ op' = [op EXCEPT ![n] = Free]
        BY <1>7, <2>1, <3>2 DEF AnswerAgain, Reply, ReplyError
      <4>2. n \in Node
        OBVIOUS
      <4> QED
        BY <4>1, <4>2, FreeTyped
    <3> QED
      BY <3>1, <3>2
  <2>2. CASE RefuseRemoval(call)
    BY <1>7, <2>2 DEF RefuseRemoval, Reply
  <2>3. CASE FailRemoval(call)
    BY <1>7, <2>3 DEF FailRemoval, ReplyError
  <2>4. CASE BeginExecute(call)
    BY <1>7, <2>4 DEF BeginExecute
  <2> QED
    BY <1>7, <2>1, <2>2, <2>3, <2>4 DEF Answers
<1>8. ASSUME NEW item \in finals, ServeFinalize(item) PROVE OpType'
  BY <1>8 DEF ServeFinalize
<1>9. CASE Passes
  <2>1. CASE FinalizerTakes
    BY <1>9, <2>1 DEF FinalizerTakes
  <2>2. CASE PanelCrashes
    BY <1>9, <2>2 DEF PanelCrashes
  <2>3. CASE FinalizerReads
    BY <1>9, <2>3 DEF FinalizerReads
  <2> QED
    BY <1>9, <2>1, <2>2, <2>3 DEF Passes
<1>10. CASE UNCHANGED vars
  BY <1>10 DEF vars
<1> QED
  BY NextSplits, <1>1, <1>2, <1>3, <1>4, <1>5, <1>6, <1>7, <1>8, <1>9, <1>10

LEMMA AttendedSteps == ASSUME TypeOK, Attended, [Next]_vars PROVE Attended'
<1> USE TypeParts, NoneAssumption DEF Attended, Served, Free, Operation, OpType,
     RequestsType, ServingType, PanelOnly, HostOnly, Happens, host, database, memory,
     network, past
<1>1. ASSUME NEW n \in Node, Asks(n) PROVE Attended'
  <2>1. CASE (\E m \in Mode : Uninstall(n, m))
    BY <1>1, <2>1 DEF Uninstall
  <2>2. CASE PreflightPasses(n)
    BY <1>1, <2>2 DEF PreflightPasses
  <2>3. CASE PreflightRefuses(n)
    BY <1>1, <2>3 DEF PreflightRefuses, Withdraw
  <2>4. CASE Begin(n)
    BY <1>1, <2>4 DEF Begin
  <2>5. CASE BeginRefused(n)
    BY <1>1, <2>5 DEF BeginRefused, Withdraw
  <2> QED
    BY <1>1, <2>1, <2>2, <2>3, <2>4, <2>5 DEF Asks
<1>2. ASSUME NEW n \in Node, Settles(n) PROVE Attended'
  <2>1. CASE GivesUp(n)
    BY <1>2, <2>1 DEF GivesUp
  <2>2. CASE Cancel(n)
    BY <1>2, <2>2 DEF Cancel
  <2>3. CASE Complete(n)
    BY <1>2, <2>3 DEF Complete, Item
  <2>4. CASE Finalize(n)
    BY <1>2, <2>4 DEF Finalize, Item
  <2>5. CASE DeleteRecords(n)
    BY <1>2, <2>5 DEF DeleteRecords, Rows
  <2> QED
    BY <1>2, <2>1, <2>2, <2>3, <2>4, <2>5 DEF Settles
<1>3. ASSUME NEW n \in Node, Shares(n) PROVE Attended'
  <2>1. CASE RequestUpdate(n)
    BY <1>3, <2>1 DEF RequestUpdate
  <2>2. CASE UpdateAnswered(n)
    BY <1>3, <2>2 DEF UpdateAnswered
  <2>3. CASE CreateTask(n)
    BY <1>3, <2>3 DEF CreateTask
  <2>4. CASE TaskEnds(n)
    BY <1>3, <2>4 DEF TaskEnds
  <2> QED
    BY <1>3, <2>1, <2>2, <2>3, <2>4 DEF Shares
<1>4. ASSUME NEW n \in Node, Executes(n) PROVE Attended'
  <2>1. CASE Executed(n)
    BY <1>4, <2>1 DEF Executed
  <2>2. CASE ExecuteFails(n)
    BY <1>4, <2>2 DEF ExecuteFails, ReplyError, Answered
  <2>3. CASE SaveReceipt(n)
    BY <1>4, <2>3 DEF SaveReceipt, Reply, Answered
  <2> QED
    BY <1>4, <2>1, <2>2, <2>3 DEF Executes
<1>5. ASSUME NEW n \in Node, Cleans(n) PROVE Attended'
  <2>1. CASE Callback(n)
    BY <1>5, <2>1 DEF Callback, OutboxWithout
  <2>2. CASE CleanupStep(n)
    BY <1>5, <2>2 DEF CleanupStep, NextCleanup
  <2>3. CASE CleanupFails(n)
    BY <1>5, <2>3 DEF CleanupFails
  <2> QED
    BY <1>5, <2>1, <2>2, <2>3 DEF Cleans
<1>6. ASSUME NEW n \in Node, Runs(n) PROVE Attended'
  <2>1. CASE ServeUpdate(n)
    BY <1>6, <2>1 DEF ServeUpdate
  <2>2. CASE JobEnds(n)
    BY <1>6, <2>2 DEF JobEnds
  <2>3. CASE ServiceDies(n)
    BY <1>6, <2>3 DEF ServiceDies
  <2>4. CASE ServiceBoots(n)
    BY <1>6, <2>4 DEF ServiceBoots
  <2>5. CASE ClearLock(n)
    BY <1>6, <2>5 DEF ClearLock
  <2>6. CASE Reinstall(n)
    BY <1>6, <2>6 DEF Reinstall
  <2> QED
    BY <1>6, <2>1, <2>2, <2>3, <2>4, <2>5, <2>6 DEF Runs
<1>7. ASSUME NEW call \in requests, Answers(call) PROVE Attended'
  <2>1. CASE AnswerAgain(call)
    <3> DEFINE n == call.node
    <3>1. n \in Node /\ requests' = requests \ {call} /\ serving' = serving
      BY <1>7, <2>1 DEF AnswerAgain
    <3>2. \A k \in Node : op'[k] = op[k] \/ (k = n /\ call.live)
      BY <1>7, <2>1 DEF AnswerAgain, Reply, ReplyError
    <3>3. call.live => \A other \in requests : other.live /\ other.node = n => other = call
      BY <3>1
    <3>4. call.live => ~Served(n)
      OBVIOUS
    <3> QED
      BY <3>1, <3>2, <3>3, <3>4
  <2>2. CASE RefuseRemoval(call)
    BY <1>7, <2>2 DEF RefuseRemoval, Reply
  <2>3. CASE FailRemoval(call)
    BY <1>7, <2>3 DEF FailRemoval, ReplyError
  <2>4. CASE BeginExecute(call)
    BY <1>7, <2>4 DEF BeginExecute
  <2> QED
    BY <1>7, <2>1, <2>2, <2>3, <2>4 DEF Answers
<1>8. ASSUME NEW item \in finals, ServeFinalize(item) PROVE Attended'
  BY <1>8 DEF ServeFinalize
<1>9. CASE Passes
  <2>1. CASE FinalizerReads
    BY <1>9, <2>1 DEF FinalizerReads
  <2>2. CASE FinalizerTakes
    BY <1>9, <2>2 DEF FinalizerTakes
  <2>3. CASE PanelCrashes
    BY <1>9, <2>3 DEF PanelCrashes
  <2> QED
    BY <1>9, <2>1, <2>2, <2>3 DEF Passes
<1>10. CASE UNCHANGED vars
  BY <1>10 DEF vars
<1> QED
  BY NextSplits, <1>1, <1>2, <1>3, <1>4, <1>5, <1>6, <1>7, <1>8, <1>9, <1>10

LEMMA OrderedSteps == ASSUME TypeOK, Attended, Ordered, [Next]_vars PROVE Ordered'
<1> USE TypeParts DEF Attended, Served, Ordered, Rows, Item, Outbox, RowsType, Free,
     Operation, OpType, RequestsType, ServingType, PanelOnly, HostOnly, Happens, host,
     database, memory, network, past
<1>1. ASSUME NEW n \in Node, Asks(n) PROVE Ordered'
  <2>1. CASE (\E m \in Mode : Uninstall(n, m))
    <3>1. PICK m \in Mode : Uninstall(n, m)
      BY <1>1, <2>1
    <3> DEFINE fresh == server[n] = "registered"
               r == [at |-> IF fresh THEN "preflight" ELSE "begin", mode |-> m,
                     fresh |-> fresh, receipt |-> None]
    <3>2. op' = [op EXCEPT ![n] = r] /\ server[n] \in {"registered", "removing"}
      BY <3>1 DEF Uninstall
    <3>3. UNCHANGED <<server, outbox, batch, finals>>
      BY <3>1 DEF Uninstall
    <3>4. /\ r.at = "preflight" => server[n] = "registered" /\ r.fresh
          /\ r.at = "begin" => server[n] = "removing" /\ ~r.fresh
          /\ r.at \in {"preflight", "begin"}
      BY <3>2
    <3> HIDE DEF r
    <3> QED
      BY <3>2, <3>3, <3>4
  <2>2. CASE PreflightPasses(n)
    BY <1>1, <2>2 DEF PreflightPasses
  <2>3. CASE PreflightRefuses(n)
    BY <1>1, <2>3 DEF PreflightRefuses, Withdraw
  <2>4. CASE Begin(n)
    BY <1>1, <2>4 DEF Begin
  <2>5. CASE BeginRefused(n)
    BY <1>1, <2>5 DEF BeginRefused, Withdraw
  <2> QED
    BY <1>1, <2>1, <2>2, <2>3, <2>4, <2>5 DEF Asks
<1>2. ASSUME NEW n \in Node, Settles(n) PROVE Ordered'
  <2>1. CASE GivesUp(n)
    BY <1>2, <2>1 DEF GivesUp
  <2>2. CASE Cancel(n)
    BY <1>2, <2>2 DEF Cancel
  <2>3. CASE Complete(n)
    BY <1>2, <2>3 DEF Complete, Item
  <2>4. CASE Finalize(n)
    BY <1>2, <2>4 DEF Finalize, Item
  <2>5. CASE DeleteRecords(n)
    BY <1>2, <2>5 DEF DeleteRecords, Rows
  <2> QED
    BY <1>2, <2>1, <2>2, <2>3, <2>4, <2>5 DEF Settles
<1>3. ASSUME NEW n \in Node, Shares(n) PROVE Ordered'
  <2>1. CASE RequestUpdate(n)
    BY <1>3, <2>1 DEF RequestUpdate
  <2>2. CASE UpdateAnswered(n)
    BY <1>3, <2>2 DEF UpdateAnswered
  <2>3. CASE CreateTask(n)
    BY <1>3, <2>3 DEF CreateTask
  <2>4. CASE TaskEnds(n)
    BY <1>3, <2>4 DEF TaskEnds
  <2> QED
    BY <1>3, <2>1, <2>2, <2>3, <2>4 DEF Shares
<1>4. ASSUME NEW n \in Node, Executes(n) PROVE Ordered'
  <2>1. CASE Executed(n)
    BY <1>4, <2>1 DEF Executed
  <2>2. CASE ExecuteFails(n)
    BY <1>4, <2>2 DEF ExecuteFails, ReplyError, Answered
  <2>3. CASE SaveReceipt(n)
    BY <1>4, <2>3 DEF SaveReceipt, Reply, Answered
  <2> QED
    BY <1>4, <2>1, <2>2, <2>3 DEF Executes
<1>5. ASSUME NEW n \in Node, Cleans(n) PROVE Ordered'
  <2>1. CASE Callback(n)
    BY <1>5, <2>1 DEF Callback, OutboxWithout
  <2>2. CASE CleanupStep(n)
    BY <1>5, <2>2 DEF CleanupStep, NextCleanup
  <2>3. CASE CleanupFails(n)
    BY <1>5, <2>3 DEF CleanupFails
  <2> QED
    BY <1>5, <2>1, <2>2, <2>3 DEF Cleans
<1>6. ASSUME NEW n \in Node, Runs(n) PROVE Ordered'
  <2>1. CASE ServeUpdate(n)
    BY <1>6, <2>1 DEF ServeUpdate
  <2>2. CASE JobEnds(n)
    BY <1>6, <2>2 DEF JobEnds
  <2>3. CASE ServiceDies(n)
    BY <1>6, <2>3 DEF ServiceDies
  <2>4. CASE ServiceBoots(n)
    BY <1>6, <2>4 DEF ServiceBoots
  <2>5. CASE ClearLock(n)
    BY <1>6, <2>5 DEF ClearLock
  <2>6. CASE Reinstall(n)
    BY <1>6, <2>6 DEF Reinstall
  <2> QED
    BY <1>6, <2>1, <2>2, <2>3, <2>4, <2>5, <2>6 DEF Runs
<1>7. ASSUME NEW call \in requests, Answers(call) PROVE Ordered'
  <2>1. CASE AnswerAgain(call)
    BY <1>7, <2>1 DEF AnswerAgain, Reply, ReplyError
  <2>2. CASE RefuseRemoval(call)
    BY <1>7, <2>2 DEF RefuseRemoval, Reply
  <2>3. CASE FailRemoval(call)
    BY <1>7, <2>3 DEF FailRemoval, ReplyError
  <2>4. CASE BeginExecute(call)
    BY <1>7, <2>4 DEF BeginExecute
  <2> QED
    BY <1>7, <2>1, <2>2, <2>3, <2>4 DEF Answers
<1>8. ASSUME NEW item \in finals, ServeFinalize(item) PROVE Ordered'
  BY <1>8 DEF ServeFinalize
<1>9. CASE Passes
  <2>1. CASE FinalizerReads
    BY <1>9, <2>1 DEF FinalizerReads
  <2>2. CASE FinalizerTakes
    BY <1>9, <2>2 DEF FinalizerTakes
  <2>3. CASE PanelCrashes
    BY <1>9, <2>3 DEF PanelCrashes
  <2> QED
    BY <1>9, <2>1, <2>2, <2>3 DEF Passes
<1>10. CASE UNCHANGED vars
  BY <1>10 DEF vars
<1> QED
  BY NextSplits, <1>1, <1>2, <1>3, <1>4, <1>5, <1>6, <1>7, <1>8, <1>9, <1>10

LEMMA UntouchedSteps == ASSUME TypeOK, Attended, Ordered, Untouched, [Next]_vars PROVE
     Untouched'
<1> USE TypeParts, NoneAssumption DEF Attended, Served, Ordered, Untouched, Calls, Outbox,
     RowsType, Free, Operation, OpType, RequestsType, ServingType, PanelOnly, HostOnly,
     Happens, host, database, memory, network, past
<1>1. ASSUME NEW n \in Node, Asks(n) PROVE Untouched'
  <2>1. CASE (\E m \in Mode : Uninstall(n, m))
    BY <1>1, <2>1 DEF Uninstall
  <2>2. CASE PreflightPasses(n)
    BY <1>1, <2>2 DEF PreflightPasses
  <2>3. CASE PreflightRefuses(n)
    BY <1>1, <2>3 DEF PreflightRefuses, Withdraw
  <2>4. CASE Begin(n)
    BY <1>1, <2>4 DEF Begin
  <2>5. CASE BeginRefused(n)
    BY <1>1, <2>5 DEF BeginRefused, Withdraw
  <2> QED
    BY <1>1, <2>1, <2>2, <2>3, <2>4, <2>5 DEF Asks
<1>2. ASSUME NEW n \in Node, Settles(n) PROVE Untouched'
  <2>1. CASE GivesUp(n)
    BY <1>2, <2>1 DEF GivesUp
  <2>2. CASE Cancel(n)
    BY <1>2, <2>2 DEF Cancel
  <2>3. CASE Complete(n)
    BY <1>2, <2>3 DEF Complete, Item
  <2>4. CASE Finalize(n)
    BY <1>2, <2>4 DEF Finalize, Item
  <2>5. CASE DeleteRecords(n)
    BY <1>2, <2>5 DEF DeleteRecords, Rows
  <2> QED
    BY <1>2, <2>1, <2>2, <2>3, <2>4, <2>5 DEF Settles
<1>3. ASSUME NEW n \in Node, Shares(n) PROVE Untouched'
  <2>1. CASE RequestUpdate(n)
    BY <1>3, <2>1 DEF RequestUpdate
  <2>2. CASE UpdateAnswered(n)
    BY <1>3, <2>2 DEF UpdateAnswered
  <2>3. CASE CreateTask(n)
    BY <1>3, <2>3 DEF CreateTask
  <2>4. CASE TaskEnds(n)
    BY <1>3, <2>4 DEF TaskEnds
  <2> QED
    BY <1>3, <2>1, <2>2, <2>3, <2>4 DEF Shares
<1>4. ASSUME NEW n \in Node, Executes(n) PROVE Untouched'
  <2>1. CASE Executed(n)
    BY <1>4, <2>1 DEF Executed
  <2>2. CASE ExecuteFails(n)
    BY <1>4, <2>2 DEF ExecuteFails, ReplyError, Answered
  <2>3. CASE SaveReceipt(n)
    BY <1>4, <2>3 DEF SaveReceipt, Reply, Answered
  <2> QED
    BY <1>4, <2>1, <2>2, <2>3 DEF Executes
<1>5. ASSUME NEW n \in Node, Cleans(n) PROVE Untouched'
  <2>1. CASE Callback(n)
    BY <1>5, <2>1 DEF Callback, OutboxWithout
  <2>2. CASE CleanupStep(n)
    BY <1>5, <2>2 DEF CleanupStep, NextCleanup
  <2>3. CASE CleanupFails(n)
    BY <1>5, <2>3 DEF CleanupFails
  <2> QED
    BY <1>5, <2>1, <2>2, <2>3 DEF Cleans
<1>6. ASSUME NEW n \in Node, Runs(n) PROVE Untouched'
  <2>1. CASE ServeUpdate(n)
    BY <1>6, <2>1 DEF ServeUpdate
  <2>2. CASE JobEnds(n)
    BY <1>6, <2>2 DEF JobEnds
  <2>3. CASE ServiceDies(n)
    BY <1>6, <2>3 DEF ServiceDies
  <2>4. CASE ServiceBoots(n)
    BY <1>6, <2>4 DEF ServiceBoots
  <2>5. CASE ClearLock(n)
    BY <1>6, <2>5 DEF ClearLock
  <2>6. CASE Reinstall(n)
    BY <1>6, <2>6 DEF Reinstall
  <2> QED
    BY <1>6, <2>1, <2>2, <2>3, <2>4, <2>5, <2>6 DEF Runs
<1>7. ASSUME NEW call \in requests, Answers(call) PROVE Untouched'
  <2>1. CASE AnswerAgain(call)
    BY <1>7, <2>1 DEF AnswerAgain, Reply, ReplyError
  <2>2. CASE RefuseRemoval(call)
    BY <1>7, <2>2 DEF RefuseRemoval, Reply
  <2>3. CASE FailRemoval(call)
    BY <1>7, <2>3 DEF FailRemoval, ReplyError
  <2>4. CASE BeginExecute(call)
    BY <1>7, <2>4 DEF BeginExecute
  <2> QED
    BY <1>7, <2>1, <2>2, <2>3, <2>4 DEF Answers
<1>8. ASSUME NEW item \in finals, ServeFinalize(item) PROVE Untouched'
  BY <1>8 DEF ServeFinalize
<1>9. CASE Passes
  <2>1. CASE FinalizerReads
    BY <1>9, <2>1 DEF FinalizerReads
  <2>2. CASE FinalizerTakes
    BY <1>9, <2>2 DEF FinalizerTakes
  <2>3. CASE PanelCrashes
    BY <1>9, <2>3 DEF PanelCrashes
  <2> QED
    BY <1>9, <2>1, <2>2, <2>3 DEF Passes
<1>10. CASE UNCHANGED vars
  BY <1>10 DEF vars
<1> QED
  BY NextSplits, <1>1, <1>2, <1>3, <1>4, <1>5, <1>6, <1>7, <1>8, <1>9, <1>10

LEMMA KeptSteps == ASSUME TypeOK, Attended, Ordered, Kept, Receipted, [Next]_vars PROVE Kept'
<1> USE TypeParts, NoneAssumption DEF Attended, Served, Ordered, Kept, Receipted, Rows,
     Matches, Outbox, RowsType, FlagType, HostType, Free, Operation, OpType, RequestsType,
     ServingType, PanelOnly, HostOnly, Happens, host, database, memory, network, past
<1>1. ASSUME NEW n \in Node, Asks(n) PROVE Kept'
  <2>1. CASE (\E m \in Mode : Uninstall(n, m))
    BY <1>1, <2>1 DEF Uninstall
  <2>2. CASE PreflightPasses(n)
    BY <1>1, <2>2 DEF PreflightPasses
  <2>3. CASE PreflightRefuses(n)
    BY <1>1, <2>3 DEF PreflightRefuses, Withdraw
  <2>4. CASE Begin(n)
    BY <1>1, <2>4 DEF Begin
  <2>5. CASE BeginRefused(n)
    BY <1>1, <2>5 DEF BeginRefused, Withdraw
  <2> QED
    BY <1>1, <2>1, <2>2, <2>3, <2>4, <2>5 DEF Asks
<1>2. ASSUME NEW n \in Node, Settles(n) PROVE Kept'
  <2>1. CASE GivesUp(n)
    BY <1>2, <2>1 DEF GivesUp
  <2>2. CASE Cancel(n)
    BY <1>2, <2>2 DEF Cancel
  <2>3. CASE Complete(n)
    <3>1. op[n].at = "complete" /\ server[n] = "removing" /\ op[n].mode \in Mode
      BY <1>2, <2>3 DEF Complete
    <3>2. /\ UNCHANGED <<host, past>>
          /\ outbox' = outbox \cup {Item(n)}
          /\ server' = [server EXCEPT ![n] = "uninstalled"]
          /\ op' = [op EXCEPT ![n].at = "finalize"]
      BY <1>2, <2>3 DEF Complete
    <3>3. \A k \in Node : history'[k] = (history[k] /\ (k = n => op[n].mode # "purge"))
      BY <1>2, <2>3 DEF Complete
    <3>4. n \notin superseded =>
            /\ result[n] # None /\ result[n].mode = op[n].mode /\ result[n].receipt = op[n].receipt
            /\ ~installed[n] /\ serving[n] = None /\ Matches(Item(n))
      BY <3>1 DEF Item
    <3>5. cleanup[n] = "none" /\ loop[n] = "off" /\ ~callback[n] /\ history[n] /\ Rows(n) = {}
      BY <3>1
    <3>6. ASSUME NEW k \in Node, k # n
          PROVE  /\ server'[k] = server[k] /\ op'[k] = op[k] /\ history'[k] = history[k]
                 /\ Rows(k)' = Rows(k)
      <4>1. Rows(k)' = Rows(k)
        BY <3>2, <3>6 DEF Item
      <4>2. history'[k] = history[k]
        BY <3>3, <3>6
      <4> QED
        BY <3>2, <3>6, <4>1, <4>2
    <3>7. n \notin superseded => history'[n] = (result[n].mode = "keep")
      BY <3>1, <3>3, <3>4, <3>5 DEF Mode
    <3>8. Rows(n)' = {Item(n)} /\ server'[n] = "uninstalled" /\ op'[n].at = "finalize"
      BY <3>2, <3>5 DEF Item
    <3>9. \A item : Matches(item)' <=> Matches(item)
      BY <3>2
    <3> QED
      BY <3>2, <3>4, <3>5, <3>6, <3>7, <3>8, <3>9
  <2>4. CASE Finalize(n)
    BY <1>2, <2>4 DEF Finalize, Item
  <2>5. CASE DeleteRecords(n)
    BY <1>2, <2>5 DEF DeleteRecords, Rows
  <2> QED
    BY <1>2, <2>1, <2>2, <2>3, <2>4, <2>5 DEF Settles
<1>3. ASSUME NEW n \in Node, Shares(n) PROVE Kept'
  <2>1. CASE RequestUpdate(n)
    BY <1>3, <2>1 DEF RequestUpdate
  <2>2. CASE UpdateAnswered(n)
    BY <1>3, <2>2 DEF UpdateAnswered
  <2>3. CASE CreateTask(n)
    BY <1>3, <2>3 DEF CreateTask
  <2>4. CASE TaskEnds(n)
    BY <1>3, <2>4 DEF TaskEnds
  <2> QED
    BY <1>3, <2>1, <2>2, <2>3, <2>4 DEF Shares
<1>4. ASSUME NEW n \in Node, Executes(n) PROVE Kept'
  <2>1. CASE Executed(n)
    BY <1>4, <2>1 DEF Executed
  <2>2. CASE ExecuteFails(n)
    BY <1>4, <2>2 DEF ExecuteFails, ReplyError, Answered
  <2>3. CASE SaveReceipt(n)
    BY <1>4, <2>3 DEF SaveReceipt, Reply, Answered
  <2> QED
    BY <1>4, <2>1, <2>2, <2>3 DEF Executes
<1>5. ASSUME NEW n \in Node, Cleans(n) PROVE Kept'
  <2>1. CASE Callback(n)
    BY <1>5, <2>1 DEF Callback, OutboxWithout
  <2>2. CASE CleanupStep(n)
    BY <1>5, <2>2 DEF CleanupStep, NextCleanup
  <2>3. CASE CleanupFails(n)
    BY <1>5, <2>3 DEF CleanupFails
  <2> QED
    BY <1>5, <2>1, <2>2, <2>3 DEF Cleans
<1>6. ASSUME NEW n \in Node, Runs(n) PROVE Kept'
  <2>1. CASE ServeUpdate(n)
    BY <1>6, <2>1 DEF ServeUpdate
  <2>2. CASE JobEnds(n)
    BY <1>6, <2>2 DEF JobEnds
  <2>3. CASE ServiceDies(n)
    BY <1>6, <2>3 DEF ServiceDies
  <2>4. CASE ServiceBoots(n)
    BY <1>6, <2>4 DEF ServiceBoots
  <2>5. CASE ClearLock(n)
    BY <1>6, <2>5 DEF ClearLock
  <2>6. CASE Reinstall(n)
    BY <1>6, <2>6 DEF Reinstall
  <2> QED
    BY <1>6, <2>1, <2>2, <2>3, <2>4, <2>5, <2>6 DEF Runs
<1>7. ASSUME NEW call \in requests, Answers(call) PROVE Kept'
  <2>1. CASE AnswerAgain(call)
    BY <1>7, <2>1 DEF AnswerAgain, Reply, ReplyError
  <2>2. CASE RefuseRemoval(call)
    BY <1>7, <2>2 DEF RefuseRemoval, Reply
  <2>3. CASE FailRemoval(call)
    BY <1>7, <2>3 DEF FailRemoval, ReplyError
  <2>4. CASE BeginExecute(call)
    BY <1>7, <2>4 DEF BeginExecute
  <2> QED
    BY <1>7, <2>1, <2>2, <2>3, <2>4 DEF Answers
<1>8. ASSUME NEW item \in finals, ServeFinalize(item) PROVE Kept'
  BY <1>8 DEF ServeFinalize
<1>9. CASE Passes
  <2>1. CASE FinalizerReads
    BY <1>9, <2>1 DEF FinalizerReads
  <2>2. CASE FinalizerTakes
    BY <1>9, <2>2 DEF FinalizerTakes
  <2>3. CASE PanelCrashes
    BY <1>9, <2>3 DEF PanelCrashes
  <2> QED
    BY <1>9, <2>1, <2>2, <2>3 DEF Passes
<1>10. CASE UNCHANGED vars
  BY <1>10 DEF vars
<1> QED
  BY NextSplits, <1>1, <1>2, <1>3, <1>4, <1>5, <1>6, <1>7, <1>8, <1>9, <1>10

(* A reply with the saved receipt.                                         *)
LEMMA ReplyReceipted ==
  ASSUME Receipted, NEW n \in Node, result[n] # None, op[n].mode = result[n].mode,
         op'[n].mode = op[n].mode, op'[n].receipt = result[n].receipt,
         \A k \in Node : k # n => op'[k] = op[k],
         result' = result, superseded' = superseded
  PROVE  Receipted'
  BY DEF Receipted

LEMMA ReceiptedSteps == ASSUME TypeOK, Attended, Ordered, Kept, Receipted, [Next]_vars PROVE
     Receipted'
<1> USE TypeParts, NoneAssumption DEF Attended, Served, Ordered, Receipted, Kept, Rows,
     Matches, Outbox, RowsType, FlagType, HostType, Free, Operation, OpType, RequestsType,
     ServingType, PanelOnly, HostOnly, Happens, host, database, memory, network, past
<1>1. ASSUME NEW n \in Node, Asks(n) PROVE Receipted'
  <2>1. CASE (\E m \in Mode : Uninstall(n, m))
    BY <1>1, <2>1 DEF Uninstall
  <2>2. CASE PreflightPasses(n)
    BY <1>1, <2>2 DEF PreflightPasses
  <2>3. CASE PreflightRefuses(n)
    BY <1>1, <2>3 DEF PreflightRefuses, Withdraw
  <2>4. CASE Begin(n)
    BY <1>1, <2>4 DEF Begin
  <2>5. CASE BeginRefused(n)
    BY <1>1, <2>5 DEF BeginRefused, Withdraw
  <2> QED
    BY <1>1, <2>1, <2>2, <2>3, <2>4, <2>5 DEF Asks
<1>2. ASSUME NEW n \in Node, Settles(n) PROVE Receipted'
  <2>1. CASE GivesUp(n)
    BY <1>2, <2>1 DEF GivesUp
  <2>2. CASE Cancel(n)
    BY <1>2, <2>2 DEF Cancel
  <2>3. CASE Complete(n)
    BY <1>2, <2>3 DEF Complete, Item
  <2>4. CASE Finalize(n)
    BY <1>2, <2>4 DEF Finalize, Item
  <2>5. CASE DeleteRecords(n)
    BY <1>2, <2>5 DEF DeleteRecords, Rows
  <2> QED
    BY <1>2, <2>1, <2>2, <2>3, <2>4, <2>5 DEF Settles
<1>3. ASSUME NEW n \in Node, Shares(n) PROVE Receipted'
  <2>1. CASE RequestUpdate(n)
    BY <1>3, <2>1 DEF RequestUpdate
  <2>2. CASE UpdateAnswered(n)
    BY <1>3, <2>2 DEF UpdateAnswered
  <2>3. CASE CreateTask(n)
    BY <1>3, <2>3 DEF CreateTask
  <2>4. CASE TaskEnds(n)
    BY <1>3, <2>4 DEF TaskEnds
  <2> QED
    BY <1>3, <2>1, <2>2, <2>3, <2>4 DEF Shares
<1>4. ASSUME NEW n \in Node, Executes(n) PROVE Receipted'
  <2>1. CASE Executed(n)
    BY <1>4, <2>1 DEF Executed
  <2>2. CASE ExecuteFails(n)
    BY <1>4, <2>2 DEF ExecuteFails, ReplyError, Answered
  <2>3. CASE SaveReceipt(n)
    BY <1>4, <2>3 DEF SaveReceipt, Reply, Answered
  <2> QED
    BY <1>4, <2>1, <2>2, <2>3 DEF Executes
<1>5. ASSUME NEW n \in Node, Cleans(n) PROVE Receipted'
  <2>1. CASE Callback(n)
    BY <1>5, <2>1 DEF Callback, OutboxWithout
  <2>2. CASE CleanupStep(n)
    BY <1>5, <2>2 DEF CleanupStep, NextCleanup
  <2>3. CASE CleanupFails(n)
    BY <1>5, <2>3 DEF CleanupFails
  <2> QED
    BY <1>5, <2>1, <2>2, <2>3 DEF Cleans
<1>6. ASSUME NEW n \in Node, Runs(n) PROVE Receipted'
  <2>1. CASE ServeUpdate(n)
    BY <1>6, <2>1 DEF ServeUpdate
  <2>2. CASE JobEnds(n)
    BY <1>6, <2>2 DEF JobEnds
  <2>3. CASE ServiceDies(n)
    BY <1>6, <2>3 DEF ServiceDies
  <2>4. CASE ServiceBoots(n)
    BY <1>6, <2>4 DEF ServiceBoots
  <2>5. CASE ClearLock(n)
    BY <1>6, <2>5 DEF ClearLock
  <2>6. CASE Reinstall(n)
    BY <1>6, <2>6 DEF Reinstall
  <2> QED
    BY <1>6, <2>1, <2>2, <2>3, <2>4, <2>5, <2>6 DEF Runs
<1>7. ASSUME NEW call \in requests, Answers(call) PROVE Receipted'
  <2>1. CASE AnswerAgain(call)
    <3> DEFINE n == call.node
    <3>1. n \in Node /\ result' = result /\ superseded' = superseded
      BY <1>7, <2>1 DEF AnswerAgain
    <3>2. CASE call.live /\ cleanup[n] = "none" /\ call.mode = result[n].mode
      <4>1. op[n].mode = result[n].mode /\ result[n] # None
        BY <1>7, <2>1, <3>2 DEF AnswerAgain
      <4>2. op' = [op EXCEPT ![n].at = "complete", ![n].receipt = result[n].receipt]
        BY <1>7, <2>1, <3>2 DEF AnswerAgain, Reply
      <4>3. op'[n].mode = op[n].mode /\ op'[n].receipt = result[n].receipt
        BY <4>2
      <4>4. \A k \in Node : k # n => op'[k] = op[k]
        BY <4>2
      <4> HIDE DEF Receipted, Kept, Attended, Ordered, OpType, ServingType, RequestsType,
           Operation
      <4> QED
        BY <3>1, <4>1, <4>3, <4>4, ReplyReceipted
    <3>3. CASE ~(call.live /\ cleanup[n] = "none" /\ call.mode = result[n].mode)
      <4>1. op' = op \/ op' = [op EXCEPT ![n] = Free]
        BY <1>7, <2>1, <3>3 DEF AnswerAgain, Reply, ReplyError
      <4>2. \A k \in Node : op'[k].at = "complete" => op'[k] = op[k]
        BY <4>1
      <4> QED
        BY <3>1, <4>2
    <3> QED
      BY <3>2, <3>3
  <2>2. CASE RefuseRemoval(call)
    BY <1>7, <2>2 DEF RefuseRemoval, Reply
  <2>3. CASE FailRemoval(call)
    BY <1>7, <2>3 DEF FailRemoval, ReplyError
  <2>4. CASE BeginExecute(call)
    BY <1>7, <2>4 DEF BeginExecute
  <2> QED
    BY <1>7, <2>1, <2>2, <2>3, <2>4 DEF Answers
<1>8. ASSUME NEW item \in finals, ServeFinalize(item) PROVE Receipted'
  BY <1>8 DEF ServeFinalize
<1>9. CASE Passes
  <2>1. CASE FinalizerReads
    BY <1>9, <2>1 DEF FinalizerReads
  <2>2. CASE FinalizerTakes
    BY <1>9, <2>2 DEF FinalizerTakes
  <2>3. CASE PanelCrashes
    BY <1>9, <2>3 DEF PanelCrashes
  <2> QED
    BY <1>9, <2>1, <2>2, <2>3 DEF Passes
<1>10. CASE UNCHANGED vars
  BY <1>10 DEF vars
<1> QED
  BY NextSplits, <1>1, <1>2, <1>3, <1>4, <1>5, <1>6, <1>7, <1>8, <1>9, <1>10

-----------------------------------------------------------------------------
LEMMA Initially == Init => Removal
<1> SUFFICES ASSUME Init PROVE Removal
  OBVIOUS
<1>1. RowsType /\ OpType /\ FlagType /\ HostType /\ ServingType /\ RequestsType /\ NetworkType
  BY NoneAssumption
     DEF Init, RowsType, OpType, FlagType, HostType, ServingType, RequestsType, NetworkType,
         Registration, Free, Operation
<1>2. TypeOK
  BY <1>1, TypeParts
<1>3. Attended /\ Ordered /\ Untouched /\ Kept /\ Receipted
  BY DEF Init, Attended, Served, Ordered, Untouched, Calls, Kept, Rows, Receipted, Free
<1> QED
  BY <1>2, <1>3 DEF Removal

LEMMA Steps == Removal /\ [Next]_vars => Removal'
<1> SUFFICES ASSUME Removal, [Next]_vars PROVE Removal'
  OBVIOUS
<1> USE DEF Removal
<1>1. RowsType /\ OpType /\ FlagType /\ HostType /\ ServingType /\ RequestsType /\ NetworkType
  BY TypeParts
<1>2. RowsType' /\ OpType' /\ FlagType' /\ HostType'
  BY <1>1, RowsTypeSteps, OpTypeSteps, FlagTypeSteps, HostTypeSteps
<1>3. ServingType' /\ RequestsType' /\ NetworkType'
  BY <1>1, ServingTypeSteps, RequestsTypeSteps, NetworkTypeSteps
<1>4. TypeOK'
  BY <1>2, <1>3, TypeParts, PTL
<1> QED
  BY <1>4, AttendedSteps, OrderedSteps, UntouchedSteps, KeptSteps, ReceiptedSteps

(* Every operation, call and file has what its next step needs: a panel    *)
(* operation that completes holds a receipt and a mode, a request that is  *)
(* still waited for belongs to its operation.                              *)
THEOREM TypeCorrect == Spec => []TypeOK
<1>1. Removal => TypeOK
  BY DEF Removal
<1> QED
  BY <1>1, Initially, Steps, PTL DEF Spec

(* The panel deletes a registration with what belongs to it only when the  *)
(* host has uninstalled, in the mode the host did it for.                  *)
THEOREM DeletionFollowsUninstall == Spec => []DeletedOnlyAfterUninstall
<1>1. Removal => DeletedOnlyAfterUninstall
  BY DEF Removal, Kept, DeletedOnlyAfterUninstall
<1> QED
  BY <1>1, Initially, Steps, PTL DEF Spec

(* The host's receipt outlives the panel's outbox, whatever is lost.       *)
THEOREM ReceiptsOutliveTheOutbox == Spec => []ReceiptOutlivesOutbox
<1>1. Removal => ReceiptOutlivesOutbox
  BY TypeParts DEF Removal, Kept, ReceiptOutlivesOutbox, Rows, RowsType, Outbox
<1> QED
  BY <1>1, Initially, Steps, PTL DEF Spec

(* A cancellation frees only a node that no uninstall has touched or will. *)
THEOREM UsableNodesAreUntouched == Spec => []UsableMeansUntouched
<1>1. Removal => UsableMeansUntouched
  BY DEF Removal, Untouched, UsableMeansUntouched
<1> QED
  BY <1>1, Initially, Steps, PTL DEF Spec

LEMMA AloneSteps == ASSUME TypeOK, UpdateRequestIsAlone, [Next]_vars PROVE UpdateRequestIsAlone'
<1> USE TypeParts, NoneAssumption DEF UpdateRequestIsAlone, RowsType, NetworkType, PanelOnly,
     HostOnly, Happens, host, database, memory, network, past
<1>1. ASSUME NEW n \in Node, Asks(n) PROVE UpdateRequestIsAlone'
  <2>1. CASE (\E m \in Mode : Uninstall(n, m))
    BY <1>1, <2>1 DEF Uninstall
  <2>2. CASE Begin(n)
    BY <1>1, <2>2 DEF Begin
  <2>3. CASE PreflightPasses(n) \/ PreflightRefuses(n) \/ BeginRefused(n)
    BY <1>1, <2>3 DEF PreflightPasses, PreflightRefuses, Withdraw, BeginRefused
  <2> QED
    BY <1>1, <2>1, <2>2, <2>3 DEF Asks
<1>2. ASSUME NEW n \in Node, Settles(n) PROVE UpdateRequestIsAlone'
  <2>1. CASE GivesUp(n)
    BY <1>2, <2>1 DEF GivesUp
  <2>2. CASE Cancel(n)
    BY <1>2, <2>2 DEF Cancel
  <2>3. CASE Complete(n)
    BY <1>2, <2>3 DEF Complete, Item
  <2>4. CASE Finalize(n)
    BY <1>2, <2>4 DEF Finalize, Item
  <2>5. CASE DeleteRecords(n)
    BY <1>2, <2>5 DEF DeleteRecords, Rows
  <2> QED
    BY <1>2, <2>1, <2>2, <2>3, <2>4, <2>5 DEF Settles
<1>3. ASSUME NEW n \in Node, Shares(n) PROVE UpdateRequestIsAlone'
  BY <1>3 DEF Shares, RequestUpdate, UpdateAnswered, CreateTask, TaskEnds
<1>4. ASSUME NEW n \in Node, Executes(n) PROVE UpdateRequestIsAlone'
  BY <1>4 DEF Executes, Executed, ExecuteFails, ReplyError, Answered, SaveReceipt, Reply
<1>5. ASSUME NEW n \in Node, Cleans(n) PROVE UpdateRequestIsAlone'
  BY <1>5 DEF Cleans, Callback, OutboxWithout, CleanupStep, NextCleanup, CleanupFails
<1>6. ASSUME NEW n \in Node, Runs(n) PROVE UpdateRequestIsAlone'
  BY <1>6 DEF Runs, ServeUpdate, JobEnds, ServiceDies, ServiceBoots, ClearLock, Reinstall
<1>7. ASSUME NEW call \in requests, Answers(call) PROVE UpdateRequestIsAlone'
  BY <1>7 DEF Answers, AnswerAgain, Reply, ReplyError, RefuseRemoval, FailRemoval, BeginExecute
<1>8. ASSUME NEW item \in finals, ServeFinalize(item) PROVE UpdateRequestIsAlone'
  BY <1>8 DEF ServeFinalize
<1>9. CASE Passes
  <2>1. CASE FinalizerReads
    BY <1>9, <2>1 DEF FinalizerReads
  <2>2. CASE FinalizerTakes
    BY <1>9, <2>2 DEF FinalizerTakes
  <2>3. CASE PanelCrashes
    BY <1>9, <2>3 DEF PanelCrashes
  <2> QED
    BY <1>9, <2>1, <2>2, <2>3 DEF Passes
<1>10. CASE UNCHANGED vars
  BY <1>10 DEF vars
<1> QED
  BY NextSplits, <1>1, <1>2, <1>3, <1>4, <1>5, <1>6, <1>7, <1>8, <1>9, <1>10

(* A node whose container update is being requested has neither unfinished *)
(* kernel task items nor a removal mark.                                   *)
THEOREM UpdateRequestsAreAlone == Spec => []UpdateRequestIsAlone
<1>1. Init => UpdateRequestIsAlone
  BY DEF Init, UpdateRequestIsAlone
<1>2. TypeOK /\ UpdateRequestIsAlone /\ [Next]_vars => UpdateRequestIsAlone'
  BY AloneSteps
<1> QED
  BY <1>1, <1>2, TypeCorrect, PTL DEF Spec
=============================================================================
