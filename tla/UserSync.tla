------------------------------ MODULE UserSync ------------------------------
(***************************************************************************)
(* The users of one NaiveProxy or Xray instance and the traffic of its     *)
(* accounts.                                                               *)
(*                                                                         *)
(* Every 50 seconds a pass reads the valid accounts, splits them in groups *)
(* and starts a goroutine per group; it lists the instance's users once,   *)
(* deletes those that are not in its group and adds the missing ones.  The *)
(* panel may ask to remove an account at any time.  A user is deleted by   *)
(* the index it had when it was looked up, and certificateRestart is held  *)
(* for reading only: calls overlap.  A restart holds it for writing; the   *)
(* instance then has the users of its last snapshot.                       *)
(*                                                                         *)
(* Xray has no list of its users.  What the agent takes for it is the list *)
(* of the traffic counters: one for each user that has used traffic since  *)
(* the process started.  A user is deleted by its name.                    *)
(*                                                                         *)
(* Every 10 seconds the counted traffic is taken from the instance, which  *)
(* resets it, and charged in the panel's database.                         *)
(***************************************************************************)
EXTENDS Integers, SequencesExt

CONSTANTS
  Account,     \* credentials; each belongs to one row that is created once
  Pass,        \* goroutines of synchronisation passes
  Removal,     \* goroutines of RemoveAccount
  Collector,   \* goroutines that charge traffic
  Present,     \* accounts that exist in the beginning
  GroupSize,   \* 50 in app.go
  Quota,       \* units of traffic
  MaxUse,      \* units an account uses on this node
  MaxEvents    \* requests of the panel, restarts, failed calls, slow passes

ASSUME GroupAssumption == GroupSize \in Nat \ {0} /\ Quota \in Nat \ {0}
ASSUME PresentAssumption == Present \subseteq Account

VARIABLES
  row,      \* "new", "here", "gone"
  quota,    \* 0 disables the account
  usage,    \* account.download + account.upload
  total,    \* account_traffic_total, 0 without a row
  leaving,  \* accounts the panel is deleting
  kind,     \* "naiveproxy" or "xray"
  running,  \* the instance's process
  users,    \* its handlers, in their order
  saved,    \* the handlers in its configuration file
  meter,    \* what the instance has counted
  counter,  \* accounts for which Xray has a counter
  task,     \* what the goroutines of Pass and Removal are about to do
  pending,  \* what each collector has taken
  spent,    \* all traffic of an account
  used,     \* the part of it that went through this instance
  events

database == <<row, quota, usage, total, leaving>>
instance == <<kind, running, users, saved, meter, counter>>
counters == <<spent, used>>
vars == <<database, instance, task, pending, counters, events>>

Goroutine == Pass \cup Removal
Nothing == [a \in Account |-> 0]

(* group: the valid accounts of the goroutine; bans, adds: what it still   *)
(* has to delete and add; at: the index GetUser returned.                  *)
Idle == [pc |-> "idle", group |-> <<>>, bans |-> <<>>, adds |-> <<>>, at |-> 0]

Init ==
  /\ row = [a \in Account |-> IF a \in Present THEN "here" ELSE "new"]
  /\ quota = [a \in Account |-> Quota]
  /\ usage = Nothing /\ total = Nothing /\ leaving = {}
  /\ kind \in {"naiveproxy", "xray"}
  /\ running = TRUE /\ users = <<>> /\ saved = <<>> /\ meter = Nothing /\ counter = {}
  /\ task = [g \in Goroutine |-> Idle]
  /\ pending = [c \in Collector |-> Nothing]
  /\ spent = Nothing /\ used = Nothing
  /\ events = 0

Event == events < MaxEvents /\ events' = events + 1

Becomes(g, t) == task' = [task EXCEPT ![g] = t]

(* A call of the instance's API fails: it does not run, or by accident.    *)
CallFails == IF running THEN Event ELSE UNCHANGED events

-----------------------------------------------------------------------------
(* SelectAccounts: quota > download + upload.                              *)
Valid == {a \in Account : row[a] = "here" /\ quota[a] > usage[a]}

(* util.SplitArr                                                           *)
SplitArr(arr, num) ==
  IF Len(arr) <= num THEN <<arr>>
  ELSE [i \in 1 .. (Len(arr) + num - 1) \div num |->
          SubSeq(arr, (i - 1) * num + 1, IF i * num > Len(arr) THEN Len(arr) ELSE i * num)]

FreePasses == SetToSeq({p \in Pass : task[p].pc = "idle"})

(* CronHandlerUser: a goroutine for every group.  A pass that has not ended *)
(* after 50 seconds, when the next one starts, is counted as an event.     *)
CronHandlerUser ==
  LET groups == SplitArr(SetToSeq(Valid), GroupSize)
      starts == SubSeq(FreePasses, 1, Len(groups))
  IN  /\ Len(groups) <= Len(FreePasses)
      /\ IF Len(FreePasses) = Cardinality(Pass) THEN UNCHANGED events ELSE Event
      /\ task' = [g \in Goroutine |->
           IF Contains(starts, g)
             THEN [Idle EXCEPT !.pc = "list",
                               !.group = groups[CHOOSE i \in DOMAIN starts : starts[i] = g]]
             ELSE task[g]]
      /\ UNCHANGED <<database, instance, pending, counters>>

Xray == kind = "xray"

(* NaiveProxy's handlers, or the names in the counters of QueryStats.      *)
Listed == IF Xray THEN SetToSeq(counter) ELSE users

Bans(group) == SelectSeq(Listed, LAMBDA a : ~Contains(group, a))
Adds(group) == SelectSeq(group, LAMBDA a : ~Contains(Listed, a))

(* A goroutine that still has these users to delete and to add.            *)
Work(bans, adds) ==
  IF bans = <<>> /\ adds = <<>> THEN Idle
  ELSE [Idle EXCEPT !.pc = "work", !.bans = bans, !.adds = adds]

Deleted(t) == Work(Tail(t.bans), t.adds)
Added(t) == Work(t.bans, Tail(t.adds))

ListUsers(g) ==
  /\ task[g].pc = "list"
  /\ \/ /\ running
        /\ Becomes(g, Work(Bans(task[g].group), Adds(task[g].group)))
        /\ UNCHANGED events
     \/ Becomes(g, Idle) /\ CallFails
  /\ UNCHANGED <<database, instance, pending, counters>>

(* The position GetUser finds, counted from one; 0 when there is none.     *)
(* GetUserStats likewise tells whether there is a counter.                 *)
GetUser(a) == SelectInSeq(Listed, LAMBDA u : u = a)

(* DeleteUser: a user that is not there is no error; a failed call is      *)
(* logged and its user left for the next pass.                             *)
DeleteLooksUp(g) ==
  /\ task[g].pc = "work" /\ task[g].bans # <<>>
  /\ LET index == GetUser(Head(task[g].bans))
     IN  \/ /\ running /\ index = 0
            /\ Becomes(g, Deleted(task[g])) /\ UNCHANGED events
         \/ /\ running /\ index # 0
            /\ Becomes(g, [task[g] EXCEPT !.pc = "delete", !.at = index]) /\ UNCHANGED events
         \/ Becomes(g, Deleted(task[g])) /\ CallFails
  /\ UNCHANGED <<database, instance, pending, counters>>

(* Seeded fault: index 0 of the API, the newest user, counts as no user.   *)
DeleteButFirst(g) ==
  /\ task[g].pc = "delete" /\ ~Xray
  /\ \/ /\ running
        /\ users' = IF task[g].at \in 2 .. Len(users) THEN RemoveAt(users, task[g].at) ELSE users
        /\ UNCHANGED events
     \/ CallFails /\ UNCHANGED users
  /\ Becomes(g, Deleted(task[g]))
  /\ UNCHANGED <<database, kind, running, saved, meter, counter, pending, counters>>

(* The DELETE request names the index, whoever is there by now.            *)
DeleteAtIndex(g) ==
  /\ task[g].pc = "delete" /\ ~Xray
  /\ \/ /\ running
        /\ users' = IF task[g].at \in DOMAIN users THEN RemoveAt(users, task[g].at) ELSE users
        /\ UNCHANGED events
     \/ CallFails /\ UNCHANGED users
  /\ Becomes(g, Deleted(task[g]))
  /\ UNCHANGED <<database, kind, running, saved, meter, counter, pending, counters>>

(* RemoveUserOperation names the user; "not found." is no error.           *)
RemoveXrayUser(g) ==
  /\ task[g].pc = "delete" /\ Xray
  /\ \/ /\ running
        /\ users' = SelectSeq(users, LAMBDA a : a # Head(task[g].bans))
        /\ UNCHANGED events
     \/ CallFails /\ UNCHANGED users
  /\ Becomes(g, Deleted(task[g]))
  /\ UNCHANGED <<database, kind, running, saved, meter, counter, pending, counters>>

(* AddUser: a user that is there already, or that has a counter, is left   *)
(* alone.                                                                  *)
AddLooksUp(g) ==
  /\ task[g].pc = "work" /\ task[g].bans = <<>> /\ task[g].adds # <<>>
  /\ \/ /\ running /\ GetUser(Head(task[g].adds)) # 0
        /\ Becomes(g, Added(task[g])) /\ UNCHANGED events
     \/ /\ running /\ GetUser(Head(task[g].adds)) = 0
        /\ Becomes(g, [task[g] EXCEPT !.pc = "post"]) /\ UNCHANGED events
     \/ Becomes(g, Added(task[g])) /\ CallFails
  /\ UNCHANGED <<database, instance, pending, counters>>

(* The POST request inserts at index 0, without another look.              *)
PostUser(g) ==
  /\ task[g].pc = "post" /\ ~Xray
  /\ \/ running /\ users' = <<Head(task[g].adds)>> \o users /\ UNCHANGED events
     \/ CallFails /\ UNCHANGED users
  /\ Becomes(g, Added(task[g]))
  /\ UNCHANGED <<database, kind, running, saved, meter, counter, pending, counters>>

(* AddUserOperation; "already exists." is no error.                        *)
AddXrayUser(g) ==
  /\ task[g].pc = "post" /\ Xray
  /\ \/ /\ running
        /\ users' = IF Contains(users, Head(task[g].adds))
                      THEN users ELSE <<Head(task[g].adds)>> \o users
        /\ UNCHANGED events
     \/ CallFails /\ UNCHANGED users
  /\ Becomes(g, Added(task[g]))
  /\ UNCHANGED <<database, kind, running, saved, meter, counter, pending, counters>>

Goes(g) ==
  \/ ListUsers(g) \/ DeleteLooksUp(g) \/ DeleteAtIndex(g) \/ RemoveXrayUser(g)
  \/ AddLooksUp(g) \/ PostUser(g) \/ AddXrayUser(g)

-----------------------------------------------------------------------------
(* The panel calls every node, without looking at the answer, and deletes  *)
(* the row afterwards.  The node starts a goroutine.                       *)
DeleteAccount(a) ==
  /\ row[a] = "here" /\ a \notin leaving
  /\ Event
  /\ leaving' = leaving \cup {a}
  /\ \/ UNCHANGED task
     \/ \E g \in Removal :
          /\ task[g].pc = "idle"
          /\ Becomes(g, Work(<<a>>, <<>>))
  /\ UNCHANGED <<row, quota, usage, total, instance, pending, counters>>

DeleteRow(a) ==
  /\ a \in leaving
  /\ leaving' = leaving \ {a}
  /\ row' = [row EXCEPT ![a] = "gone"]
  /\ UNCHANGED <<quota, usage, total, instance, task, pending, counters, events>>

(* A new account starts without traffic; an imported one has some already, *)
(* and gets its row of account_traffic_total with its first charge.        *)
CreateAccount(a) ==
  /\ row[a] = "new"
  /\ Event
  /\ row' = [row EXCEPT ![a] = "here"]
  /\ \E imported \in 0 .. 1 :
       /\ usage' = [usage EXCEPT ![a] = imported]
       /\ spent' = [spent EXCEPT ![a] = @ + imported]
  /\ UNCHANGED <<quota, total, leaving, instance, task, pending, used>>

(* DisableAccount clears quota and traffic; an administrator gives quota.  *)
DisableAccount(a) ==
  /\ row[a] = "here"
  /\ Event
  /\ quota' = [quota EXCEPT ![a] = 0]
  /\ usage' = [usage EXCEPT ![a] = 0]
  /\ UNCHANGED <<row, total, leaving, instance, task, pending, counters>>

GiveQuota(a) ==
  /\ row[a] = "here" /\ quota[a] = 0
  /\ Event
  /\ quota' = [quota EXCEPT ![a] = Quota]
  /\ UNCHANGED <<row, usage, total, leaving, instance, task, pending, counters>>

ResetTraffic(a) ==
  /\ row[a] = "here" /\ quota[a] # 0 /\ usage[a] # 0
  /\ Event
  /\ usage' = [usage EXCEPT ![a] = 0]
  /\ UNCHANGED <<row, quota, total, leaving, instance, task, pending, counters>>

-----------------------------------------------------------------------------
InstanceExits ==
  /\ running
  /\ Event
  /\ running' = FALSE /\ users' = <<>> /\ meter' = Nothing /\ counter' = {}
  /\ UNCHANGED <<database, kind, saved, task, pending, counters>>

(* MaintainCertificates holds certificateRestart for writing: no call is   *)
(* between its look-up and its request.  A running instance is restarted   *)
(* for a new certificate, after a snapshot of its configuration; one that  *)
(* has exited comes back with the configuration that is there.  Xray reads *)
(* its certificates itself, and nobody looks whether it has exited.        *)
NoReader == \A g \in Goroutine : task[g].pc \notin {"delete", "post"}

NewCertificate ==
  /\ running /\ NoReader /\ ~Xray
  /\ Event
  /\ saved' = users /\ meter' = Nothing
  /\ UNCHANGED <<database, kind, running, users, counter, task, pending, counters>>

RestartsExited ==
  /\ ~running /\ NoReader /\ ~Xray
  /\ running' = TRUE /\ users' = saved
  /\ UNCHANGED <<database, kind, saved, meter, counter, task, pending, counters, events>>

(* Xray's file has no users.                                               *)
AgentRestarts ==
  /\ Event
  /\ running' = TRUE /\ users' = saved /\ meter' = Nothing /\ counter' = {}
  /\ task' = [g \in Goroutine |-> Idle]
  /\ pending' = [c \in Collector |-> Nothing]
  /\ UNCHANGED <<database, kind, saved, counters>>

-----------------------------------------------------------------------------
Uses(a) ==
  /\ Contains(users, a) /\ used[a] < MaxUse
  /\ used' = [used EXCEPT ![a] = @ + 1]
  /\ spent' = [spent EXCEPT ![a] = @ + 1]
  /\ meter' = [meter EXCEPT ![a] = @ + 1]
  /\ counter' = IF Xray THEN counter \cup {a} ELSE counter
  /\ UNCHANGED <<database, kind, running, users, saved, task, pending, events>>

(* The map that is answered: the users that have used traffic.             *)
Counted == {a \in Account : meter[a] > 0}

(* util.SplitMap: the last group gets one element, which one depends on    *)
(* the order of a Go map; what follows it is in no group.                  *)
SplitMap(all, size) ==
  LET quantity == (Cardinality(all) + size - 1) \div size
  IN  {kept \in SUBSET all : Cardinality(kept) = size * (quantity - 1) + 1}

(* Xray's statistics are split by SplitArr, which keeps all of them.       *)
Kept == IF Xray THEN {Counted} ELSE SplitMap(Counted, GroupSize)

(* Seeded fault: the traffic is read without reset=true.                   *)
CollectUnreset(c) ==
  /\ running /\ pending[c] = Nothing /\ Counted # {}
  /\ \E kept \in Kept :
       pending' = [pending EXCEPT ![c] = [a \in Account |-> IF a \in kept THEN meter[a] ELSE 0]]
  /\ UNCHANGED <<database, instance, task, counters, events>>

(* CronHandlerDownloadAndUpload: traffic is taken from the instance, which *)
(* starts from zero; an answer that is lost takes it along.                *)
Collect(c) ==
  /\ running /\ pending[c] = Nothing /\ Counted # {}
  /\ meter' = Nothing
  /\ \/ /\ \E kept \in Kept :
             pending' = [pending EXCEPT ![c] = [a \in Account |-> IF a \in kept THEN meter[a] ELSE 0]]
        /\ UNCHANGED events
     \/ Event /\ UNCHANGED pending
  /\ UNCHANGED <<database, kind, running, users, saved, counter, task, counters>>

(* UpdateAccountFlowByPassOrHash: one transaction for both tables.  A      *)
(* failed one is logged; its traffic is gone, as without the account.      *)
Charge(c) ==
  /\ \E a \in Account :
       /\ pending[c][a] > 0
       /\ pending' = [pending EXCEPT ![c][a] = 0]
       /\ \/ /\ row[a] = "here"
             /\ usage' = [usage EXCEPT ![a] = @ + pending[c][a]]
             /\ total' = [total EXCEPT ![a] =
                  pending[c][a] + IF @ < usage[a] THEN usage[a] ELSE @]
             /\ UNCHANGED events
          \/ row[a] # "here" /\ UNCHANGED <<usage, total, events>>
          \/ Event /\ UNCHANGED <<usage, total>>
  /\ UNCHANGED <<row, quota, leaving, instance, task, counters>>

(* RsLock fails: none of the group's traffic is charged.                   *)
LockFails(c) ==
  /\ pending[c] # Nothing
  /\ Event
  /\ pending' = [pending EXCEPT ![c] = Nothing]
  /\ UNCHANGED <<database, instance, task, counters>>

-----------------------------------------------------------------------------
Next ==
  \/ CronHandlerUser
  \/ \E g \in Goroutine : Goes(g)
  \/ \E a \in Account :
       \/ DeleteAccount(a) \/ DeleteRow(a) \/ CreateAccount(a)
       \/ DisableAccount(a) \/ GiveQuota(a) \/ ResetTraffic(a)
       \/ Uses(a)
  \/ InstanceExits \/ NewCertificate \/ RestartsExited \/ AgentRestarts
  \/ \E c \in Collector : Collect(c) \/ Charge(c) \/ LockFails(c)

Spec == Init /\ [][Next]_vars

(* The cron jobs fire and their goroutines run; a goroutine that waits for *)
(* the write lock keeps new readers out.                                   *)
FairSpec ==
  /\ Spec
  /\ WF_vars(CronHandlerUser)
  /\ SF_vars(RestartsExited)
  /\ \A g \in Goroutine : WF_vars(Goes(g))
  /\ \A c \in Collector : WF_vars(Collect(c) \/ Charge(c))

-----------------------------------------------------------------------------
(* What the database has recorded for an account: the greater of its total *)
(* and its traffic since the last reset, as the next charge takes it.      *)
Recorded(a) == IF total[a] < usage[a] THEN usage[a] ELSE total[a]

(* What the collectors have taken and not charged yet.                     *)
Held(a) == MapThenSumSet(LAMBDA c : pending[c][a], Collector)

(* No unit of traffic is charged twice, whatever fails, restarts or is     *)
(* reset in between: what the database has recorded for an account, the    *)
(* instance still counts and the collectors hold never exceeds its use.    *)
ChargedOnce == \A a \in Account : Recorded(a) + meter[a] + Held(a) <= spent[a]

(* Whatever overlapping passes and removals have added from old readings   *)
(* or deleted by an old index, and whatever an old snapshot brings back    *)
(* after a restart, in the end NaiveProxy serves the valid accounts and    *)
(* nobody else: not the deleted, the disabled, the over-quota.  Of Xray    *)
(* the agent can only settle that no other account that has a counter is   *)
(* served, and that every valid account without one is: a user that was    *)
(* deleted keeps its counter and is not added again.                       *)
AccountsSettle ==
  <>[](IF Xray
         THEN running => /\ ToSet(users) \cap counter \subseteq Valid
                         /\ Valid \ counter \subseteq ToSet(users)
         ELSE ToSet(users) = Valid)
=============================================================================
