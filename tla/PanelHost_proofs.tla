--------------------------- MODULE PanelHost_proofs ---------------------------
(***************************************************************************)
(* What a serving panel keeps through restarts, for any number of rows,    *)
(* requests, tasks and files.                                              *)
(***************************************************************************)
EXTENDS PanelHost, TLAPS

(***************************************************************************)
(* File tasks.  A file is told apart from the others by the task that      *)
(* names it, unless two exports were given it; while a goroutine works for *)
(* a task its row, if it is still there, shows "doing".                    *)
(***************************************************************************)
Place == {"none", "lock", "read", "create", "write", "write unlinked", "success", "fail"}
TaskRecord ==
  [path : Path \cup {"none"}, status : {"none", "doing", "success", "fail"}]
JobRecord == [path : Path \cup {"none"}, pc : Place]

TaskTypes ==
  /\ task \in [Task -> TaskRecord]
  /\ job \in [Task -> JobRecord]
  /\ saved \in [Path -> {"absent", "empty", "full"}]
  /\ removed \subseteq Task
  /\ twice \subseteq Path

Names(t, p) == task[t].path = p \/ job[t].path = p

Shared ==
  \A p \in Path : \A t, u \in Task : t # u /\ Names(t, p) /\ Names(u, p) => p \in twice

Lost(t, p) == t \in removed \/ p \in twice

(* What a goroutine at each of its places knows of its row and its file.   *)
Working(t) ==
  job[t].pc # "none" =>
    /\ Exists(t) => task[t].path = job[t].path /\ task[t].status = "doing"
    /\ job[t].pc = "read" => job[t].path = "none"
    /\ job[t].path \in Path =>
         /\ job[t].pc = "success" => saved[job[t].path] = "full" \/ Lost(t, job[t].path)
         /\ job[t].pc = "write unlinked" => Lost(t, job[t].path)

Shown(t) ==
  task[t].status = "success" /\ task[t].path \in Path =>
    saved[task[t].path] = "full" \/ Lost(t, task[t].path)

FilesKept ==
  /\ TaskTypes
  /\ Shared
  /\ \A t \in Task : Working(t) /\ Shown(t)

LEMMA FilesAreDownloads == FilesKept => DownloadsExist
  BY DEF FilesKept, Shown, Lost, DownloadsExist

LEMMA ShownExists ==
  ASSUME NEW t \in Task, task[t].status # "none"
  PROVE  Exists(t)
  BY DEF Exists, Absent

LEMMA FilesInit == TasksInit => FilesKept
<1> SUFFICES ASSUME TasksInit PROVE FilesKept
  OBVIOUS
<1>1. TaskTypes
  BY DEF TasksInit, TaskTypes, TaskRecord, JobRecord, Place, Idle, Absent
<1>2. ASSUME NEW t \in Task
      PROVE  task[t].path = "none" /\ task[t].status = "none"
             /\ job[t].path = "none" /\ job[t].pc = "none"
  BY DEF TasksInit, Idle, Absent
<1> QED
  BY <1>1, <1>2, TasksAssumption DEF FilesKept, Shared, Names, Working, Shown

(* A step of the task's goroutine, its creation and its end.               *)
LEMMA JobGoesOn ==
  ASSUME TaskTypes, NEW t \in Task, NEW pc \in Place, JobGoes(t, pc)
  PROVE  /\ job' \in [Task -> JobRecord]
         /\ job'[t].pc = pc /\ job'[t].path = job[t].path
         /\ \A u \in Task : u # t => job'[u] = job[u]
  BY DEF TaskTypes, JobRecord, JobGoes

LEMMA JobIsIdle ==
  ASSUME TaskTypes, NEW t \in Task, job' = [job EXCEPT ![t] = Idle]
  PROVE  /\ job' \in [Task -> JobRecord]
         /\ job'[t].pc = "none" /\ job'[t].path = "none"
         /\ \A u \in Task : u # t => job'[u] = job[u]
  BY DEF TaskTypes, JobRecord, Idle, Place

LEMMA TaskBegins ==
  ASSUME TaskTypes, NEW t \in Task, NEW p \in Path \cup {"none"}, NEW pc \in Place,
         Creates(t, p, pc)
  PROVE  /\ task' \in [Task -> TaskRecord] /\ job' \in [Task -> JobRecord]
         /\ task'[t].path = p /\ task'[t].status = "doing"
         /\ job'[t].path = p /\ job'[t].pc = pc
         /\ \A u \in Task : u # t => task'[u] = task[u] /\ job'[u] = job[u]
         /\ removed' = removed \ {t}
         /\ UNCHANGED saved
         /\ task[t] = Absent /\ job[t] = Idle
  BY DEF TaskTypes, TaskRecord, JobRecord, Creates, Exists

LEMMA TaskIsAbsent ==
  ASSUME TaskTypes, NEW t \in Task, task' = [task EXCEPT ![t] = Absent]
  PROVE  /\ task' \in [Task -> TaskRecord]
         /\ task'[t].status = "none" /\ task'[t].path = "none"
         /\ \A u \in Task : u # t => task'[u] = task[u]
  BY DEF TaskTypes, TaskRecord, Absent

LEMMA TaskIsOver ==
  ASSUME TaskTypes, NEW t \in Task, NEW status \in {"success", "fail"},
         task' = [task EXCEPT ![t].status = status]
  PROVE  /\ task' \in [Task -> TaskRecord]
         /\ task'[t].status = status /\ task'[t].path = task[t].path
         /\ \A u \in Task : u # t => task'[u] = task[u]
  BY DEF TaskTypes, TaskRecord

(* No task names a file that it did not name before.                       *)
LEMMA SharedKeeps ==
  ASSUME Shared, \A u \in Task, p \in Path : Names(u, p)' => Names(u, p), UNCHANGED twice
  PROVE  Shared'
  BY DEF Shared

(* A task that a step leaves alone, with its file or one that was shared.  *)
LEMMA OthersKeep ==
  ASSUME NEW u \in Task, TaskTypes, Working(u), Shown(u),
         task'[u] = task[u], job'[u] = job[u],
         u \in removed => u \in removed', twice \subseteq twice',
         \A p \in Path : Names(u, p) => saved'[p] = saved[p] \/ p \in twice'
  PROVE  Working(u)' /\ Shown(u)'
<1>1. Working(u)'
  BY DEF Working, Lost, Names, Exists
<1>2. Shown(u)'
  BY DEF Shown, Lost, Names
<1> QED
  BY <1>1, <1>2

LEMMA CreationKeeps ==
  ASSUME FilesKept, NEW t \in Task, Export(t) \/ ImportFile(t)
  PROVE  FilesKept'
<1>1. CASE Export(t)
  <2>1. PICK p \in Path :
          /\ Creates(t, p, "lock")
          /\ twice' = IF \E u \in Task : p \in {task[u].path, job[u].path}
                        THEN twice \cup {p} ELSE twice
    BY <1>1 DEF Export
  <2>2. /\ task' \in [Task -> TaskRecord] /\ job' \in [Task -> JobRecord]
        /\ task'[t].path = p /\ task'[t].status = "doing"
        /\ job'[t].path = p /\ job'[t].pc = "lock"
        /\ \A u \in Task : u # t => task'[u] = task[u] /\ job'[u] = job[u]
        /\ removed' = removed \ {t} /\ UNCHANGED saved
        /\ task[t] = Absent /\ job[t] = Idle
    BY <2>1, TaskBegins DEF FilesKept, Place
  <2>3. twice \subseteq twice' /\ twice' \subseteq twice \cup {p}
    BY <2>1
  <2>4. ASSUME NEW u \in Task, Names(u, p) PROVE p \in twice'
    BY <2>1, <2>4 DEF Names
  <2>a. TaskTypes'
    BY <2>2, <2>3 DEF FilesKept, TaskTypes, JobRecord, TaskRecord, Place
  <2>b. Shared'
    <3>1. ASSUME NEW v \in Task, NEW q \in Path, Names(v, q)'
          PROVE  IF v = t THEN q = p ELSE Names(v, q)
      BY <2>2, <3>1 DEF Names
    <3>2. ASSUME NEW q \in Path, NEW v \in Task, NEW w \in Task, v # w,
                 Names(v, q)', Names(w, q)'
          PROVE  q \in twice'
      BY <2>3, <2>4, <3>1, <3>2 DEF FilesKept, Shared
    <3> QED
      BY <3>2 DEF Shared
  <2>c. ASSUME NEW u \in Task, u # t PROVE Working(u)' /\ Shown(u)'
    <3>1. Working(u) /\ Shown(u) /\ TaskTypes
      BY DEF FilesKept
    <3>2. \A f \in Path : Names(u, f) => saved'[f] = saved[f] \/ f \in twice'
      BY <2>2, <2>3, <2>c DEF FilesKept, TaskTypes, Shared, Names, JobRecord
    <3> QED
      BY <2>2, <2>3, <2>c, <3>1, <3>2, OthersKeep
  <2>d. Working(t)'
    BY <2>2, <2>3 DEF FilesKept, TaskTypes, JobRecord, TaskRecord, Place, Working, Lost, Idle, Absent, Exists
  <2>e. Shown(t)'
    BY <2>2, <2>3, ShownExists DEF FilesKept, TaskTypes, JobRecord, TaskRecord, Place, Shown, Working, Lost, Idle, Absent
  <2> QED
    BY <2>a, <2>b, <2>c, <2>d, <2>e DEF FilesKept
<1>2. CASE ImportFile(t)
  <2>2. /\ task' \in [Task -> TaskRecord] /\ job' \in [Task -> JobRecord]
        /\ task'[t].path = "none" /\ task'[t].status = "doing"
        /\ job'[t].path = "none" /\ job'[t].pc = "read"
        /\ \A u \in Task : u # t => task'[u] = task[u] /\ job'[u] = job[u]
        /\ removed' = removed \ {t} /\ UNCHANGED <<saved, twice>>
        /\ task[t] = Absent /\ job[t] = Idle
    BY <1>2, TaskBegins DEF FilesKept, Place, ImportFile
  <2>a. TaskTypes'
    BY <2>2, TasksAssumption DEF FilesKept, TaskTypes, JobRecord, TaskRecord, Place
  <2>b. Shared'
    <3>1. \A u \in Task, p \in Path : Names(u, p)' => Names(u, p)
      BY <2>2, TasksAssumption DEF Names, Idle, Absent
    <3> QED
      BY <2>2, TasksAssumption, <3>1, SharedKeeps DEF FilesKept
  <2>c. ASSUME NEW u \in Task, u # t PROVE Working(u)' /\ Shown(u)'
    <3>1. Working(u) /\ Shown(u) /\ TaskTypes
      BY DEF FilesKept
    <3>2. \A p \in Path : Names(u, p) => saved'[p] = saved[p] \/ p \in twice'
      BY <2>2, TasksAssumption, <2>c DEF FilesKept, TaskTypes, Shared, Names, JobRecord
    <3> QED
      BY <2>2, TasksAssumption, <2>c, <3>1, <3>2, OthersKeep
  <2>d. Working(t)'
    BY <2>2, TasksAssumption DEF FilesKept, TaskTypes, JobRecord, TaskRecord, Place, Working, Lost, Idle, Absent, Exists
  <2>e. Shown(t)'
    BY <2>2, TasksAssumption, ShownExists DEF FilesKept, TaskTypes, JobRecord, TaskRecord, Place, Shown, Working, Lost, Idle, Absent
  <2> QED
    BY <2>a, <2>b, <2>c, <2>d, <2>e DEF FilesKept
<1> QED
  BY <1>1, <1>2

LEMMA JobKeeps ==
  ASSUME FilesKept, NEW t \in Task,
         JobLocks(t) \/ JobCreates(t) \/ JobWrites(t) \/ JobFails(t) \/ JobReads(t)
  PROVE  FilesKept'
<1> DEFINE MovesOn(pc) == /\ job' \in [Task -> JobRecord]
                          /\ job'[t].pc = pc /\ job'[t].path = job[t].path
                          /\ \A u \in Task : u # t => job'[u] = job[u]
           Leaves == /\ job' \in [Task -> JobRecord]
                     /\ job'[t].pc = "none" /\ job'[t].path = "none"
                     /\ \A u \in Task : u # t => job'[u] = job[u]
<1>1. CASE JobLocks(t)
  <2>1. job[t].pc = "lock" /\ UNCHANGED <<task, saved, removed, twice>>
    BY <1>1 DEF JobLocks, Job
  <2>2. MovesOn("create") \/ Leaves
    BY <1>1, JobGoesOn, JobIsIdle DEF JobLocks, FilesKept, Place
  <2>a. TaskTypes'
    BY <2>1, <2>2, TasksAssumption DEF FilesKept, TaskTypes, JobRecord, TaskRecord, Place
  <2>b. Shared'
    <3>1. \A u \in Task, p \in Path : Names(u, p)' => Names(u, p)
      BY <2>1, <2>2, TasksAssumption DEF Names, Idle, Absent
    <3> QED
      BY <2>1, <2>2, TasksAssumption, <3>1, SharedKeeps DEF FilesKept
  <2>c. ASSUME NEW u \in Task, u # t PROVE Working(u)' /\ Shown(u)'
    <3>1. Working(u) /\ Shown(u) /\ TaskTypes
      BY DEF FilesKept
    <3>2. \A p \in Path : Names(u, p) => saved'[p] = saved[p] \/ p \in twice'
      BY <2>1, <2>2, TasksAssumption, <2>c DEF FilesKept, TaskTypes, Shared, Names, JobRecord
    <3> QED
      BY <2>1, <2>2, TasksAssumption, <2>c, <3>1, <3>2, OthersKeep
  <2>d. Working(t)'
    BY <2>1, <2>2, TasksAssumption DEF FilesKept, TaskTypes, JobRecord, TaskRecord, Place, Working, Lost, Idle, Absent, Exists
  <2>e. Shown(t)'
    BY <2>1, <2>2, TasksAssumption, ShownExists DEF FilesKept, TaskTypes, JobRecord, TaskRecord, Place, Shown, Working, Lost, Idle, Absent
  <2> QED
    BY <2>a, <2>b, <2>c, <2>d, <2>e DEF FilesKept
<1>2. CASE JobCreates(t)
  <2>1. /\ job[t].pc = "create" /\ UNCHANGED <<task, removed, twice>>
        /\ saved' = [saved EXCEPT ![job[t].path] = "empty"]
    BY <1>2 DEF JobCreates, Job
  <2>2. MovesOn("write")
    BY <1>2, JobGoesOn DEF JobCreates, FilesKept, Place
  <2>a. TaskTypes'
    BY <2>1, <2>2 DEF FilesKept, TaskTypes, JobRecord, TaskRecord, Place
  <2>b. Shared'
    <3>1. \A u \in Task, p \in Path : Names(u, p)' => Names(u, p)
      BY <2>1, <2>2 DEF Names, Idle, Absent
    <3> QED
      BY <2>1, <2>2, <3>1, SharedKeeps DEF FilesKept
  <2>c. ASSUME NEW u \in Task, u # t PROVE Working(u)' /\ Shown(u)'
    <3>1. Working(u) /\ Shown(u) /\ TaskTypes
      BY DEF FilesKept
    <3>2. \A p \in Path : Names(u, p) => saved'[p] = saved[p] \/ p \in twice'
      BY <2>1, <2>2, <2>c DEF FilesKept, TaskTypes, Shared, Names, JobRecord
    <3> QED
      BY <2>1, <2>2, <2>c, <3>1, <3>2, OthersKeep
  <2>d. Working(t)'
    BY <2>1, <2>2 DEF FilesKept, TaskTypes, JobRecord, TaskRecord, Place, Working, Lost, Idle, Absent, Exists
  <2>e. Shown(t)'
    BY <2>1, <2>2, ShownExists DEF FilesKept, TaskTypes, JobRecord, TaskRecord, Place, Shown, Working, Lost, Idle, Absent
  <2> QED
    BY <2>a, <2>b, <2>c, <2>d, <2>e DEF FilesKept
<1>3. CASE JobWrites(t)
  <2>1. /\ job[t].pc \in {"write", "write unlinked"} /\ UNCHANGED <<task, removed, twice>>
        /\ saved' = IF job[t].pc = "write" THEN [saved EXCEPT ![job[t].path] = "full"] ELSE saved
    BY <1>3 DEF JobWrites, Job
  <2>2. MovesOn("success")
    BY <1>3, JobGoesOn DEF JobWrites, FilesKept, Place
  <2>a. TaskTypes'
    BY <2>1, <2>2 DEF FilesKept, TaskTypes, JobRecord, TaskRecord, Place
  <2>b. Shared'
    <3>1. \A u \in Task, p \in Path : Names(u, p)' => Names(u, p)
      BY <2>1, <2>2 DEF Names, Idle, Absent
    <3> QED
      BY <2>1, <2>2, <3>1, SharedKeeps DEF FilesKept
  <2>c. ASSUME NEW u \in Task, u # t PROVE Working(u)' /\ Shown(u)'
    <3>1. Working(u) /\ Shown(u) /\ TaskTypes
      BY DEF FilesKept
    <3>2. \A p \in Path : Names(u, p) => saved'[p] = saved[p] \/ p \in twice'
      BY <2>1, <2>2, <2>c DEF FilesKept, TaskTypes, Shared, Names, JobRecord
    <3> QED
      BY <2>1, <2>2, <2>c, <3>1, <3>2, OthersKeep
  <2>d. Working(t)'
    BY <2>1, <2>2 DEF FilesKept, TaskTypes, JobRecord, TaskRecord, Place, Working, Lost, Idle, Absent, Exists
  <2>e. Shown(t)'
    BY <2>1, <2>2, ShownExists DEF FilesKept, TaskTypes, JobRecord, TaskRecord, Place, Shown, Working, Lost, Idle, Absent
  <2> QED
    BY <2>a, <2>b, <2>c, <2>d, <2>e DEF FilesKept
<1>4. CASE JobFails(t)
  <2>1. /\ job[t].pc \in {"create", "write", "write unlinked"}
        /\ UNCHANGED <<task, saved, removed, twice>>
    BY <1>4 DEF JobFails, Job
  <2>2. MovesOn("fail")
    BY <1>4, JobGoesOn DEF JobFails, FilesKept, Place
  <2>a. TaskTypes'
    BY <2>1, <2>2 DEF FilesKept, TaskTypes, JobRecord, TaskRecord, Place
  <2>b. Shared'
    <3>1. \A u \in Task, p \in Path : Names(u, p)' => Names(u, p)
      BY <2>1, <2>2 DEF Names, Idle, Absent
    <3> QED
      BY <2>1, <2>2, <3>1, SharedKeeps DEF FilesKept
  <2>c. ASSUME NEW u \in Task, u # t PROVE Working(u)' /\ Shown(u)'
    <3>1. Working(u) /\ Shown(u) /\ TaskTypes
      BY DEF FilesKept
    <3>2. \A p \in Path : Names(u, p) => saved'[p] = saved[p] \/ p \in twice'
      BY <2>1, <2>2, <2>c DEF FilesKept, TaskTypes, Shared, Names, JobRecord
    <3> QED
      BY <2>1, <2>2, <2>c, <3>1, <3>2, OthersKeep
  <2>d. Working(t)'
    BY <2>1, <2>2 DEF FilesKept, TaskTypes, JobRecord, TaskRecord, Place, Working, Lost, Idle, Absent, Exists
  <2>e. Shown(t)'
    BY <2>1, <2>2, ShownExists DEF FilesKept, TaskTypes, JobRecord, TaskRecord, Place, Shown, Working, Lost, Idle, Absent
  <2> QED
    BY <2>a, <2>b, <2>c, <2>d, <2>e DEF FilesKept
<1>5. CASE JobReads(t)
  <2>1. job[t].pc = "read" /\ UNCHANGED <<task, saved, removed, twice>>
    BY <1>5 DEF JobReads, Job
  <2>2. MovesOn("success") \/ MovesOn("fail")
    BY <1>5, JobGoesOn DEF JobReads, FilesKept, Place
  <2>3. /\ job[t].path \notin Path
        /\ Exists(t) => task[t].path = job[t].path /\ task[t].status = "doing"
    BY <2>1, TasksAssumption DEF FilesKept, Working
  <2>a. TaskTypes'
    BY <2>1, <2>2, TasksAssumption DEF FilesKept, TaskTypes, JobRecord, TaskRecord, Place
  <2>b. Shared'
    <3>1. \A u \in Task, p \in Path : Names(u, p)' => Names(u, p)
      BY <2>1, <2>2 DEF Names, Idle, Absent
    <3> QED
      BY <2>1, <2>2, <3>1, SharedKeeps DEF FilesKept
  <2>c. ASSUME NEW u \in Task, u # t PROVE Working(u)' /\ Shown(u)'
    <3>1. Working(u) /\ Shown(u) /\ TaskTypes
      BY DEF FilesKept
    <3>2. \A p \in Path : Names(u, p) => saved'[p] = saved[p] \/ p \in twice'
      BY <2>1, <2>2, TasksAssumption, <2>c DEF FilesKept, TaskTypes, Shared, Names, JobRecord
    <3> QED
      BY <2>1, <2>2, TasksAssumption, <2>c, <3>1, <3>2, OthersKeep
  <2>d. Working(t)'
    BY <2>1, <2>2, <2>3 DEF Working, Exists
  <2>e. Shown(t)'
    BY <2>1, <2>2, TasksAssumption, ShownExists DEF FilesKept, TaskTypes, JobRecord, TaskRecord, Place, Shown, Working, Lost, Idle, Absent
  <2> QED
    BY <2>a, <2>b, <2>c, <2>d, <2>e DEF FilesKept
<1> QED
  BY <1>1, <1>2, <1>3, <1>4, <1>5

LEMMA EndKeeps ==
  ASSUME FilesKept, NEW t \in Task, JobEnds(t)
  PROVE  FilesKept'
<1>1. job[t].pc \in {"success", "fail"} /\ UNCHANGED <<saved, removed, twice>>
  BY DEF JobEnds, Job
<1>2. /\ job' \in [Task -> JobRecord]
      /\ job'[t].pc = "none" /\ job'[t].path = "none"
      /\ \A u \in Task : u # t => job'[u] = job[u]
  BY JobIsIdle DEF JobEnds, FilesKept
<1>3. \/ UNCHANGED task
      \/ /\ Exists(t) /\ task' \in [Task -> TaskRecord]
         /\ task'[t].status = job[t].pc /\ task'[t].path = task[t].path
         /\ \A u \in Task : u # t => task'[u] = task[u]
  BY <1>1, TaskIsOver DEF JobEnds, FilesKept
<1>4. /\ Exists(t) => task[t].path = job[t].path
      /\ job[t].pc = "success" /\ job[t].path \in Path =>
           saved[job[t].path] = "full" \/ Lost(t, job[t].path)
  BY <1>1 DEF FilesKept, Working
<1>a. TaskTypes'
  BY <1>1, <1>2, <1>3, TasksAssumption DEF FilesKept, TaskTypes, JobRecord, TaskRecord, Place
<1>b. Shared'
  <2>1. \A u \in Task, p \in Path : Names(u, p)' => Names(u, p)
    BY <1>1, <1>2, <1>3, TasksAssumption DEF Names, Idle, Absent
  <2> QED
    BY <1>1, <1>2, <1>3, TasksAssumption, <2>1, SharedKeeps DEF FilesKept
<1>c. ASSUME NEW u \in Task, u # t PROVE Working(u)' /\ Shown(u)'
  <2>1. Working(u) /\ Shown(u) /\ TaskTypes
    BY DEF FilesKept
  <2>2. \A p \in Path : Names(u, p) => saved'[p] = saved[p] \/ p \in twice'
    BY <1>1, <1>2, <1>3, TasksAssumption, <1>c DEF FilesKept, TaskTypes, Shared, Names, JobRecord
  <2> QED
    BY <1>1, <1>2, <1>3, TasksAssumption, <1>c, <2>1, <2>2, OthersKeep
<1>d. Working(t)'
  BY <1>1, <1>2, <1>3, TasksAssumption DEF FilesKept, TaskTypes, JobRecord, TaskRecord, Place, Working, Lost, Idle, Absent, Exists
<1>e. Shown(t)'
  BY <1>1, <1>3, <1>4 DEF FilesKept, Shown, Lost
<1> QED
  BY <1>a, <1>b, <1>c, <1>d, <1>e DEF FilesKept

(* The removal of a file changes the goroutine that has it open.           *)
LEMMA FileIsUnlinked ==
  ASSUME TaskTypes, NEW p \in Path,
         job' = [u \in Task |-> IF job[u] = [pc |-> "write", path |-> p]
                                  THEN [job[u] EXCEPT !.pc = "write unlinked"]
                                  ELSE job[u]],
         NEW u \in Task
  PROVE  /\ job'[u] \in JobRecord /\ job'[u].path = job[u].path
         /\ \/ job'[u] = job[u] /\ ~(job[u].pc = "write" /\ job[u].path = p)
            \/ job[u].path = p /\ job[u].pc = "write" /\ job'[u].pc = "write unlinked"
<1>1. job[u] \in JobRecord
  BY DEF TaskTypes
<1>2. job[u] = [pc |-> "write", path |-> p] <=> job[u].pc = "write" /\ job[u].path = p
  <2>1. job[u] = [pc |-> job[u].pc, path |-> job[u].path]
    BY <1>1 DEF JobRecord
  <2>2. ASSUME NEW r, r = [pc |-> "write", path |-> p]
        PROVE  r.pc = "write" /\ r.path = p
    BY <2>2
  <2>3. ASSUME job[u].pc = "write", job[u].path = p
        PROVE  job[u] = [pc |-> "write", path |-> p]
    BY <2>1, <2>3
  <2> QED
    BY <2>2, <2>3
<1>3. CASE job[u].pc = "write" /\ job[u].path = p
  <2>1. job'[u] = [job[u] EXCEPT !.pc = "write unlinked"]
    BY <1>2, <1>3
  <2> QED
    BY <1>1, <1>3, <2>1 DEF JobRecord, Place
<1>4. CASE ~(job[u].pc = "write" /\ job[u].path = p)
  BY <1>1, <1>2, <1>4
<1> QED
  BY <1>3, <1>4

LEMMA FileRemovalKeeps ==
  ASSUME FilesKept, NEW t \in Task, DeletionRemovesFile(t),
         task[t].path \in Path, saved[task[t].path] # "absent"
  PROVE  FilesKept'
<1>0. PICK p \in Path : task[t].path = p
  OBVIOUS
<1>1. /\ saved' = [saved EXCEPT ![p] = "absent"]
      /\ removed' = removed \cup {t}
      /\ UNCHANGED <<task, twice>>
  BY <1>0 DEF DeletionRemovesFile
<1>2. job' = [u \in Task |-> IF job[u] = [pc |-> "write", path |-> p]
                               THEN [job[u] EXCEPT !.pc = "write unlinked"]
                               ELSE job[u]]
  BY <1>0 DEF DeletionRemovesFile
<1>4. \A u \in Task :
        /\ job'[u] \in JobRecord /\ job'[u].path = job[u].path
        /\ \/ job'[u] = job[u] /\ ~(job[u].pc = "write" /\ job[u].path = p)
           \/ job[u].path = p /\ job[u].pc = "write" /\ job'[u].pc = "write unlinked"
  BY <1>2, <1>0, FileIsUnlinked DEF FilesKept
<1>5. \A u \in Task : Names(u, p) => u = t \/ p \in twice
  BY <1>0 DEF FilesKept, Shared, Names
<1>6. TaskTypes'
  <2>1. job' \in [Task -> JobRecord]
    BY <1>2, <1>4
  <2> QED
    BY <1>1, <2>1 DEF FilesKept, TaskTypes
<1>7. Shared'
  <2>1. \A u \in Task, q \in Path : Names(u, q)' => Names(u, q)
    BY <1>1, <1>4 DEF Names
  <2> QED
    BY <1>1, <2>1, SharedKeeps DEF FilesKept
<1>8. ASSUME NEW u \in Task PROVE Working(u)'
  <2>1. /\ Working(u) /\ job'[u].path = job[u].path
        /\ Exists(u)' <=> Exists(u)
        /\ task'[u] = task[u]
    BY <1>1, <1>4, <1>8 DEF FilesKept, Exists
  <2>2. ASSUME job[u].path = p PROVE Lost(u, p)'
    BY <1>1, <1>5, <1>8, <2>2 DEF Names, Lost
  <2>3. ASSUME job[u].path \in Path, job[u].path # p
        PROVE  saved'[job[u].path] = saved[job[u].path]
    BY <1>1, <2>3 DEF FilesKept, TaskTypes
  <2>4. ASSUME NEW q \in Path, Lost(u, q) PROVE Lost(u, q)'
    BY <1>1, <2>4 DEF Lost
  <2>5. CASE job'[u] = job[u]
    BY <2>1, <2>2, <2>3, <2>4, <2>5 DEF Working
  <2>6. CASE job[u].path = p /\ job[u].pc = "write" /\ job'[u].pc = "write unlinked"
    BY <2>1, <2>2, <2>6 DEF Working
  <2> QED
    BY <1>4, <1>8, <2>5, <2>6
<1>9. ASSUME NEW u \in Task PROVE Shown(u)'
  BY <1>1, <1>0, <1>5 DEF FilesKept, TaskTypes, Shown, Lost, Names
<1> QED
  BY <1>6, <1>7, <1>8, <1>9 DEF FilesKept

LEMMA DeletionKeeps ==
  ASSUME FilesKept, NEW t \in Task,
         DeleteTask(t) \/ DeletionLocks(t) \/ DeletionRemovesFile(t) \/ DeletionRemovesRow(t)
  PROVE  FilesKept'
<1>1. CASE UNCHANGED <<task, job, saved, removed, twice>>
  BY <1>1 DEF FilesKept, TaskTypes, Shared, Names, Working, Shown, Lost, Exists
<1>2. CASE /\ DeletionRemovesRow(t)
           /\ task' = [task EXCEPT ![t] = Absent]
  <2>1. UNCHANGED <<job, saved, removed, twice>>
    BY <1>2 DEF DeletionRemovesRow
  <2>2. /\ task' \in [Task -> TaskRecord]
        /\ task'[t].status = "none" /\ task'[t].path = "none"
        /\ \A u \in Task : u # t => task'[u] = task[u]
    BY <1>2, TaskIsAbsent DEF FilesKept
  <2>a. TaskTypes'
    BY <2>1, <2>2, TasksAssumption DEF FilesKept, TaskTypes, JobRecord, TaskRecord, Place
  <2>b. Shared'
    <3>1. \A u \in Task, p \in Path : Names(u, p)' => Names(u, p)
      BY <2>1, <2>2, TasksAssumption DEF Names, Idle, Absent
    <3> QED
      BY <2>1, <2>2, TasksAssumption, <3>1, SharedKeeps DEF FilesKept
  <2>c. ASSUME NEW u \in Task, u # t PROVE Working(u)' /\ Shown(u)'
    <3>1. Working(u) /\ Shown(u) /\ TaskTypes
      BY DEF FilesKept
    <3>2. \A p \in Path : Names(u, p) => saved'[p] = saved[p] \/ p \in twice'
      BY <2>1, <2>2, TasksAssumption, <2>c DEF FilesKept, TaskTypes, Shared, Names, JobRecord
    <3> QED
      BY <2>1, <2>2, TasksAssumption, <2>c, <3>1, <3>2, OthersKeep
  <2>d. Working(t)'
    BY <2>1, <2>2, TasksAssumption DEF FilesKept, TaskTypes, JobRecord, TaskRecord, Place, Working, Lost, Idle, Absent, Exists
  <2>e. Shown(t)'
    BY <2>1, <2>2, TasksAssumption, ShownExists DEF FilesKept, TaskTypes, JobRecord, TaskRecord, Place, Shown, Working, Lost, Idle, Absent
  <2> QED
    BY <2>a, <2>b, <2>c, <2>d, <2>e DEF FilesKept
<1>3. CASE DeletionRemovesFile(t)
  BY <1>1, <1>3, FileRemovalKeeps DEF DeletionRemovesFile
<1> QED
  BY <1>1, <1>2, <1>3 DEF DeleteTask, DeletionLocks, DeletionRemovesRow

LEMMA TasksKeep ==
  ASSUME FilesKept, [TasksStep \/ TasksCrash]_taskVars
  PROVE  FilesKept'
<1>1. ASSUME NEW kind \in {"export", "remove"}, TaskLockExpires(kind)
      PROVE  FilesKept'
  BY <1>1 DEF FilesKept, TaskTypes, Shared, Names, Working, Shown, Lost, Exists, TaskLockExpires
<1>2. CASE TasksCrash
  BY <1>2, TasksAssumption
  DEF FilesKept, TaskTypes, JobRecord, Place, Shared, Names, Working, Shown, Lost, Idle, Exists, TasksCrash
<1>3. CASE UNCHANGED taskVars
  BY <1>3 DEF FilesKept, TaskTypes, Shared, Names, Working, Shown, Lost, Exists, taskVars
<1> QED
  BY <1>1, <1>2, <1>3, CreationKeeps, JobKeeps, EndKeeps, DeletionKeeps DEF TasksStep

(***************************************************************************)
(* The traffic history.  A start is past the copy, or it has found rows,   *)
(* which are the history or a charge that came before it.                  *)
(***************************************************************************)
Totals == [history : BOOLEAN, charges : BOOLEAN]

Moment == {"down", "files", "write", "import", "migrate", "serving"}

PastCopy == start.pc = "serving" \/ (start.pc = "migrate" /\ start.step > 16)

HistoryKept ==
  /\ start \in [pc : Moment, step : Nat]
  /\ daily \in Totals /\ server \in Totals /\ early \in BOOLEAN
  /\ server.charges => server.history
  /\ early => server.charges
  /\ daily.charges => daily.history \/ early
  /\ PastCopy /\ server.history => daily.history \/ early

LEMMA MigrationOrder ==
  /\ Len(Migration) = 20
  /\ Migration[16].kind = "copy"
  /\ \A i \in 1 .. 20 : Migration[i].kind = "check" => i = 15
<1>1. Len(Migration) = 20
  BY DEF Migration
<1>2. Migration[16].kind = "copy"
  BY DEF Migration
<1>3. ASSUME NEW i \in 1 .. 20, i # 15 PROVE Migration[i].kind # "check"
  <2>1. /\ Migration[1].kind = "column"
        /\ Migration[2].kind = "column"
        /\ Migration[3].kind = "column"
        /\ Migration[4].kind = "column"
        /\ Migration[5].kind = "column"
        /\ Migration[6].kind = "permission"
        /\ Migration[7].kind = "column"
        /\ Migration[8].kind = "column"
        /\ Migration[9].kind = "table"
        /\ Migration[10].kind = "permission"
    BY DEF Migration, Column, Table, Permission
  <2>2. /\ Migration[11].kind = "column"
        /\ Migration[12].kind = "table"
        /\ Migration[13].kind = "table"
        /\ Migration[14].kind = "table"
        /\ Migration[16].kind = "copy"
        /\ Migration[17].kind = "permission"
        /\ Migration[18].kind = "column"
        /\ Migration[19].kind = "table"
        /\ Migration[20].kind = "permission"
    BY DEF Migration, Column, Table, Permission
  <2>3. i \in (1 .. 14) \cup (16 .. 20)
    BY <1>3
  <2> QED
    BY <2>1, <2>2, <2>3
<1> QED
  BY <1>1, <1>2, <1>3

LEMMA RowsAreSomewhere ==
  ASSUME NEW t \in Totals
  PROVE  t # Nowhere <=> t.history \/ t.charges
  BY DEF Totals, Nowhere

LEMMA HistoryIsComplete == HistoryKept => HistoryComplete
  BY DEF HistoryKept, PastCopy, HistoryComplete, Serving

LEMMA HistoryInit == StartInit => HistoryKept
<1> SUFFICES ASSUME StartInit PROVE HistoryKept
  OBVIOUS
<1>1. /\ start.pc = "down" /\ start.step = 1 /\ start \in [pc : Moment, step : Nat]
      /\ daily = Nowhere /\ early = FALSE
  BY DEF StartInit, Moment
<1>2. PICK upgraded \in BOOLEAN : server = [Nowhere EXCEPT !.history = upgraded]
  BY DEF StartInit
<1>3. server \in Totals /\ server.charges = FALSE
  BY <1>2 DEF Nowhere, Totals
<1>4. daily \in Totals /\ daily.charges = FALSE
  BY <1>1 DEF Nowhere, Totals
<1> QED
  BY <1>1, <1>3, <1>4 DEF HistoryKept, PastCopy

LEMMA HistoryKeeps ==
  ASSUME HistoryKept, [StartStep \/ StartCrash \/ AgentCharges]_startVars
  PROVE  HistoryKept'
<1> DEFINE Elsewhere == UNCHANGED <<daily, server, early>>
<1>1. ASSUME Elsewhere, NEW pc \in Moment, NEW step \in Nat, Goes(pc, step),
             (pc = "migrate" /\ step > 16) \/ pc = "serving" => PastCopy
      PROVE  HistoryKept'
  BY <1>1 DEF Goes, HistoryKept, PastCopy
<1>2. CASE Boot \/ CreateFile \/ WriteFile \/ Connect \/ SqlInit \/ StartCrash
  <2>1. Elsewhere
    BY <1>2 DEF Boot, CreateFile, WriteFile, Connect, SqlInit, StartCrash, schemaVars
  <2>2. \E pc \in Moment, step \in Nat :
          Goes(pc, step) /\ pc # "serving" /\ (pc = "migrate" => step = 1)
    BY <1>2
    DEF Boot, CreateFile, WriteFile, Connect, SqlInit, StartCrash, Panics, HistoryKept, Moment
  <2> QED
    BY <1>1, <2>1, <2>2 DEF Moment
<1>3. CASE Migrate \/ Serve
  <2>1. Elsewhere
    BY <1>3 DEF Migrate, Serve, schemaVars
  <2>2. CASE Migrate
    <3>1. start.pc = "migrate" /\ start.step \in Nat /\ start.step # 16
      BY <2>2, MigrationOrder DEF Migrate, Migrating, Statement, Stage, HistoryKept
    <3>2. Goes("migrate", start.step + 1) \/ Goes("down", 1)
      BY <2>2 DEF Migrate, Continues, Panics
    <3>3. start.step + 1 > 16 => PastCopy
      BY <3>1 DEF PastCopy
    <3> QED
      BY <1>1, <2>1, <3>1, <3>2, <3>3 DEF Moment
  <2>3. CASE Serve
    <3>1. PastCopy /\ Goes("serving", 1)
      BY <2>3, MigrationOrder DEF Serve, Stage, PastCopy, HistoryKept
    <3> QED
      BY <1>1, <2>1, <3>1 DEF Moment
  <2> QED
    BY <1>3, <2>2, <2>3
<1>4. CASE CheckDaily
  BY <1>4, MigrationOrder, RowsAreSomewhere
  DEF CheckDaily, Migrating, Goes, Continues, Statement, Stage, schemaVars,
      HistoryKept, PastCopy, Totals
<1>5. CASE CopyHistory
  <2>1. UNCHANGED <<server, early>>
    BY <1>5 DEF CopyHistory
  <2>2. CASE daily.charges
    <3>1. UNCHANGED daily /\ Goes("down", 1)
      BY <1>5, <2>2 DEF CopyHistory, Panics
    <3> QED
      BY <1>1, <2>1, <3>1 DEF Moment
  <2>3. CASE ~daily.charges
    <3>1. daily' = server /\ Goes("migrate", start.step + 1)
      BY <1>5, <2>3 DEF CopyHistory, Continues
    <3> QED
      BY <2>1, <2>3, <3>1 DEF Goes, HistoryKept, PastCopy, Moment, Totals
  <2> QED
    BY <2>2, <2>3
<1>6. CASE AgentCharges
  BY <1>6 DEF AgentCharges, HistoryKept, PastCopy, Totals
<1>7. CASE UNCHANGED startVars
  BY <1>7 DEF startVars, schemaVars, HistoryKept, PastCopy
<1> QED
  BY <1>2, <1>3, <1>4, <1>5, <1>6, <1>7 DEF StartStep

(***************************************************************************)
(* The cached setting.  A reader that is about to fill the cache holds the *)
(* setting of the table, or has crossed an update; an old copy is marked or*)
(* by a request that is about to do so.                                    *)
(***************************************************************************)
IsRequest(r) ==
  r = [op |-> r.op, pc |-> r.pc, id |-> r.id, name |-> r.name, old |-> r.old,
       values |-> r.values, flag |-> r.flag]

BringsNothing(r) ==
  r.id = None /\ r.name = None /\ r.old = None /\ r.values = None /\ r.flag \in BOOLEAN

Requests ==
  /\ request = [q \in Request |-> request[q]]
  /\ \A q \in Request : request[q] # None =>
       IsRequest(request[q]) /\ (request[q].op = "system" => BringsNothing(request[q]))

Fills(q) == At(q, "fill", {"register"})
Drops(q) == At(q, "drop", {"system"})

CacheKept ==
  /\ Requests
  /\ \A q \in Request : Fills(q) => request[q].flag = setting \/ q \in crossed
  /\ cache # None /\ cache # setting => outdated \/ \E q \in Request : Drops(q)

LEMMA CacheIsCurrent == CacheKept => CachedSettingIsCurrent
  BY DEF CacheKept, Drops, CachedSettingIsCurrent

LEMMA CacheInit == AccountsInit => CacheKept
  BY DEF AccountsInit, CacheKept, Requests, Fills, At

(* What a step does to the request it is about, and to no other.           *)
Others(q) == \A r \in Request : r # q => request'[r] = request[r]

LEMMA Asked ==
  ASSUME Requests, NEW q \in Request, NEW op, NEW pc, NEW id, NEW name, NEW old,
         NEW values, NEW flag, Asks(q, op, pc, id, name, old, values, flag),
         op = "system" =>
           id = None /\ name = None /\ old = None /\ values = None /\ flag \in BOOLEAN
  PROVE  Requests' /\ Others(q) /\ request'[q].op = op /\ request'[q].pc = pc
         /\ request[q] = None /\ UNCHANGED settings
  BY DEF Requests, IsRequest, BringsNothing, Others, Asks

LEMMA Proceeded ==
  ASSUME Requests, NEW q \in Request, request[q] # None, NEW pc, Proceeds(q, pc)
  PROVE  /\ Requests' /\ Others(q)
         /\ request'[q].op = request[q].op /\ request'[q].flag = request[q].flag
         /\ request'[q].pc = pc
  BY DEF Requests, IsRequest, BringsNothing, Others, Proceeds

LEMMA Ended ==
  ASSUME Requests, NEW q \in Request, Ends(q)
  PROVE  Requests' /\ Others(q) /\ request'[q] = None
  BY DEF Requests, IsRequest, BringsNothing, Others, Ends

(* One that has read something takes it along.                             *)
LEMMA ReadAndProceeded ==
  ASSUME Requests, NEW q \in Request, request[q].op # "system",
         NEW r, IsRequest(r), r.op = request[q].op,
         request' = [request EXCEPT ![q] = r]
  PROVE  Requests' /\ Others(q) /\ request'[q] = r
<1>1. request'[q] = r /\ Others(q)
  BY DEF Requests, Others
<1> QED
  BY <1>1 DEF Requests, Others

(* A step that leaves the setting and its copy alone, drops nothing and    *)
(* makes no reader fill the cache.                                         *)
LEMMA QuietKeeps ==
  ASSUME CacheKept, NEW q \in Request, Requests', Others(q), UNCHANGED settings,
         ~Drops(q), ~Fills(q)'
  PROVE  CacheKept'
<1>1. UNCHANGED <<setting, cache, crossed, outdated>>
  BY DEF settings
<1>2. ASSUME NEW r \in Request, Fills(r)' PROVE request'[r].flag = setting \/ r \in crossed
  <2>1. r # q /\ Fills(r) /\ request'[r] = request[r]
    BY <1>2 DEF Others, Fills, At
  <2> QED
    BY <2>1 DEF CacheKept
<1>3. ASSUME NEW r \in Request, Drops(r) PROVE Drops(r)'
  <2>1. r # q
    BY <1>3
  <2> QED
    BY <1>3, <2>1 DEF Others, Drops, At
<1> QED
  BY <1>1, <1>2, <1>3 DEF CacheKept

(* A request that goes on, or ends, from another place than those two.     *)
LEMMA GoingOnKeeps ==
  ASSUME CacheKept, NEW q \in Request, UNCHANGED settings,
         request[q] # None, request[q].pc # "drop",
         Ends(q) \/ \E pc \in {"count", "insert", "clear", "read", "write", "lock"} :
                      Proceeds(q, pc)
  PROVE  CacheKept'
<1>1. Requests /\ ~Drops(q)
  BY DEF CacheKept, Drops, At
<1>2. CASE Ends(q)
  <2>1. Requests' /\ Others(q) /\ request'[q] = None
    BY <1>1, <1>2, Ended
  <2>2. ~Fills(q)'
    BY <2>1 DEF Fills, At
  <2> QED
    BY <1>1, <2>1, <2>2, QuietKeeps
<1>3. ASSUME NEW pc \in {"count", "insert", "clear", "read", "write", "lock"}, Proceeds(q, pc)
      PROVE  CacheKept'
  <2>1. Requests' /\ Others(q) /\ request'[q].pc = pc
    BY <1>1, <1>3, Proceeded
  <2>2. ~Fills(q)'
    BY <2>1 DEF Fills, At
  <2> QED
    BY <1>1, <2>1, <2>2, QuietKeeps
<1> QED
  BY <1>2, <1>3

LEMMA BeginningKeeps ==
  ASSUME CacheKept, NEW q \in Request, Begins(q)
  PROVE  CacheKept'
<1>1. ASSUME NEW op, NEW pc, NEW id, NEW name, NEW old, NEW values, NEW flag, pc # "fill",
             Asks(q, op, pc, id, name, old, values, flag),
             op = "system" =>
               id = None /\ name = None /\ old = None /\ values = None /\ flag \in BOOLEAN
      PROVE  CacheKept'
  <2>1. /\ Requests' /\ Others(q) /\ request'[q].pc = pc
        /\ request[q] = None /\ UNCHANGED settings
    BY <1>1, Asked DEF CacheKept
  <2>2. ~Drops(q) /\ ~Fills(q)'
    BY <1>1, <2>1 DEF Drops, Fills, At
  <2> QED
    BY <2>1, <2>2, QuietKeeps
<1>2. CASE CreateAccount(q)
  BY <1>1, <1>2 DEF CreateAccount
<1>3. CASE Register(q)
  BY <1>1, <1>3 DEF Register
<1>4. CASE CreateAccountBatch(q)
  BY <1>1, <1>4 DEF CreateAccountBatch
<1>5. CASE DeleteAccountById(q)
  BY <1>1, <1>5 DEF DeleteAccountById
<1>6. CASE UpdateAccountPass(q)
  BY <1>1, <1>6 DEF UpdateAccountPass
<1>7. CASE UpdateAccountProperty(q)
  BY <1>1, <1>7 DEF UpdateAccountProperty
<1>8. CASE UpdateAccountById(q)
  BY <1>1, <1>8 DEF UpdateAccountById
<1>9. CASE Login(q)
  BY <1>1, <1>9 DEF Login
<1>10. CASE ImportAccount(q)
  BY <1>1, <1>10 DEF ImportAccount
<1>11. CASE UpdateSystemById(q)
  BY <1>1, <1>11 DEF UpdateSystemById
<1> QED
  BY <1>2, <1>3, <1>4, <1>5, <1>6, <1>7, <1>8, <1>9, <1>10, <1>11 DEF Begins

LEMMA SettingIsRead ==
  ASSUME CacheKept, NEW q \in Request, ReadSetting(q), cache = None,
         request' = [request EXCEPT ![q].pc = "fill", ![q].flag = setting]
  PROVE  CacheKept'
<1>1. /\ Requests' /\ Others(q) /\ request'[q].flag = setting
      /\ request[q] # None /\ request[q].pc = "setting"
  <2>1. /\ Requests /\ request[q] # None /\ request[q].op = "register"
        /\ request[q].op # "system" /\ request[q].pc = "setting"
    BY DEF CacheKept, ReadSetting, At
  <2> DEFINE s == [request[q] EXCEPT !.pc = "fill"]
             r == [s EXCEPT !.flag = setting]
  <2>2. s = [op |-> "register", pc |-> "fill", id |-> request[q].id,
             name |-> request[q].name, old |-> request[q].old,
             values |-> request[q].values, flag |-> request[q].flag]
    BY <2>1 DEF Requests, IsRequest
  <2>3. request' = [request EXCEPT ![q] = r]
    BY Zenon
  <2>4. r = [s EXCEPT !.flag = setting]
    OBVIOUS
  <2> HIDE DEF s, r
  <2>5. r = [op |-> "register", pc |-> "fill", id |-> request[q].id,
             name |-> request[q].name, old |-> request[q].old,
             values |-> request[q].values, flag |-> setting]
    BY ONLY <2>2, <2>4
  <2>6. IsRequest(r) /\ r.op = "register" /\ r.flag = setting
    BY ONLY <2>5 DEF IsRequest
  <2>7. q \in Request /\ Requests /\ request[q].op # "system" /\ request[q].op = r.op
    BY <2>1, <2>6
  <2>8. Requests' /\ Others(q) /\ request'[q] = r
    BY ONLY <2>7, <2>3, <2>6, ReadAndProceeded
  <2> QED
    BY <2>1, <2>6, <2>8
<1>2. UNCHANGED <<setting, cache, crossed, outdated>>
  BY DEF ReadSetting, settings
<1>3. ASSUME NEW r \in Request, Fills(r)' PROVE request'[r].flag = setting \/ r \in crossed
  <2>1. CASE r = q
    BY <1>1, <2>1
  <2>2. CASE r # q
    <3>1. Fills(r) /\ request'[r] = request[r]
      BY <1>1, <1>3, <2>2 DEF Others, Fills, At
    <3> QED
      BY <3>1 DEF CacheKept
  <2> QED
    BY <2>1, <2>2
<1> QED
  BY <1>1, <1>2, <1>3 DEF CacheKept

LEMMA CacheIsFilled ==
  ASSUME CacheKept, NEW q \in Request, FillSetting(q)
  PROVE  CacheKept'
<1>1. /\ Fills(q) /\ cache' = request[q].flag /\ UNCHANGED setting
      /\ crossed' = crossed \ {q} /\ outdated' = (q \in crossed)
      /\ request[q] # None
  BY DEF FillSetting, Fills, At
<1>2. cache' = setting \/ outdated'
  BY <1>1 DEF CacheKept
<1>3. Requests' /\ Others(q) /\ ~Fills(q)'
  <2>1. CASE Proceeds(q, "count")
    <3>1. Requests' /\ Others(q) /\ request'[q].pc = "count"
      BY <1>1, <2>1, Proceeded DEF CacheKept
    <3> QED
      BY <3>1 DEF Fills, At
  <2>2. CASE Ends(q)
    <3>1. Requests' /\ Others(q) /\ request'[q] = None
      BY <2>2, Ended DEF CacheKept
    <3> QED
      BY <3>1 DEF Fills, At
  <2> QED
    BY <2>1, <2>2 DEF FillSetting
<1>4. ASSUME NEW r \in Request, Fills(r)'
      PROVE  request'[r].flag = setting \/ r \in crossed'
  <2>1. r # q
    BY <1>3, <1>4
  <2>2. Fills(r) /\ request'[r] = request[r]
    BY <1>3, <1>4, <2>1 DEF Others, Fills, At
  <2> QED
    BY <1>1, <2>1, <2>2 DEF CacheKept
<1> QED
  BY <1>1, <1>2, <1>3, <1>4 DEF CacheKept

LEMMA SettingIsWritten ==
  ASSUME CacheKept, NEW q \in Request, SystemWrites(q)
  PROVE  CacheKept'
<1>1. /\ request[q] # None /\ request[q].op = "system" /\ Proceeds(q, "drop")
      /\ crossed' = crossed \cup {r \in Request : Fills(r)}
  BY DEF SystemWrites, At, Fills
<1>2. /\ Requests' /\ Others(q) /\ request'[q].op = "system" /\ request'[q].pc = "drop"
  BY <1>1, Proceeded DEF CacheKept
<1>3. ASSUME NEW r \in Request, Fills(r)' PROVE r \in crossed'
  <2>1. Fills(r)
    BY <1>2, <1>3 DEF Others, Fills, At
  <2> QED
    BY <1>1, <2>1
<1>4. request'[q] # None => Drops(q)'
  BY <1>2 DEF Drops, At
<1>5. request'[q] # None
  <2>1. request[q] = [op |-> "system", pc |-> request[q].pc, id |-> None, name |-> None,
                      old |-> None, values |-> None, flag |-> request[q].flag]
        /\ request[q].flag \in BOOLEAN
    BY <1>1 DEF CacheKept, Requests, IsRequest, BringsNothing
  <2>2. request'[q] = [request[q] EXCEPT !.pc = "drop"]
    BY <1>1 DEF CacheKept, Requests, Proceeds
  <2>3. request'[q] = [op |-> "system", pc |-> "drop", id |-> None, name |-> None,
                       old |-> None, values |-> None, flag |-> request[q].flag]
    BY <2>1, <2>2
  <2> QED
    BY <2>1, <2>3, NoneAssumption
<1> QED
  BY <1>2, <1>3, <1>4, <1>5 DEF CacheKept

LEMMA CopyIsDropped ==
  ASSUME CacheKept, NEW q \in Request, SystemDrops(q)
  PROVE  CacheKept'
<1>1. cache' = None /\ UNCHANGED <<setting, crossed>> /\ Ends(q)
  BY DEF SystemDrops, NoCopy
<1>2. Requests' /\ Others(q) /\ request'[q] = None
  BY <1>1, Ended DEF CacheKept
<1>3. ASSUME NEW r \in Request, Fills(r)' PROVE request'[r].flag = setting \/ r \in crossed
  <2>1. Fills(r) /\ request'[r] = request[r]
    BY <1>2, <1>3 DEF Others, Fills, At
  <2> QED
    BY <2>1 DEF CacheKept
<1> QED
  BY <1>1, <1>2, <1>3 DEF CacheKept

LEMMA FailureKeeps ==
  ASSUME CacheKept, NEW q \in Request, Fails(q)
  PROVE  CacheKept'
<1>1. /\ UNCHANGED <<setting, cache>> /\ Ends(q)
      /\ crossed' = crossed \ {q}
      /\ outdated' = (outdated \/ (Drops(q) /\ cache # None))
  BY DEF Fails, Drops
<1>2. Requests' /\ Others(q) /\ request'[q] = None
  BY <1>1, Ended DEF CacheKept
<1>3. ASSUME NEW r \in Request, Fills(r)'
      PROVE  request'[r].flag = setting \/ r \in crossed'
  <2>1. r # q
    BY <1>2, <1>3 DEF Fills, At
  <2>2. Fills(r) /\ request'[r] = request[r]
    BY <1>2, <1>3, <2>1 DEF Others, Fills, At
  <2> QED
    BY <1>1, <2>1, <2>2 DEF CacheKept
<1>4. ASSUME NEW r \in Request, Drops(r), cache # None PROVE Drops(r)' \/ outdated'
  BY <1>1, <1>2, <1>4 DEF Others, Drops, At
<1> QED
  BY <1>1, <1>2, <1>3, <1>4 DEF CacheKept

LEMMA CrashKeeps ==
  ASSUME CacheKept, AccountsCrash
  PROVE  CacheKept'
<1>1. /\ UNCHANGED <<setting, cache>> /\ request' = [q \in Request |-> None]
      /\ outdated' = (outdated \/ (cache # None /\ \E q \in Request : Drops(q)))
  BY DEF AccountsCrash, Drops
<1>2. Requests' /\ \A q \in Request : ~Fills(q)'
  BY <1>1 DEF Requests, Fills, At
<1> QED
  BY <1>1, <1>2 DEF CacheKept

LEMMA WorkKeeps ==
  ASSUME CacheKept, NEW q \in Request, Works(q)
  PROVE  CacheKept'
<1>1. CASE CountAccountByUsername(q)
  BY <1>1, GoingOnKeeps DEF CountAccountByUsername, At
<1>2. CASE Insert(q)
  BY <1>2, GoingOnKeeps DEF Insert, At
<1>3. CASE RsLock(q)
  BY <1>3, GoingOnKeeps DEF RsLock, At
<1>4. CASE ReadById(q)
  BY <1>4, GoingOnKeeps DEF ReadById, At
<1>5. CASE ReadByName(q)
  BY <1>5, GoingOnKeeps DEF ReadByName, At
<1>6. CASE ImportReads(q)
  BY <1>6, GoingOnKeeps DEF ImportReads, At
<1>7. CASE DeleteWrites(q)
  BY <1>7, GoingOnKeeps DEF DeleteWrites, At
<1>8. CASE PassWrites(q)
  BY <1>8, GoingOnKeeps DEF PassWrites, At
<1>9. CASE RenameWrites(q)
  BY <1>9, GoingOnKeeps DEF RenameWrites, At
<1>10. CASE EditWrites(q)
  BY <1>10, GoingOnKeeps DEF EditWrites, At
<1>11. CASE LoginWrites(q)
  BY <1>11, GoingOnKeeps DEF LoginWrites, At
<1>12. CASE ImportWrites(q)
  BY <1>12, GoingOnKeeps DEF ImportWrites, At
<1>13. CASE Clears(q)
  BY <1>13, GoingOnKeeps DEF Clears, At
<1>14. CASE ReadSetting(q)
  <2>1. CASE Proceeds(q, "count") \/ Ends(q)
    BY <1>14, <2>1, GoingOnKeeps DEF ReadSetting, At
  <2>2. CASE cache = None /\ request' = [request EXCEPT ![q].pc = "fill", ![q].flag = setting]
    BY <1>14, <2>2, SettingIsRead
  <2> QED
    BY <1>14, <2>1, <2>2 DEF ReadSetting
<1>15. CASE LoginReads(q)
  <2>1. CASE Ends(q)
    BY <1>15, <2>1, GoingOnKeeps DEF LoginReads, At
  <2>2. ASSUME NEW i, NEW flag,
               request' = [request EXCEPT ![q].pc = "lock", ![q].id = i, ![q].flag = flag]
        PROVE  CacheKept'
    <3>1. request[q] # None /\ request[q].pc = "read" /\ UNCHANGED settings
      BY <1>15 DEF LoginReads, At
    <3>2. Requests' /\ Others(q) /\ request'[q].pc = "lock"
      <4> DEFINE s == [request[q] EXCEPT !.pc = "lock"]
                 t == [s EXCEPT !.id = i]
                 r == [t EXCEPT !.flag = flag]
      <4>1. Requests /\ request[q] # None /\ request[q].op = "login"
        BY <1>15 DEF CacheKept, LoginReads, At
      <4>2. s = [op |-> "login", pc |-> "lock", id |-> request[q].id,
                 name |-> request[q].name, old |-> request[q].old,
                 values |-> request[q].values, flag |-> request[q].flag]
        BY <4>1 DEF Requests, IsRequest
      <4>3. request' = [request EXCEPT ![q] = r]
        BY <2>2, Zenon
      <4>4. t = [s EXCEPT !.id = i] /\ r = [t EXCEPT !.flag = flag]
        OBVIOUS
      <4> HIDE DEF s, t, r
      <4>5. r = [op |-> "login", pc |-> "lock", id |-> i,
                 name |-> request[q].name, old |-> request[q].old,
                 values |-> request[q].values, flag |-> flag]
        BY ONLY <4>2, <4>4
      <4>6. IsRequest(r) /\ r.op = "login" /\ r.pc = "lock"
        BY ONLY <4>5 DEF IsRequest
      <4>7. Requests' /\ Others(q) /\ request'[q] = r
        BY <4>1, <4>3, <4>6, ReadAndProceeded
      <4> QED
        BY <4>6, <4>7
    <3>3. ~Drops(q) /\ ~Fills(q)'
      BY <3>1, <3>2 DEF Drops, Fills, At
    <3> QED
      BY <3>1, <3>2, <3>3, QuietKeeps
  <2> QED
    BY <1>15, <2>1, <2>2 DEF LoginReads
<1> QED
  BY <1>1, <1>2, <1>3, <1>4, <1>5, <1>6, <1>7, <1>8, <1>9, <1>10, <1>11, <1>12, <1>13, <1>14, <1>15, CacheIsFilled, SettingIsWritten, CopyIsDropped, FailureKeeps
  DEF Works

LEMMA CacheKeeps ==
  ASSUME CacheKept, [AccountsStep \/ AccountsCrash]_accountVars
  PROVE  CacheKept'
<1>1. CASE UNCHANGED <<request, settings>>
  BY <1>1 DEF settings, CacheKept, Requests, Fills, Drops, At
<1>2. CASE CacheExpires
  BY <1>2 DEF CacheExpires, NoCopy, CacheKept, Requests, Fills, At
<1>3. CASE \/ \E l \in Locked : LockExpires(l)
           \/ \E i \in Id : AccountExpires(i)
           \/ ScanSelects \/ ScanDisables
           \/ UNCHANGED accountVars
  BY <1>1, <1>3 DEF LockExpires, AccountExpires, ScanSelects, ScanDisables, accountVars
<1> QED
  BY <1>2, <1>3, BeginningKeeps, WorkKeeps, CrashKeeps DEF AccountsStep

(***************************************************************************)
(* Credentials.  A row is a record, and a request that will write a        *)
(* credential has made it from the name that it will write it to.          *)
(***************************************************************************)
IsAccount(a) ==
  a = [name |-> a.name, pass |-> a.pass, quota |-> a.quota, state |-> a.state,
       fresh |-> a.fresh]

Signed(r) ==
  /\ r.op \in {"create", "register", "batch", "import"} => IsAccount(r.values)
  /\ r.op \in {"create", "register", "batch", "import", "rename"} => Matches(r.values)
  /\ r.op = "import" => r.values.name = r.name
  /\ r.op = "pass" \/ (r.op = "edit" /\ r.flag) => r.values.pass[1] = r.name

Signatures ==
  /\ request = [q \in Request |-> request[q]]
  /\ \A q \in Request : request[q] # None => IsRequest(request[q]) /\ Signed(request[q])
  /\ account = [i \in Id |-> account[i]]
  /\ \A i \in Row : IsAccount(account[i])

(* What CredentialsMatch says of a step.                                   *)
Signs ==
  \A i \in Id :
    account[i]' # None /\ ~Matches(account[i]') =>
      (i \in Row /\ ~Matches(account[i])) \/ StaleEdit(i)

(* One field of a row.                                                     *)
LEMMA NameIsSet ==
  ASSUME NEW a, IsAccount(a), NEW v, NEW b, b = [a EXCEPT !.name = v]
  PROVE  IsAccount(b) /\ b.name = v /\ b.pass = a.pass
  BY DEF IsAccount

LEMMA PassIsSet ==
  ASSUME NEW a, IsAccount(a), NEW v, NEW b, b = [a EXCEPT !.pass = v]
  PROVE  IsAccount(b) /\ b.name = a.name /\ b.pass = v
  BY DEF IsAccount

LEMMA QuotaIsSet ==
  ASSUME NEW a, IsAccount(a), NEW v, NEW b, b = [a EXCEPT !.quota = v]
  PROVE  IsAccount(b) /\ b.name = a.name /\ b.pass = a.pass
  BY DEF IsAccount

LEMMA StateIsSet ==
  ASSUME NEW a, IsAccount(a), NEW v, NEW b, b = [a EXCEPT !.state = v]
  PROVE  IsAccount(b) /\ b.name = a.name /\ b.pass = a.pass
  BY DEF IsAccount

LEMMA FreshIsSet ==
  ASSUME NEW a, IsAccount(a), NEW v, NEW b, b = [a EXCEPT !.fresh = v]
  PROVE  IsAccount(b) /\ b.name = a.name /\ b.pass = a.pass
  BY DEF IsAccount

(* Rows that a statement replaces.                                         *)
LEMMA Updated ==
  ASSUME Signatures, NEW new, account' = Update(new),
         \A i \in DOMAIN new :
           /\ i \in Row /\ IsAccount(new[i])
           /\ Matches(account[i]) => Matches(new[i]) \/ StaleEdit(i)
  PROVE  /\ Signs
         /\ account' = [i \in Id |-> account'[i]]
         /\ \A i \in Row' : IsAccount(account'[i])
<1>1. account' = [i \in Id |-> IF i \in DOMAIN new THEN new[i] ELSE account[i]]
  BY DEF Update
<1>2. ASSUME NEW i \in Id, account'[i] # None
      PROVE  IsAccount(account'[i])
  BY <1>1, <1>2 DEF Signatures, Row
<1>3. ASSUME NEW i \in Id, account'[i] # None, ~Matches(account'[i])
      PROVE  (i \in Row /\ ~Matches(account[i])) \/ StaleEdit(i)
  <2>1. CASE i \in DOMAIN new
    BY <1>1, <1>3, <2>1
  <2>2. CASE i \notin DOMAIN new
    BY <1>1, <1>3, <2>2 DEF Row
  <2> QED
    BY <2>1, <2>2
<1>4. account' = [i \in Id |-> account'[i]]
  BY <1>1
<1>5. \A i \in Row' : IsAccount(account'[i])
  BY <1>2 DEF Row
<1> QED
  BY <1>3, <1>4, <1>5 DEF Signs

LEMMA Unwritten ==
  ASSUME Signatures, UNCHANGED account
  PROVE  /\ Signs
         /\ account' = [i \in Id |-> account'[i]]
         /\ \A i \in Row' : IsAccount(account'[i])
  BY DEF Signatures, Signs, Row

(* Requests that come, go on and end.                                      *)
LEMMA SignerAsks ==
  ASSUME Signatures, NEW q \in Request, NEW op, NEW pc, NEW id, NEW name, NEW old,
         NEW values, NEW flag, Asks(q, op, pc, id, name, old, values, flag),
         op \in {"create", "register", "batch", "import"} => IsAccount(values),
         op \in {"create", "register", "batch", "import", "rename"} => Matches(values),
         op = "import" => values.name = name,
         op = "pass" \/ (op = "edit" /\ flag) => values.pass[1] = name
  PROVE  Signatures' /\ Signs
<1> DEFINE r == [op |-> op, pc |-> pc, id |-> id, name |-> name, old |-> old,
                 values |-> values, flag |-> flag]
<1>1. IsRequest(r) /\ Signed(r)
  BY DEF IsRequest, Signed
<1>2. request' = [request EXCEPT ![q] = r] /\ UNCHANGED account
  BY DEF Asks
<1> HIDE DEF r
<1>3. /\ request' = [p \in Request |-> request'[p]]
      /\ \A p \in Request : request'[p] # None => IsRequest(request'[p]) /\ Signed(request'[p])
  BY <1>1, <1>2 DEF Signatures
<1> QED
  BY <1>2, <1>3, Unwritten DEF Signatures

LEMMA SignerGoesOn ==
  ASSUME Signatures, NEW q \in Request, request[q] # None,
         Ends(q) \/ \E pc : Proceeds(q, pc)
  PROVE  /\ request' = [p \in Request |-> request'[p]]
         /\ \A p \in Request : request'[p] # None => IsRequest(request'[p]) /\ Signed(request'[p])
<1>1. CASE Ends(q)
  BY <1>1 DEF Signatures, Ends
<1>2. ASSUME NEW pc, Proceeds(q, pc)
      PROVE  /\ request' = [p \in Request |-> request'[p]]
             /\ \A p \in Request : request'[p] # None => IsRequest(request'[p]) /\ Signed(request'[p])
  <2>1. request'[q] = [request[q] EXCEPT !.pc = pc]
    BY <1>2 DEF Signatures, Proceeds
  <2>2. request'[q] = [op |-> request[q].op, pc |-> pc, id |-> request[q].id,
                       name |-> request[q].name, old |-> request[q].old,
                       values |-> request[q].values, flag |-> request[q].flag]
    BY <2>1 DEF Signatures, IsRequest
  <2>3. IsRequest(request'[q]) /\ Signed(request'[q])
    BY <2>2 DEF Signatures, IsRequest, Signed
  <2>4. \A p \in Request : p # q => request'[p] = request[p]
    BY <1>2 DEF Signatures, Proceeds
  <2>5. request' = [p \in Request |-> request'[p]]
    BY <1>2 DEF Signatures, Proceeds
  <2> QED
    BY <2>3, <2>4, <2>5 DEF Signatures
<1> QED
  BY <1>1, <1>2

LEMMA SignerReads ==
  ASSUME Signatures, NEW q \in Request, UNCHANGED account,
         NEW r, IsRequest(r), Signed(r), request' = [request EXCEPT ![q] = r]
  PROVE  Signatures' /\ Signs
<1>1. /\ request' = [p \in Request |-> request'[p]]
      /\ \A p \in Request : request'[p] # None => IsRequest(request'[p]) /\ Signed(request'[p])
  BY DEF Signatures
<1> QED
  BY <1>1, Unwritten DEF Signatures

LEMMA SignerBegins ==
  ASSUME Signatures, NEW q \in Request, Begins(q)
  PROVE  Signatures' /\ Signs
<1>0. \A n, p, state : /\ IsAccount(With(n, p, state)) /\ Matches(With(n, p, state))
                       /\ With(n, p, state).name = n /\ With(n, p, state).pass[1] = n
  BY DEF With, IsAccount, Matches
<1>1. CASE CreateAccount(q)
  BY <1>0, <1>1, SignerAsks DEF CreateAccount
<1>2. CASE Register(q)
  BY <1>0, <1>2, SignerAsks DEF Register
<1>3. CASE CreateAccountBatch(q)
  <2>1. \A n : LET a == [With(n, Usual, "expired") EXCEPT !.quota = FALSE, !.fresh = TRUE]
                IN  IsAccount(a) /\ Matches(a)
    <3> TAKE n
    <3> DEFINE w == With(n, Usual, "expired")
               s == [w EXCEPT !.quota = FALSE]
               a == [s EXCEPT !.fresh = TRUE]
    <3>1. IsAccount(w) /\ Matches(w)
      BY <1>0
    <3>2. s = [w EXCEPT !.quota = FALSE] /\ a = [s EXCEPT !.fresh = TRUE]
      OBVIOUS
    <3>3. [With(n, Usual, "expired") EXCEPT !.quota = FALSE, !.fresh = TRUE] = a
      BY Zenon
    <3> HIDE DEF w, s, a
    <3>4. IsAccount(s) /\ s.name = w.name /\ s.pass = w.pass
      BY <3>1, <3>2, QuotaIsSet
    <3>5. IsAccount(a) /\ a.name = s.name /\ a.pass = s.pass
      BY <3>2, <3>4, FreshIsSet
    <3>6. IsAccount(a) /\ Matches(a)
      BY <3>1, <3>4, <3>5 DEF Matches
    <3> QED
      BY <3>3, <3>6
  <2> QED
    BY <1>3, <2>1, SignerAsks DEF CreateAccountBatch
<1>4. CASE DeleteAccountById(q)
  BY <1>4, SignerAsks DEF DeleteAccountById
<1>5. CASE UpdateAccountPass(q)
  <2>1. PICK i \in Row, p \in Password :
          Asks(q, "pass", "lock", None, account[i].name, account[i].pass,
               With(account[i].name, p, "valid"), FALSE)
    BY <1>5 DEF UpdateAccountPass
  <2>2. With(account[i].name, p, "valid").pass[1] = account[i].name
    BY <1>0
  <2> QED
    BY <2>1, <2>2, SignerAsks
<1>6. CASE UpdateAccountProperty(q)
  BY <1>0, <1>6, SignerAsks DEF UpdateAccountProperty
<1>7. CASE UpdateAccountById(q)
  BY <1>0, <1>7, SignerAsks DEF UpdateAccountById
<1>8. CASE Login(q)
  BY <1>8, SignerAsks DEF Login
<1>9. CASE ImportAccount(q)
  BY <1>0, <1>9, SignerAsks DEF ImportAccount
<1>10. CASE UpdateSystemById(q)
  BY <1>10, SignerAsks DEF UpdateSystemById
<1> QED
  BY <1>1, <1>2, <1>3, <1>4, <1>5, <1>6, <1>7, <1>8, <1>9, <1>10 DEF Begins

(* A step of a request that writes no row.                                 *)
LEMMA SignerWaits ==
  ASSUME Signatures, NEW q \in Request, request[q] # None, UNCHANGED account,
         Ends(q) \/ \E pc : Proceeds(q, pc)
  PROVE  Signatures' /\ Signs
  BY SignerGoesOn, Unwritten DEF Signatures

(* One that replaces rows.                                                 *)
LEMMA SignerWrites ==
  ASSUME Signatures, NEW q \in Request, request[q] # None,
         Ends(q) \/ \E pc : Proceeds(q, pc),
         NEW new, account' = Update(new),
         \A i \in DOMAIN new :
           /\ i \in Row /\ IsAccount(new[i])
           /\ Matches(account[i]) => Matches(new[i]) \/ StaleEdit(i)
  PROVE  Signatures' /\ Signs
  BY SignerGoesOn, Updated DEF Signatures

LEMMA NamedAreRows == \A n : Named(n) \subseteq Row
  BY DEF Named

LEMMA InsertSigns ==
  ASSUME Signatures, NEW q \in Request, Insert(q)
  PROVE  Signatures' /\ Signs
<1> DEFINE v == request[q].values
           f == SmallestOf(Free)
<1>1. /\ request[q] # None /\ account' = [account EXCEPT ![f] = v]
      /\ Ends(q) \/ \E pc : Proceeds(q, pc)
  BY DEF Insert, At
<1>2. IsAccount(v) /\ Matches(v)
  BY DEF Insert, At, Signatures, Signed
<1> HIDE DEF v, f
<1>3. account' = [i \in Id |-> account'[i]]
  BY <1>1 DEF Signatures
<1>4. \A i \in Id : account'[i] = account[i] \/ account'[i] = v
  BY <1>1 DEF Signatures
<1>5. Signs /\ \A i \in Row' : IsAccount(account'[i])
  BY <1>2, <1>4 DEF Signatures, Signs, Row
<1> QED
  BY <1>1, <1>3, <1>5, SignerGoesOn DEF Signatures

LEMMA PassSigns ==
  ASSUME Signatures, NEW q \in Request, PassWrites(q)
  PROVE  Signatures' /\ Signs
<1> DEFINE v == request[q].values
           new == [i \in Named(request[q].name) |-> [account[i] EXCEPT !.pass = v.pass]]
<1>1. request[q] # None /\ v.pass[1] = request[q].name
  BY DEF PassWrites, At, Signatures, Signed
<1>2. account' = Update(new) /\ Ends(q)
  BY DEF PassWrites
<1>3. DOMAIN new = Named(request[q].name)
  OBVIOUS
<1>4. ASSUME NEW i \in DOMAIN new
      PROVE  i \in Row /\ IsAccount(new[i]) /\ Matches(new[i])
  <2>1. i \in Row /\ account[i].name = request[q].name /\ IsAccount(account[i])
    BY <1>3 DEF Named, Signatures
  <2>2. new[i] = [account[i] EXCEPT !.pass = v.pass]
    BY <1>3
  <2> HIDE DEF new, v
  <2>3. IsAccount(new[i]) /\ new[i].name = account[i].name /\ new[i].pass = v.pass
    BY <2>1, <2>2, PassIsSet
  <2> QED
    BY <1>1, <2>1, <2>3 DEF Matches, v
<1> HIDE DEF new
<1> QED
  BY <1>1, <1>2, <1>4, SignerWrites

LEMMA RenameSigns ==
  ASSUME Signatures, NEW q \in Request, RenameWrites(q)
  PROVE  Signatures' /\ Signs
<1> DEFINE v == request[q].values
           new == [i \in Named(request[q].name) |->
                     [account[i] EXCEPT !.name = v.name, !.pass = v.pass]]
<1>1. request[q] # None /\ Matches(v)
  BY DEF RenameWrites, At, Signatures, Signed
<1>2. account' = Update(new) /\ Ends(q)
  BY DEF RenameWrites
<1>3. DOMAIN new = Named(request[q].name)
  OBVIOUS
<1>4. ASSUME NEW i \in DOMAIN new
      PROVE  i \in Row /\ IsAccount(new[i]) /\ Matches(new[i])
  <2> DEFINE s == [account[i] EXCEPT !.name = v.name]
             b == [s EXCEPT !.pass = v.pass]
  <2>1. i \in Row /\ IsAccount(account[i])
    BY <1>3 DEF Named, Signatures
  <2>2. s = [account[i] EXCEPT !.name = v.name]
    OBVIOUS
  <2>11. b = [s EXCEPT !.pass = v.pass]
    OBVIOUS
  <2>3. new[i] = b
    BY <1>3, Zenon
  <2> HIDE DEF new, v, s, b
  <2>4. IsAccount(s)
    BY <2>1, <2>2, NameIsSet
  <2>5. s.name = v.name
    BY <2>1, <2>2, NameIsSet
  <2>6. IsAccount(b) /\ b.name = s.name /\ b.pass = v.pass
    BY <2>11, <2>4, PassIsSet
  <2> QED
    BY <1>1, <2>1, <2>3, <2>5, <2>6 DEF Matches, v
<1> HIDE DEF new
<1> QED
  BY <1>1, <1>2, <1>4, SignerWrites

LEMMA EditSigns ==
  ASSUME Signatures, NEW q \in Request, EditWrites(q)
  PROVE  Signatures' /\ Signs
<1> DEFINE v == request[q].values
           Given(i) == IF request[q].flag THEN v.pass ELSE account[i].pass
           new == [i \in {request[q].id} \cap Row |->
                     [account[i] EXCEPT !.pass = Given(i), !.quota = v.quota, !.state = v.state]]
<1>1. At(q, "write", {"edit"}) /\ request[q] # None
      /\ (request[q].flag => v.pass[1] = request[q].name)
  BY DEF EditWrites, At, Signatures, Signed
<1>2. account' = Update(new)
  BY Zenon DEF EditWrites
<1>3. Ends(q) \/ \E pc : Proceeds(q, pc)
  BY DEF EditWrites
<1>4. DOMAIN new = {request[q].id} \cap Row
  OBVIOUS
<1>5. ASSUME NEW i \in DOMAIN new
      PROVE  /\ i \in Row /\ IsAccount(new[i])
             /\ Matches(account[i]) => Matches(new[i]) \/ StaleEdit(i)
  <2> DEFINE p == Given(i)
             s == [account[i] EXCEPT !.pass = p]
             t == [s EXCEPT !.quota = v.quota]
             b == [t EXCEPT !.state = v.state]
  <2>1. i \in Row /\ i = request[q].id /\ IsAccount(account[i])
    BY <1>4 DEF Signatures
  <2>2. s = [account[i] EXCEPT !.pass = p]
    OBVIOUS
  <2>11. t = [s EXCEPT !.quota = v.quota]
    OBVIOUS
  <2>12. b = [t EXCEPT !.state = v.state]
    OBVIOUS
  <2>3. new[i] = b
    BY <1>4, Zenon
  <2>4. p = IF request[q].flag THEN v.pass ELSE account[i].pass
    OBVIOUS
  <2> HIDE DEF new, v, s, t, b, p
  <2>5. IsAccount(s) /\ s.name = account[i].name /\ s.pass = p
    BY <2>1, <2>2, PassIsSet
  <2>6. IsAccount(t) /\ t.name = s.name /\ t.pass = s.pass
    BY <2>11, <2>5, QuotaIsSet
  <2>7. IsAccount(b) /\ b.name = t.name /\ b.pass = t.pass
    BY <2>12, <2>6, StateIsSet
  <2>8. CASE request[q].flag /\ account[i].name # request[q].name
    <3>1. StaleEdit(i)
      BY <1>1, <2>1, <2>8 DEF StaleEdit
    <3> QED
      BY <2>1, <2>3, <2>7, <3>1
  <2>9. CASE request[q].flag /\ account[i].name = request[q].name
    BY <1>1, <2>1, <2>3, <2>4, <2>5, <2>6, <2>7, <2>9 DEF Matches
  <2>10. CASE ~request[q].flag
    BY <2>1, <2>3, <2>4, <2>5, <2>6, <2>7, <2>10 DEF Matches
  <2> QED
    BY <2>8, <2>9, <2>10
<1> HIDE DEF new
<1> QED
  BY <1>1, <1>2, <1>3, <1>5, SignerWrites

LEMMA ImportSigns ==
  ASSUME Signatures, NEW q \in Request, ImportWrites(q)
  PROVE  Signatures' /\ Signs
<1> DEFINE v == request[q].values
           new == [i \in Named(request[q].name) |->
                     [account[i] EXCEPT !.pass = v.pass, !.quota = v.quota, !.state = v.state]]
<1>1. request[q] # None /\ v.pass[1] = request[q].name
  BY DEF ImportWrites, At, Signatures, Signed, Matches
<1>2. account' = Update(new) /\ Ends(q)
  BY DEF ImportWrites
<1>3. DOMAIN new = Named(request[q].name)
  OBVIOUS
<1>4. ASSUME NEW i \in DOMAIN new
      PROVE  i \in Row /\ IsAccount(new[i]) /\ Matches(new[i])
  <2> DEFINE s == [account[i] EXCEPT !.pass = v.pass]
             t == [s EXCEPT !.quota = v.quota]
             b == [t EXCEPT !.state = v.state]
  <2>1. i \in Row /\ account[i].name = request[q].name /\ IsAccount(account[i])
    BY <1>3 DEF Named, Signatures
  <2>2. s = [account[i] EXCEPT !.pass = v.pass]
    OBVIOUS
  <2>3. t = [s EXCEPT !.quota = v.quota]
    OBVIOUS
  <2>4. b = [t EXCEPT !.state = v.state]
    OBVIOUS
  <2>5. new[i] = b
    BY <1>3, Zenon
  <2> HIDE DEF new, v, s, t, b
  <2>6. IsAccount(s) /\ s.name = account[i].name /\ s.pass = v.pass
    BY <2>1, <2>2, PassIsSet
  <2>7. IsAccount(t) /\ t.name = s.name /\ t.pass = s.pass
    BY <2>3, <2>6, QuotaIsSet
  <2>8. IsAccount(b) /\ b.name = t.name /\ b.pass = t.pass
    BY <2>4, <2>7, StateIsSet
  <2> QED
    BY <1>1, <2>1, <2>5, <2>6, <2>7, <2>8 DEF Matches, v
<1> HIDE DEF new
<1> QED
  BY <1>1, <1>2, <1>4, SignerWrites

(* The other updates of rows leave name and credential alone.              *)
LEMMA LoginSigns ==
  ASSUME Signatures, NEW q \in Request, LoginWrites(q)
  PROVE  Signatures' /\ Signs
<1> DEFINE first == request[q].flag
           Quota(i) == account[i].quota \/ first
           State(i) == IF first /\ account[i].state = "expired" THEN "valid" ELSE account[i].state
           new == [i \in {request[q].id} \cap Row |->
                     [account[i] EXCEPT !.fresh = FALSE, !.quota = Quota(i), !.state = State(i)]]
<1>1. request[q] # None
  BY DEF LoginWrites, At
<1>2. account' = Update(new) /\ Ends(q)
  BY Zenon DEF LoginWrites
<1>3. DOMAIN new = {request[q].id} \cap Row
  OBVIOUS
<1>4. ASSUME NEW i \in DOMAIN new
      PROVE  i \in Row /\ IsAccount(new[i]) /\ (Matches(account[i]) => Matches(new[i]))
  <2> DEFINE x == Quota(i)
             y == State(i)
             s == [account[i] EXCEPT !.fresh = FALSE]
             t == [s EXCEPT !.quota = x]
             b == [t EXCEPT !.state = y]
  <2>1. i \in Row /\ IsAccount(account[i])
    BY <1>3 DEF Signatures
  <2>2. s = [account[i] EXCEPT !.fresh = FALSE]
    OBVIOUS
  <2>3. t = [s EXCEPT !.quota = x]
    OBVIOUS
  <2>4. b = [t EXCEPT !.state = y]
    OBVIOUS
  <2>5. new[i] = b
    BY <1>3, Zenon
  <2> HIDE DEF new, s, t, b, x, y
  <2>6. IsAccount(s) /\ s.name = account[i].name /\ s.pass = account[i].pass
    BY <2>1, <2>2, FreshIsSet
  <2>7. IsAccount(t) /\ t.name = s.name /\ t.pass = s.pass
    BY <2>3, <2>6, QuotaIsSet
  <2>8. IsAccount(b) /\ b.name = t.name /\ b.pass = t.pass
    BY <2>4, <2>7, StateIsSet
  <2> QED
    BY <2>1, <2>5, <2>6, <2>7, <2>8 DEF Matches
<1> HIDE DEF new
<1> QED
  BY <1>1, <1>2, <1>4, SignerWrites

LEMMA QuotaIsTaken ==
  ASSUME NEW a, IsAccount(a)
  PROVE  /\ IsAccount(WithoutQuota(a))
         /\ WithoutQuota(a).name = a.name /\ WithoutQuota(a).pass = a.pass
  BY QuotaIsSet DEF WithoutQuota

LEMMA ClearSigns ==
  ASSUME Signatures, NEW q \in Request, Clears(q)
  PROVE  Signatures' /\ Signs
<1> DEFINE State(i) == IF request[q].values.state = "disabled" THEN "disabled"
                       ELSE WithoutQuota(account[i]).state
           new == [i \in Named(request[q].name) |->
                     [WithoutQuota(account[i]) EXCEPT !.state = State(i)]]
<1>1. request[q] # None
  BY DEF Clears, At
<1>2. account' = Update(new) /\ Ends(q)
  BY Zenon DEF Clears
<1>3. DOMAIN new = Named(request[q].name)
  OBVIOUS
<1>4. ASSUME NEW i \in DOMAIN new
      PROVE  i \in Row /\ IsAccount(new[i]) /\ (Matches(account[i]) => Matches(new[i]))
  <2> DEFINE s == WithoutQuota(account[i])
             y == State(i)
  <2>1. i \in Row /\ IsAccount(account[i])
    BY <1>3 DEF Named, Signatures
  <2>2. IsAccount(s) /\ s.name = account[i].name /\ s.pass = account[i].pass
    BY <2>1, QuotaIsTaken
  <2>3. new[i] = [s EXCEPT !.state = y]
    BY <1>3, Zenon
  <2> HIDE DEF new, s, y
  <2>4. IsAccount(new[i]) /\ new[i].name = s.name /\ new[i].pass = s.pass
    BY <2>2, <2>3, StateIsSet
  <2> QED
    BY <2>1, <2>2, <2>4 DEF Matches
<1> HIDE DEF new
<1> QED
  BY <1>1, <1>2, <1>4, SignerWrites

LEMMA DeletionSigns ==
  ASSUME Signatures, NEW q \in Request, DeleteWrites(q)
  PROVE  Signatures' /\ Signs
<1>1. request[q] # None /\ account' = [account EXCEPT ![request[q].id] = None] /\ Ends(q)
  BY DEF DeleteWrites, At
<1>2. account' = [i \in Id |-> account'[i]]
  BY <1>1 DEF Signatures
<1>3. \A i \in Id : account'[i] = account[i] \/ account'[i] = None
  BY <1>1 DEF Signatures
<1>4. Signs /\ \A i \in Row' : IsAccount(account'[i])
  BY <1>3 DEF Signatures, Signs, Row
<1> QED
  BY <1>1, <1>2, <1>4, SignerGoesOn DEF Signatures

LEMMA ScanSigns ==
  ASSUME Signatures, ScanDisables
  PROVE  Signatures' /\ Signs
<1> DEFINE new == [i \in {j \in Row : account[j].name \in scan} |-> WithoutQuota(account[i])]
<1>1. account' = Update(new) /\ UNCHANGED request
  BY DEF ScanDisables
<1>2. ASSUME NEW i \in DOMAIN new
      PROVE  i \in Row /\ IsAccount(new[i]) /\ (Matches(account[i]) => Matches(new[i]))
  <2>1. i \in Row /\ IsAccount(account[i]) /\ new[i] = WithoutQuota(account[i])
    BY DEF Signatures
  <2> HIDE DEF new
  <2> QED
    BY <2>1, QuotaIsTaken DEF Matches
<1> HIDE DEF new
<1> QED
  BY <1>1, <1>2, Updated DEF Signatures

LEMMA ExpirySigns ==
  ASSUME Signatures, NEW i \in Id, AccountExpires(i)
  PROVE  Signatures' /\ Signs
<1> DEFINE b == [account[i] EXCEPT !.state = "expired"]
<1>1. i \in Row /\ IsAccount(account[i])
  BY DEF AccountExpires, Signatures
<1>2. b = [account[i] EXCEPT !.state = "expired"]
  OBVIOUS
<1>3. account' = [account EXCEPT ![i] = b] /\ UNCHANGED request
  BY Zenon DEF AccountExpires
<1> HIDE DEF b
<1>4. IsAccount(b) /\ b.name = account[i].name /\ b.pass = account[i].pass
  BY <1>1, <1>2, StateIsSet
<1>5. account' = [j \in Id |-> account'[j]]
  BY ONLY <1>3, Signatures DEF Signatures
<1>6. \A j \in Id : account'[j] = IF j = i THEN b ELSE account[j]
  BY ONLY <1>3, Signatures DEF Signatures
<1>7. Signs /\ \A j \in Row' : IsAccount(account'[j])
  BY <1>1, <1>4, <1>6 DEF Signatures, Signs, Row, Matches
<1> QED
  BY <1>3, <1>5, <1>7 DEF Signatures

LEMMA SignersInit == AccountsInit => Signatures
<1> SUFFICES ASSUME AccountsInit PROVE Signatures
  OBVIOUS
<1>1. PICK first \in {None, With(CHOOSE n \in Name : TRUE, Usual, "valid")},
            fresh \in BOOLEAN :
        account = [i \in Id |->
          IF i # SmallestOf(Id) \/ first = None THEN None
          ELSE IF fresh
            THEN [first EXCEPT !.state = "expired", !.quota = FALSE, !.fresh = TRUE]
            ELSE first]
  BY DEF AccountsInit
<1> DEFINE s == [first EXCEPT !.state = "expired"]
           t == [s EXCEPT !.quota = FALSE]
           b == [t EXCEPT !.fresh = TRUE]
<1>2. s = [first EXCEPT !.state = "expired"]
  OBVIOUS
<1>3. t = [s EXCEPT !.quota = FALSE]
  OBVIOUS
<1>4. b = [t EXCEPT !.fresh = TRUE]
  OBVIOUS
<1>5. account = [i \in Id |-> IF i # SmallestOf(Id) \/ first = None THEN None
                              ELSE IF fresh THEN b ELSE first]
  BY <1>1, Zenon
<1> HIDE DEF s, t, b
<1>6. first = None \/ IsAccount(first)
  BY DEF With, IsAccount
<1>7. first = None \/ IsAccount(b)
  <2>1. first = None \/ IsAccount(s)
    BY <1>2, <1>6, StateIsSet
  <2>2. first = None \/ IsAccount(t)
    BY <1>3, <2>1, QuotaIsSet
  <2> QED
    BY <1>4, <2>2, FreshIsSet
<1>8. /\ account = [i \in Id |-> account[i]]
      /\ \A i \in Id : account[i] = None \/ (account[i] \in {b, first} /\ first # None)
  BY <1>5
<1>9. request = [q \in Request |-> None]
  BY DEF AccountsInit
<1> QED
  BY <1>6, <1>7, <1>8, <1>9 DEF Signatures, Row

LEMMA WorkSigns ==
  ASSUME Signatures, NEW q \in Request, Works(q)
  PROVE  Signatures' /\ Signs
<1>1. CASE ReadSetting(q)
  <2>1. request[q] # None /\ request[q].op = "register" /\ UNCHANGED account
    BY <1>1 DEF ReadSetting, At
  <2>2. CASE Ends(q) \/ \E pc : Proceeds(q, pc)
    BY <2>1, <2>2, SignerWaits
  <2>3. CASE request' = [request EXCEPT ![q].pc = "fill", ![q].flag = setting]
    <3> DEFINE s == [request[q] EXCEPT !.pc = "fill"]
               r == [s EXCEPT !.flag = setting]
    <3>1. s = [op |-> "register", pc |-> "fill", id |-> request[q].id,
               name |-> request[q].name, old |-> request[q].old,
               values |-> request[q].values, flag |-> request[q].flag]
      BY <2>1 DEF Signatures, IsRequest
    <3>2. request' = [request EXCEPT ![q] = r]
      BY <2>3, Zenon
    <3>3. r = [s EXCEPT !.flag = setting]
      OBVIOUS
    <3> HIDE DEF s, r
    <3>4. r = [op |-> "register", pc |-> "fill", id |-> request[q].id,
               name |-> request[q].name, old |-> request[q].old,
               values |-> request[q].values, flag |-> setting]
      BY ONLY <3>1, <3>3
    <3>5. IsRequest(r) /\ Signed(r)
      BY <2>1, <3>4 DEF IsRequest, Signatures, Signed
    <3> QED
      BY <2>1, <3>2, <3>5, SignerReads
  <2> QED
    BY <1>1, <2>2, <2>3 DEF ReadSetting
<1>2. CASE LoginReads(q)
  <2>1. request[q] # None /\ request[q].op = "login" /\ UNCHANGED account
    BY <1>2 DEF LoginReads, At
  <2>2. CASE Ends(q)
    BY <2>1, <2>2, SignerWaits
  <2>3. ASSUME NEW i, NEW flag,
               request' = [request EXCEPT ![q].pc = "lock", ![q].id = i, ![q].flag = flag]
        PROVE  Signatures' /\ Signs
    <3> DEFINE s == [request[q] EXCEPT !.pc = "lock"]
               t == [s EXCEPT !.id = i]
               r == [t EXCEPT !.flag = flag]
    <3>1. s = [op |-> "login", pc |-> "lock", id |-> request[q].id,
               name |-> request[q].name, old |-> request[q].old,
               values |-> request[q].values, flag |-> request[q].flag]
      BY <2>1 DEF Signatures, IsRequest
    <3>2. request' = [request EXCEPT ![q] = r]
      BY <2>3, Zenon
    <3>3. t = [s EXCEPT !.id = i] /\ r = [t EXCEPT !.flag = flag]
      OBVIOUS
    <3> HIDE DEF s, t, r
    <3>4. r = [op |-> "login", pc |-> "lock", id |-> i,
               name |-> request[q].name, old |-> request[q].old,
               values |-> request[q].values, flag |-> flag]
      BY ONLY <3>1, <3>3
    <3>5. IsRequest(r) /\ Signed(r)
      BY <3>4 DEF IsRequest, Signed
    <3> QED
      BY <2>1, <3>2, <3>5, SignerReads
  <2> QED
    BY <1>2, <2>2, <2>3 DEF LoginReads
<1>3. CASE \/ FillSetting(q) \/ CountAccountByUsername(q) \/ RsLock(q) \/ ReadById(q)
           \/ ReadByName(q) \/ ImportReads(q) \/ SystemWrites(q) \/ SystemDrops(q) \/ Fails(q)
  <2>1. request[q] # None /\ UNCHANGED account
    BY <1>3 DEF FillSetting, CountAccountByUsername, RsLock, ReadById, ReadByName,
                ImportReads, SystemWrites, SystemDrops, Fails, At
  <2>2. Ends(q) \/ \E pc : Proceeds(q, pc)
    BY <1>3 DEF FillSetting, CountAccountByUsername, RsLock, ReadById, ReadByName,
                ImportReads, SystemWrites, SystemDrops, Fails
  <2> QED
    BY <2>1, <2>2, SignerWaits
<1> QED
  BY <1>1, <1>2, <1>3, InsertSigns, DeletionSigns, PassSigns, RenameSigns, EditSigns,
     LoginSigns, ImportSigns, ClearSigns DEF Works

LEMMA AccountsSign ==
  ASSUME Signatures, [AccountsStep \/ AccountsCrash]_accountVars
  PROVE  Signatures' /\ Signs
<1>1. CASE UNCHANGED <<request, account>>
  BY <1>1, Unwritten DEF Signatures
<1>2. CASE AccountsCrash
  <2>1. request' = [q \in Request |-> None] /\ UNCHANGED account
    BY <1>2 DEF AccountsCrash
  <2> QED
    BY <2>1, Unwritten DEF Signatures
<1>3. CASE (\E l \in Locked : LockExpires(l)) \/ CacheExpires \/ ScanSelects \/ UNCHANGED accountVars
  BY <1>1, <1>3 DEF LockExpires, CacheExpires, ScanSelects, accountVars
<1> QED
  BY <1>2, <1>3, SignerBegins, WorkSigns, ExpirySigns, ScanSigns DEF AccountsStep

(***************************************************************************)
(* The panel's process.                                                    *)
(***************************************************************************)
LEMMA HostInit == Init => FilesKept /\ HistoryKept /\ CacheKept
  BY FilesInit, HistoryInit, CacheInit DEF Init

LEMMA HostKeeps ==
  ASSUME FilesKept, HistoryKept, CacheKept, [Next]_hostVars
  PROVE  FilesKept' /\ HistoryKept' /\ CacheKept'
<1>1. [TasksStep \/ TasksCrash]_taskVars
  BY DEF Next, Starts, Charges, Accounts, Files, Crash, hostVars
<1>2. [StartStep \/ StartCrash \/ AgentCharges]_startVars
  BY DEF Next, Starts, Charges, Accounts, Files, Crash, hostVars
<1>3. [AccountsStep \/ AccountsCrash]_accountVars
  BY DEF Next, Starts, Charges, Accounts, Files, Crash, hostVars
<1> QED
  BY <1>1, <1>2, <1>3, TasksKeep, HistoryKeeps, CacheKeeps

(* Whatever fails, expires, crosses or dies, a task that shows success has *)
(* its whole file, but for the two cases that DownloadsExist names.        *)
THEOREM SuccessCanBeDownloaded == FairSpec => []DownloadsExist
<1>1. FilesKept /\ HistoryKept /\ CacheKept => DownloadsExist
  BY FilesAreDownloads
<1> QED
  BY <1>1, HostInit, HostKeeps, PTL DEF FairSpec

(* Whatever start was interrupted, a panel that serves has copied the old  *)
(* history, unless a node's charge came first.                             *)
THEOREM ServingHasHistory == FairSpec => []HistoryComplete
<1>1. FilesKept /\ HistoryKept /\ CacheKept => HistoryComplete
  BY HistoryIsComplete
<1> QED
  BY <1>1, HostInit, HostKeeps, PTL DEF FairSpec

(* After an update of the settings no old copy is served, but one that a   *)
(* reader stored who crossed the update, or that an update failed to drop, *)
(* while that copy lasts.                                                  *)
THEOREM CacheFollowsTable == FairSpec => []CachedSettingIsCurrent
<1>1. FilesKept /\ HistoryKept /\ CacheKept => CachedSettingIsCurrent
  BY CacheIsCurrent
<1> QED
  BY <1>1, HostInit, HostKeeps, PTL DEF FairSpec

(* Whatever creations, renames, changes of password, edits, imports and    *)
(* logins cross, by whatever rows and names, a row's hash stays that of    *)
(* its own name, but for edits from a form that is older than a rename.    *)
THEOREM CredentialsStayTrue == FairSpec => CredentialsMatch
<1>1. Init => Signatures
  BY SignersInit DEF Init
<1>2. Signatures /\ [Next]_hostVars => Signatures' /\ Signs
  <2> SUFFICES ASSUME Signatures, [Next]_hostVars PROVE Signatures' /\ Signs
    OBVIOUS
  <2>1. [AccountsStep \/ AccountsCrash]_accountVars
    BY DEF Next, Starts, Charges, Accounts, Files, Crash, hostVars
  <2> QED
    BY <2>1, AccountsSign
<1>3. Signatures /\ [Next]_hostVars => [Signs]_accountVars
  BY <1>2
<1> QED
  BY <1>1, <1>2, <1>3, PTL DEF FairSpec, CredentialsMatch, Signs
=============================================================================
