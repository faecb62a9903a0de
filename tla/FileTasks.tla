------------------------------ MODULE FileTasks ------------------------------
(***************************************************************************)
(* The panel's file tasks: exports and imports of accounts and node        *)
(* servers.                                                                *)
(*                                                                         *)
(* A request inserts a row with the status "doing" and leaves the rest to  *)
(* a goroutine, which writes the file (exports, one at a time by a Redis   *)
(* lock) or reads it (imports), and then writes the status.  The name of   *)
(* the file has the time in seconds: two exports may share it.  A task is  *)
(* deleted under another lock: first its file, then its row.  Both locks   *)
(* are given back only on the way of success, and expire.                  *)
(***************************************************************************)
EXTENDS Naturals

CONSTANTS
  Task, Path,
  MaxTaskEvents   \* bound on requests, and on calls that fail

ASSUME TasksAssumption == MaxTaskEvents \in Nat /\ "none" \notin Path

VARIABLES
  task,      \* the table file_task
  job,       \* the goroutine that works for a task
  deletion,  \* the request that deletes a task
  saved,     \* the files of the export directory
  taskLock,  \* Redis: the tasks that hold the two locks
  removed,   \* tasks whose file a deletion has removed
  twice,     \* paths that two exports were given
  taskEvents

taskVars == <<task, job, deletion, saved, taskLock, removed, twice, taskEvents>>

Absent == [path |-> "none", status |-> "none"]
Idle == [pc |-> "none", path |-> "none"]

TasksInit ==
  /\ task = [t \in Task |-> Absent]
  /\ job = [t \in Task |-> Idle]
  /\ deletion = [t \in Task |-> "none"]
  /\ saved = [p \in Path |-> "absent"]
  /\ taskLock = [export |-> "free", remove |-> "free"]
  /\ removed = {} /\ twice = {}
  /\ taskEvents = 0

Exists(t) == task[t] # Absent
Event == taskEvents < MaxTaskEvents /\ taskEvents' = taskEvents + 1

-----------------------------------------------------------------------------
(* CreateFileTask with the status "doing", and the goroutine of the task.  *)
(* Ids are not given again: what an earlier task of the model value had    *)
(* running has ended.                                                      *)
Creates(t, path, pc) ==
  /\ ~Exists(t) /\ job[t] = Idle /\ deletion[t] = "none"
  /\ Event
  /\ task' = [task EXCEPT ![t] = [path |-> path, status |-> "doing"]]
  /\ job' = [job EXCEPT ![t] = [pc |-> pc, path |-> path]]
  /\ removed' = removed \ {t}
  /\ UNCHANGED <<deletion, saved, taskLock>>

(* ExportTaskJson *)
Export(t) ==
  \E p \in Path :
    /\ Creates(t, p, "lock")
    /\ twice' = IF \E u \in Task : p \in {task[u].path, job[u].path}
                  THEN twice \cup {p} ELSE twice

(* ImportAccount, ImportNodeServer: no file of the panel's own.            *)
ImportFile(t) == Creates(t, "none", "read") /\ UNCHANGED twice

Job(t, pcs) == job[t].pc \in pcs
JobGoes(t, pc) == job' = [job EXCEPT ![t].pc = pc]

(* RsLock; a goroutine that does not get the lock just ends.               *)
JobLocks(t) ==
  /\ Job(t, {"lock"})
  /\ \/ /\ taskLock.export = "free"
        /\ taskLock' = [taskLock EXCEPT !.export = t]
        /\ JobGoes(t, "create")
     \/ /\ taskLock.export # "free"
        /\ job' = [job EXCEPT ![t] = Idle]
        /\ UNCHANGED taskLock
  /\ UNCHANGED <<task, deletion, saved, removed, twice, taskEvents>>

(* ExportJson: os.Create truncates a file that exists.                     *)
JobCreates(t) ==
  /\ Job(t, {"create"})
  /\ saved' = [saved EXCEPT ![job[t].path] = "empty"]
  /\ JobGoes(t, "write")
  /\ UNCHANGED <<task, deletion, taskLock, removed, twice, taskEvents>>

(* The text goes to the file that was created, if it was removed since.    *)
JobWrites(t) ==
  /\ Job(t, {"write", "write unlinked"})
  /\ saved' = IF Job(t, {"write"}) THEN [saved EXCEPT ![job[t].path] = "full"] ELSE saved
  /\ JobGoes(t, "success")
  /\ UNCHANGED <<task, deletion, taskLock, removed, twice, taskEvents>>

(* Seeded fault: the error of ExportJson is logged, and forgotten.         *)
JobForgetsError(t) ==
  /\ Job(t, {"create", "write", "write unlinked"})
  /\ Event
  /\ JobGoes(t, "success")
  /\ UNCHANGED <<task, deletion, saved, taskLock, removed, twice>>

JobFails(t) ==
  /\ Job(t, {"create", "write", "write unlinked"})
  /\ Event
  /\ JobGoes(t, "fail")
  /\ UNCHANGED <<task, deletion, saved, taskLock, removed, twice>>

(* An import skips the items that fail; a text that is no list of rows is  *)
(* a failure.                                                              *)
JobReads(t) ==
  /\ Job(t, {"read"})
  /\ JobGoes(t, "success") \/ JobGoes(t, "fail")
  /\ UNCHANGED <<task, deletion, saved, taskLock, removed, twice, taskEvents>>

Unlock(kind, t) == [taskLock EXCEPT ![kind] = IF @ = t THEN "free" ELSE @]

(* UpdateFileTaskById, which may fail and is logged then; RsUnLock.        *)
JobEnds(t) ==
  /\ Job(t, {"success", "fail"})
  /\ \/ /\ task' = IF Exists(t) THEN [task EXCEPT ![t].status = job[t].pc] ELSE task
        /\ UNCHANGED taskEvents
     \/ Event /\ UNCHANGED task
  /\ job' = [job EXCEPT ![t] = Idle]
  /\ taskLock' = Unlock("export", t)
  /\ UNCHANGED <<deletion, saved, removed, twice>>

-----------------------------------------------------------------------------
(* DeleteFileTaskById; one request for a task at a time.                   *)
DeleteTask(t) ==
  /\ Exists(t) /\ deletion[t] = "none"
  /\ Event
  /\ deletion' = [deletion EXCEPT ![t] = "lock"]
  /\ UNCHANGED <<task, job, saved, taskLock, removed, twice>>

DeletionGoes(t, pc) == deletion' = [deletion EXCEPT ![t] = pc]

DeletionLocks(t) ==
  /\ deletion[t] = "lock"
  /\ \/ /\ taskLock.remove = "free"
        /\ taskLock' = [taskLock EXCEPT !.remove = t]
        /\ DeletionGoes(t, "file")
     \/ /\ taskLock.remove # "free"
        /\ DeletionGoes(t, "none")
        /\ UNCHANGED taskLock
  /\ UNCHANGED <<task, job, saved, removed, twice, taskEvents>>

(* os.Remove of the row's path.  Without a path or a file it is an error,  *)
(* and the request ends with its lock.                                     *)
DeletionRemovesFile(t) ==
  /\ deletion[t] = "file"
  /\ LET p == task[t].path
     IN  IF p \in Path /\ saved[p] # "absent"
           THEN /\ saved' = [saved EXCEPT ![p] = "absent"]
                /\ job' = [u \in Task |-> IF job[u] = [pc |-> "write", path |-> p]
                                            THEN [job[u] EXCEPT !.pc = "write unlinked"]
                                            ELSE job[u]]
                /\ removed' = removed \cup {t}
                /\ DeletionGoes(t, "row")
           ELSE DeletionGoes(t, "none") /\ UNCHANGED <<saved, job, removed>>
  /\ UNCHANGED <<task, taskLock, twice, taskEvents>>

(* dao.DeleteFileTaskById; when it fails the row and the lock stay.        *)
DeletionRemovesRow(t) ==
  /\ deletion[t] = "row"
  /\ \/ /\ task' = [task EXCEPT ![t] = Absent]
        /\ taskLock' = Unlock("remove", t)
        /\ UNCHANGED taskEvents
     \/ Event /\ UNCHANGED <<task, taskLock>>
  /\ DeletionGoes(t, "none")
  /\ UNCHANGED <<job, saved, removed, twice>>

-----------------------------------------------------------------------------
(* redsync's locks end after eight seconds.                                *)
TaskLockExpires(kind) ==
  /\ taskLock[kind] # "free"
  /\ taskLock' = [taskLock EXCEPT ![kind] = "free"]
  /\ UNCHANGED <<task, job, deletion, saved, removed, twice, taskEvents>>

TasksStep ==
  \/ \E t \in Task :
       \/ Export(t) \/ ImportFile(t) \/ DeleteTask(t)
       \/ JobLocks(t) \/ JobCreates(t) \/ JobWrites(t) \/ JobFails(t)
       \/ JobReads(t) \/ JobEnds(t)
       \/ DeletionLocks(t) \/ DeletionRemovesFile(t) \/ DeletionRemovesRow(t)
  \/ \E kind \in {"export", "remove"} : TaskLockExpires(kind)

(* The process dies with its goroutines and requests; nothing looks for    *)
(* the tasks that stay "doing".                                            *)
TasksCrash ==
  /\ job' = [t \in Task |-> Idle]
  /\ deletion' = [t \in Task |-> "none"]
  /\ UNCHANGED <<task, saved, taskLock, removed, twice, taskEvents>>

-----------------------------------------------------------------------------
(* An export that is shown as a success can be downloaded as a whole,      *)
(* through failed writes, crashes, locks that expire under their holders   *)
(* and deletions that cross it; except when the deletion of its row failed *)
(* after that of its file, or when two exports of one second share it.     *)
DownloadsExist ==
  \A t \in Task :
    task[t].status = "success" /\ task[t].path \in Path =>
      saved[task[t].path] = "full" \/ t \in removed \/ task[t].path \in twice
=============================================================================
