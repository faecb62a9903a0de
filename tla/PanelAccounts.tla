---------------------------- MODULE PanelAccounts ----------------------------
(***************************************************************************)
(* The panel's account rows and the requests and jobs that change them.    *)
(*                                                                         *)
(* A request is a series of statements without a transaction.  Names are   *)
(* not unique in the table: they are counted before an insertion.  Some    *)
(* operations take a Redis lock, each one its own, and give it back only   *)
(* when they succeed; otherwise it expires.  The credential of a row is a  *)
(* hash of the name and the password.  Every minute a scan takes the quota *)
(* of the accounts that are disabled or expired, by name.  Registration    *)
(* obeys a setting that is read through a cache in Redis.                  *)
(***************************************************************************)
EXTENDS Naturals, FiniteSets

CONSTANTS
  Id,           \* rows of the table
  Name, Password,
  Request,      \* requests that are served at a time
  None,
  MaxEvents     \* bound on requests, and on statements and calls that fail

ASSUME AccountsAssumption == Id \subseteq Nat /\ MaxEvents \in Nat

(* None is told apart from a request, one that updates the settings here.  *)
ASSUME NoneAssumption ==
  None \notin [op : {"system"}, pc : {"drop"}, id : {None}, name : {None},
               old : {None}, values : {None}, flag : BOOLEAN]

VARIABLES
  account,   \* the table
  request,   \* what each request is about to do
  lock,      \* Redis: the request that took it, by operation
  scan,      \* names that the scan has selected
  setting,   \* registerEnable, in the table system
  cache,     \* its copy under the key trojan-panel:system
  crossed,   \* readers that hold the setting from before an update
  outdated,  \* the copy is from such a reader, or an update failed to drop it
  events

settings == <<setting, cache, crossed, outdated>>
accountVars == <<account, request, lock, scan, settings, events>>

Credential == Name \X Password   \* sha1(name + password)

(* quota: any other than 0.  disabled: deleted = 1, whatever expire_time.  *)
(* fresh: made by a batch, with presets, and not logged in yet.            *)
Account ==
  [name : Name, pass : Credential, quota : BOOLEAN,
   state : {"valid", "expired", "disabled"}, fresh : BOOLEAN]

With(n, p, state) ==
  [name |-> n, pass |-> <<n, p>>, quota |-> TRUE, state |-> state, fresh |-> FALSE]

(* The password that most inputs have; another one comes with a change.    *)
Usual == CHOOSE p \in Password : TRUE

Locked == {"delete", "pass", "rename", "edit"}
LockOf(op) == IF op = "login" THEN "edit" ELSE op

Row == {i \in Id : account[i] # None}
Named(n) == {i \in Row : account[i].name = n}
SmallestOf(S) == CHOOSE i \in S : \A j \in S : i <= j
Free == {i \in Id : account[i] = None}

(* The rows of users: none, an ordinary one, or one of a batch.  The       *)
(* system administrator's, which is never disabled or deleted, is left out.*)
AccountsInit ==
  /\ \E first \in {None, With(CHOOSE n \in Name : TRUE, Usual, "valid")} :
       \E fresh \in BOOLEAN :
         account = [i \in Id |->
           IF i # SmallestOf(Id) \/ first = None THEN None
           ELSE IF fresh
             THEN [first EXCEPT !.state = "expired", !.quota = FALSE, !.fresh = TRUE]
             ELSE first]
  /\ request = [q \in Request |-> None]
  /\ lock = [l \in Locked |-> None]
  /\ scan = {}
  /\ setting \in BOOLEAN /\ cache = None
  /\ crossed = {} /\ outdated = FALSE
  /\ events = 0

-----------------------------------------------------------------------------
(* A request: its operation, its next statement, the row and the name it   *)
(* works on, the credential it was given, the values it brings, and what   *)
(* it has been told or has read.                                           *)
Asks(q, op, pc, id, name, old, values, flag) ==
  /\ request[q] = None
  /\ events < MaxEvents
  /\ events' = events + 1
  /\ request' = [request EXCEPT ![q] =
       [op |-> op, pc |-> pc, id |-> id, name |-> name, old |-> old,
        values |-> values, flag |-> flag]]
  /\ UNCHANGED <<account, lock, scan, settings>>

CreateAccount(q) ==
  \E n \in Name, state \in {"valid", "disabled"} :
    Asks(q, "create", "count", None, n, None, With(n, Usual, state), FALSE)

Register(q) ==
  \E n \in Name :
    Asks(q, "register", "setting", None, n, None, With(n, Usual, "valid"), FALSE)

(* CreateAccountBatch: names are random; a row without expire_time and     *)
(* quota until its first login.                                            *)
CreateAccountBatch(q) ==
  \E n \in {m \in Name : Named(m) = {}} :
    Asks(q, "batch", "insert", None, n, None,
         [With(n, Usual, "expired") EXCEPT !.quota = FALSE, !.fresh = TRUE], FALSE)

(* The page sends an id it has listed.                                     *)
DeleteAccountById(q) ==
  \E i \in Row : Asks(q, "delete", "lock", i, account[i].name, None, None, FALSE)

(* A user knows the password of its account and is known by the name in    *)
(* its token.                                                              *)
UpdateAccountPass(q) ==
  \E i \in Row, p \in Password :
    LET n == account[i].name IN
      Asks(q, "pass", "lock", None, n, account[i].pass, With(n, p, "valid"), FALSE)

UpdateAccountProperty(q) ==
  \E i \in Row, n \in Name :
    Asks(q, "rename", "count", None, account[i].name, account[i].pass,
         With(n, account[i].pass[2], "valid"), FALSE)

(* The form holds the row as it was when the page was opened; the          *)
(* administrator changes what is in it, except the name, and may give a    *)
(* password.                                                               *)
UpdateAccountById(q) ==
  \E i \in Row, given \in BOOLEAN, state \in {"valid", "expired", "disabled"} :
    Asks(q, "edit", "lock", i, account[i].name, None,
         With(account[i].name, Usual, state), given)

Login(q) ==
  \E i \in Row : Asks(q, "login", "read", None, account[i].name, account[i].pass, None, FALSE)

(* One item of the file of ImportAccount, with cover or without.           *)
ImportAccount(q) ==
  \E n \in Name, state \in {"valid", "expired"}, cover \in BOOLEAN :
    Asks(q, "import", "read", None, n, None, With(n, Usual, state), cover)

UpdateSystemById(q) ==
  Asks(q, "system", "write", None, None, None, None, ~setting)

Begins(q) ==
  \/ CreateAccount(q) \/ Register(q) \/ CreateAccountBatch(q) \/ DeleteAccountById(q)
  \/ UpdateAccountPass(q) \/ UpdateAccountProperty(q) \/ UpdateAccountById(q)
  \/ Login(q) \/ ImportAccount(q) \/ UpdateSystemById(q)

-----------------------------------------------------------------------------
At(q, pc, ops) == request[q] # None /\ request[q].pc = pc /\ request[q].op \in ops

Proceeds(q, pc) == request' = [request EXCEPT ![q].pc = pc]
Ends(q) == request' = [request EXCEPT ![q] = None]

(* RsUnLock deletes the key only if it still holds this request's value.   *)
Unlocks(q) ==
  lock' = [l \in Locked |-> IF l = LockOf(request[q].op) /\ lock[l] = q THEN None ELSE lock[l]]

(* SelectSystemByName: the cached copy, or the row, which is then cached.  *)
ReadSetting(q) ==
  /\ At(q, "setting", {"register"})
  /\ \/ cache = TRUE /\ Proceeds(q, "count")
     \/ cache = FALSE /\ Ends(q)
     \/ /\ cache = None
        /\ request' = [request EXCEPT ![q].pc = "fill", ![q].flag = setting]
  /\ UNCHANGED <<account, lock, scan, settings, events>>

FillSetting(q) ==
  /\ At(q, "fill", {"register"})
  /\ cache' = request[q].flag
  /\ crossed' = crossed \ {q} /\ outdated' = (q \in crossed)
  /\ IF request[q].flag THEN Proceeds(q, "count") ELSE Ends(q)
  /\ UNCHANGED <<account, lock, scan, setting, events>>

CountAccountByUsername(q) ==
  /\ At(q, "count", {"create", "register", "rename"})
  /\ LET next == IF request[q].op = "rename" THEN "lock" ELSE "insert"
     IN  IF Named(request[q].values.name) = {} THEN Proceeds(q, next) ELSE Ends(q)
  /\ UNCHANGED <<account, lock, scan, settings, events>>

(* CreateAccount then takes the quota of a disabled or expired account.    *)
Insert(q) ==
  /\ At(q, "insert", {"create", "register", "batch", "import"})
  /\ Free # {}
  /\ account' = [account EXCEPT ![SmallestOf(Free)] = request[q].values]
  /\ IF request[q].op = "create" /\ request[q].values.state # "valid"
       THEN Proceeds(q, "clear") ELSE Ends(q)
  /\ UNCHANGED <<lock, scan, settings, events>>

(* The lock, or an error when it stays busy.                               *)
RsLock(q) ==
  /\ At(q, "lock", Locked \cup {"login"})
  /\ LET l == LockOf(request[q].op)
         reads == request[q].op \in {"delete", "pass", "rename"}
                  \/ (request[q].op = "edit" /\ request[q].flag)
     IN  \/ /\ lock[l] = None
            /\ lock' = [lock EXCEPT ![l] = q]
            /\ Proceeds(q, IF reads THEN "read" ELSE "write")
         \/ lock[l] # None /\ Ends(q) /\ UNCHANGED lock
  /\ UNCHANGED <<account, scan, settings, events>>

(* SelectConnectPassword by id, for the nodes to be told; a row that is    *)
(* gone ends the request.                                                  *)
ReadById(q) ==
  /\ At(q, "read", {"delete", "edit"})
  /\ IF request[q].id \in Row THEN Proceeds(q, "write") ELSE Ends(q)
  /\ UNCHANGED <<account, lock, scan, settings, events>>

(* SelectAccountByUsername gives one row of the name, and its credential   *)
(* is compared with the one that name and password make.                   *)
ReadByName(q) ==
  /\ At(q, "read", {"pass", "rename"})
  /\ \/ \E i \in Named(request[q].name) :
          IF account[i].pass = request[q].old THEN Proceeds(q, "write") ELSE Ends(q)
     \/ Named(request[q].name) = {} /\ Ends(q)
  /\ UNCHANGED <<account, lock, scan, settings, events>>

LoginReads(q) ==
  /\ At(q, "read", {"login"})
  /\ \/ \E i \in Named(request[q].name) :
          IF account[i].pass = request[q].old /\ account[i].state # "disabled"
            THEN request' = [request EXCEPT ![q].pc = "lock", ![q].id = i,
                                            ![q].flag = account[i].fresh]
            ELSE Ends(q)
     \/ Named(request[q].name) = {} /\ Ends(q)
  /\ UNCHANGED <<account, lock, scan, settings, events>>

(* CreateOrUpdateAccount                                                   *)
ImportReads(q) ==
  /\ At(q, "read", {"import"})
  /\ IF Named(request[q].name) = {} THEN Proceeds(q, "insert")
     ELSE IF request[q].flag THEN Proceeds(q, "write") ELSE Ends(q)
  /\ UNCHANGED <<account, lock, scan, settings, events>>

-----------------------------------------------------------------------------
(* The table with the rows of the function new in place of its own.        *)
Update(new) == [i \in Id |-> IF i \in DOMAIN new THEN new[i] ELSE account[i]]

DeleteWrites(q) ==
  /\ At(q, "write", {"delete"})
  /\ account' = [account EXCEPT ![request[q].id] = None]
  /\ Ends(q) /\ Unlocks(q)
  /\ UNCHANGED <<scan, settings, events>>

(* UPDATE ... WHERE username: every row that has the name by now.          *)
PassWrites(q) ==
  /\ At(q, "write", {"pass"})
  /\ account' = Update([i \in Named(request[q].name) |->
                        [account[i] EXCEPT !.pass = request[q].values.pass]])
  /\ Ends(q) /\ Unlocks(q)
  /\ UNCHANGED <<scan, settings, events>>

(* Seeded fault: the credential is left as it was.                         *)
RenameKeepsPass(q) ==
  /\ At(q, "write", {"rename"})
  /\ account' = Update([i \in Named(request[q].name) |->
                        [account[i] EXCEPT !.name = request[q].values.name]])
  /\ Ends(q) /\ Unlocks(q)
  /\ UNCHANGED <<scan, settings, events>>

RenameWrites(q) ==
  /\ At(q, "write", {"rename"})
  /\ account' = Update([i \in Named(request[q].name) |->
       [account[i] EXCEPT !.name = request[q].values.name, !.pass = request[q].values.pass]])
  /\ Ends(q) /\ Unlocks(q)
  /\ UNCHANGED <<scan, settings, events>>

(* UPDATE ... WHERE id; nothing is updated when the row is gone.  A        *)
(* disabled or expired account then loses its quota by the form's name.    *)
EditWrites(q) ==
  /\ At(q, "write", {"edit"})
  /\ LET v == request[q].values
     IN  /\ account' = Update([i \in {request[q].id} \cap Row |->
              [account[i] EXCEPT !.pass = IF request[q].flag THEN v.pass ELSE @,
                                 !.quota = v.quota, !.state = v.state]])
         /\ IF v.state # "valid"
              THEN Proceeds(q, "clear") /\ UNCHANGED lock
              ELSE Ends(q) /\ Unlocks(q)
  /\ UNCHANGED <<scan, settings, events>>

(* The time of the login, and for the first one the preset quota and days. *)
LoginWrites(q) ==
  /\ At(q, "write", {"login"})
  /\ LET first == request[q].flag
     IN  account' = Update([i \in {request[q].id} \cap Row |->
           [account[i] EXCEPT !.fresh = FALSE, !.quota = @ \/ first,
                              !.state = IF first /\ @ = "expired" THEN "valid" ELSE @]])
  /\ Ends(q) /\ Unlocks(q)
  /\ UNCHANGED <<scan, settings, events>>

ImportWrites(q) ==
  /\ At(q, "write", {"import"})
  /\ LET v == request[q].values
     IN  account' = Update([i \in Named(request[q].name) |->
           [account[i] EXCEPT !.pass = v.pass, !.quota = v.quota, !.state = v.state]])
  /\ Ends(q)
  /\ UNCHANGED <<lock, scan, settings, events>>

WithoutQuota(a) == [a EXCEPT !.quota = FALSE]

(* PullAccountWhiteOrBlackByUsername, DisableAccount: by name.             *)
Clears(q) ==
  /\ At(q, "clear", {"create", "edit"})
  /\ account' = Update([i \in Named(request[q].name) |->
       [WithoutQuota(account[i]) EXCEPT
          !.state = IF request[q].values.state = "disabled" THEN "disabled" ELSE @]])
  /\ Ends(q)
  /\ IF request[q].op = "edit" THEN Unlocks(q) ELSE UNCHANGED lock
  /\ UNCHANGED <<scan, settings, events>>

(* The copy in Redis goes, and a mark on it with it.                       *)
NoCopy == cache' = None /\ outdated' = FALSE

(* UpdateSystemById                                                        *)
SystemWrites(q) ==
  /\ At(q, "write", {"system"})
  /\ setting' = request[q].flag
  /\ crossed' = crossed \cup {r \in Request : At(r, "fill", {"register"})}
  /\ Proceeds(q, "drop")
  /\ UNCHANGED <<account, lock, scan, cache, outdated, events>>

(* Seeded fault: the cached copy stays until it expires.                   *)
SystemKeepsCopy(q) ==
  /\ At(q, "drop", {"system"})
  /\ Ends(q)
  /\ UNCHANGED <<account, lock, scan, settings, events>>

SystemDrops(q) ==
  /\ At(q, "drop", {"system"})
  /\ NoCopy
  /\ Ends(q)
  /\ UNCHANGED <<account, lock, scan, setting, crossed, events>>

(* A statement, or a call of Redis, fails: the request returns and leaves  *)
(* its lock.                                                               *)
Fails(q) ==
  /\ request[q] # None
  /\ events < MaxEvents
  /\ events' = events + 1
  /\ Ends(q)
  /\ crossed' = crossed \ {q}
  /\ outdated' = (outdated \/ (At(q, "drop", {"system"}) /\ cache # None))
  /\ UNCHANGED <<account, lock, scan, setting, cache>>

Works(q) ==
  \/ ReadSetting(q) \/ FillSetting(q) \/ CountAccountByUsername(q) \/ Insert(q)
  \/ RsLock(q) \/ ReadById(q) \/ ReadByName(q) \/ LoginReads(q) \/ ImportReads(q)
  \/ DeleteWrites(q) \/ PassWrites(q) \/ RenameWrites(q) \/ EditWrites(q)
  \/ LoginWrites(q) \/ ImportWrites(q) \/ Clears(q)
  \/ SystemWrites(q) \/ SystemDrops(q) \/ Fails(q)

-----------------------------------------------------------------------------
(* redsync's locks end after eight seconds, the cached settings after      *)
(* thirty minutes, an account at its expire_time.                          *)
LockExpires(l) ==
  /\ lock[l] # None
  /\ lock' = [lock EXCEPT ![l] = None]
  /\ UNCHANGED <<account, request, scan, settings, events>>

CacheExpires ==
  /\ cache # None
  /\ NoCopy
  /\ UNCHANGED <<account, request, lock, scan, setting, crossed, events>>

AccountExpires(i) ==
  /\ i \in Row /\ account[i].state = "valid"
  /\ account' = [account EXCEPT ![i].state = "expired"]
  /\ UNCHANGED <<request, lock, scan, settings, events>>

(* Seeded fault: an account that has expired without being disabled is not *)
(* selected.                                                               *)
InvalidDisabled == {i \in Row : account[i].quota /\ account[i].state = "disabled"}

(* SelectAccountUsernameByDeletedOrExpireTime                              *)
Invalid == {i \in Row : account[i].quota /\ account[i].state # "valid"}

(* CronScanAccounts: the names, and an update of whoever has them then.    *)
ScanSelects ==
  /\ scan = {} /\ Invalid # {}
  /\ scan' = {account[i].name : i \in Invalid}
  /\ UNCHANGED <<account, request, lock, settings, events>>

ScanDisables ==
  /\ scan # {}
  /\ account' = Update([i \in {j \in Row : account[j].name \in scan} |-> WithoutQuota(account[i])])
  /\ scan' = {}
  /\ UNCHANGED <<request, lock, settings, events>>

AccountsStep ==
  \/ \E q \in Request : Begins(q) \/ Works(q)
  \/ \E l \in Locked : LockExpires(l)
  \/ CacheExpires
  \/ \E i \in Id : AccountExpires(i)
  \/ ScanSelects \/ ScanDisables

(* The process dies with its requests and its scan; Redis stays.           *)
AccountsCrash ==
  /\ request' = [q \in Request |-> None]
  /\ scan' = {}
  /\ crossed' = {}
  /\ outdated' = (outdated \/ (cache # None /\ \E q \in Request : At(q, "drop", {"system"})))
  /\ UNCHANGED <<account, lock, setting, cache, events>>

-----------------------------------------------------------------------------
Overdue(i) == i \in Row /\ account[i].quota /\ account[i].state # "valid"

(* Whatever a login, a rename, an edit from an old form or a failed second *)
(* statement leaves, an account that is disabled or expired does not keep  *)
(* quota: the nodes, which look at nothing else, stop serving it.          *)
QuotaSettles == \A i \in Id : Overdue(i) ~> ~Overdue(i)

StaleEdit(i) ==
  \E q \in Request : /\ At(q, "write", {"edit"})
                     /\ request[q].id = i /\ request[q].flag
                     /\ i \in Row /\ account[i].name # request[q].name

Matches(a) == a.pass[1] = a.name

(* Names and passwords change in several requests at a time, by id and by  *)
(* name; still the hash of a row is that of its own name, or its owner can *)
(* not log in, and no node knows.  Only an edit from a form that was       *)
(* opened before a rename breaks this.                                     *)
CredentialsMatch ==
  [][\A i \in Id :
       account[i]' # None /\ ~Matches(account[i]') =>
         (i \in Row /\ ~Matches(account[i])) \/ StaleEdit(i)]_accountVars

(* The cached setting is the one in the table as soon as an update has     *)
(* ended.  Only a copy that a reader stored who had read before an update, *)
(* or that an update could not drop, is old, and no longer than that copy  *)
(* lasts: whoever reads the table next stores the new setting.             *)
CachedSettingIsCurrent ==
  cache # None /\ cache # setting =>
    outdated \/ \E q \in Request : At(q, "drop", {"system"})
=============================================================================
