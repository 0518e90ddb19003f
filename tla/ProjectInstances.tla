-------------------------- MODULE ProjectInstances --------------------------
(***************************************************************************)
(* Application processes that open, close, delete and maintain project     *)
(* directories, and the lock file that keeps one process to a directory.   *)
(* A process has a manager, whose operations its mutex serializes, and     *)
(* serves close requests of other processes; a close request reclaims the  *)
(* lock of a dead owner.  Sources: internal/project, httpapi/projects.go,  *)
(* httpapi/instance_control.go, Create and Open of storage/sqlite.         *)
(***************************************************************************)
EXTENDS Naturals, Sequences, FiniteSets, SequencesExt

CONSTANTS
    Procs,      \* processes, each with a PID of its own
    Dirs,       \* project directories
    Requests,   \* close-other-instance requests that may be under way at once
    NoDir,      \* no active project
    NoProc,     \* no lock file
    MaxIds,     \* bound: project identities ever made
    MaxCrashes, \* bound: processes that die
    RecentCap,  \* entries the recent list keeps
    Loads       \* which operations, besides open and close, and which close
                \* requests come together in a behaviour; whether the system
                \* renames a file that a process holds open: Windows does not

ProjectInstancesAssumption ==
    /\ MaxIds \in Nat /\ MaxCrashes \in Nat /\ RecentCap \in Nat \ {0}
    /\ NoDir \notin Dirs /\ NoProc \notin Procs
    /\ Loads \subseteq [kinds : SUBSET {"create", "delete", "maintain", "adopt", "jobs"},
                        requests : SUBSET Requests, renames : BOOLEAN]

VARIABLES
    lock,     \* .eco-guardian.lock of each directory: its creator, whether the
              \* owner record is written, whether the creator has the file open
    db,       \* project.db of each directory
    recent,   \* recent-projects.json
    proc,     \* the processes
    req,      \* the close requests
    made,     \* identities handed out
    load      \* the operations, requests and system of the behaviour

state == <<lock, db, recent, proc, req, made>>
vars == <<lock, db, recent, proc, req, made, load>>

-----------------------------------------------------------------------------
NoLock == [by |-> NoProc, full |-> FALSE, open |-> FALSE]

NoDb == [id |-> 0, ver |-> "current", saved |-> FALSE]

Off == [life |-> "off", pc |-> "idle", op |-> "none", dir |-> NoDir, act |-> NoDir,
        id |-> 0, handle |-> FALSE, maint |-> "none", list |-> <<>>, jobs |-> FALSE]

NoRequest == [pc |-> "idle", by |-> NoProc, dir |-> NoDir, id |-> 0, owner |-> NoProc]

(* Projects made by an older and by the current release; one of a newer     *)
(* release is refused at Open.                                              *)
Init ==
    /\ lock = [d \in Dirs |-> NoLock]
    /\ db \in [Dirs -> {[id |-> 1, ver |-> v, saved |-> FALSE] : v \in {"old", "current", "newer"}}]
    /\ recent = <<1>>
    /\ proc = [p \in Procs |-> Off]
    /\ req = [r \in Requests |-> NoRequest]
    /\ made = 1
    /\ load \in Loads

Alive(p) == p \in Procs /\ proc[p].life \in {"up", "leaving"}

Step(p, from) == Alive(p) /\ proc[p].pc = from

Goto(p, to) == proc' = [proc EXCEPT ![p].pc = to]

(* A process whose manager has no active project. *)
Vacant(rec) == [Off EXCEPT !.life = rec.life]

Crashes == Cardinality({p \in Procs : proc[p].life = "dead"})

Ended == {p \in Procs : proc[p].life \in {"dead", "gone"}}

-----------------------------------------------------------------------------
(* Processes *)

Start(p) ==
    /\ proc[p].life = "off"
    /\ proc' = [proc EXCEPT ![p].life = "up"]
    /\ UNCHANGED <<lock, db, recent, req, made>>

(* The end of a process leaves the files; its requests end with it. *)
Exit(p, how) ==
    /\ proc' = [proc EXCEPT ![p] = [Off EXCEPT !.life = how]]
    /\ req' = [r \in Requests |-> IF req[r].by = p THEN NoRequest ELSE req[r]]
    /\ UNCHANGED <<lock, db, recent, made>>

Crash(p) ==
    /\ Alive(p) /\ Crashes < MaxCrashes
    /\ Exit(p, "dead")

-----------------------------------------------------------------------------
(* Opening and creating: Manager.install *)

(* The token of a selected or a recent directory was consumed. *)
Install(p) ==
    /\ Step(p, "idle") /\ proc[p].act = NoDir /\ proc[p].maint = "none"
    /\ \E d \in Dirs, op \in {"open"} \cup (load.kinds \cap {"create"}) :
         proc' = [proc EXCEPT ![p].pc = "acquire", ![p].op = op, ![p].dir = d]
    /\ UNCHANGED <<lock, db, recent, req, made>>

(* O_EXCL creates the lock file, or another process has it and the manager *)
(* is left as it was.                                                      *)
Acquire(p) ==
    /\ Step(p, "acquire")
    /\ LET d == proc[p].dir IN
       \/ /\ lock[d] = NoLock
          /\ lock' = [lock EXCEPT ![d] = [by |-> p, full |-> FALSE, open |-> TRUE]]
          /\ Goto(p, "own")
       \/ /\ lock[d] # NoLock
          /\ proc' = [proc EXCEPT ![p].pc = "idle", ![p].op = "none", ![p].dir = proc[p].act]
          /\ UNCHANGED lock
    /\ UNCHANGED <<db, recent, req, made>>

(* The owner record is written into the file that was created, or the file  *)
(* is given back at once.                                                   *)
WriteOwner(p) ==
    /\ Step(p, "own")
    /\ \/ /\ lock' = [lock EXCEPT ![proc[p].dir].full = (lock[proc[p].dir].by = p)]
          /\ Goto(p, IF proc[p].op = "delete" THEN "remove" ELSE "factory")
       \/ Goto(p, "free") /\ UNCHANGED lock
    /\ UNCHANGED <<db, recent, req, made>>

(* Removing the path of a lock file, whatever is there by now. *)
RemoveLock(d) == lock' = [lock EXCEPT ![d] = NoLock]

(* Its creator lives and has the file open, which makes Windows refuse to   *)
(* rename or to remove it (FileLocker.Acquire).                             *)
HeldOpen(d) == Alive(lock[d].by) /\ lock[d].open

(* fileLock.Release, in two steps: the file is closed, then its path goes.  *)
CloseLock(p) ==
    /\ Step(p, "free")
    /\ lock' = [lock EXCEPT ![proc[p].dir].open = FALSE]
    /\ Goto(p, "unlink")
    /\ UNCHANGED <<db, recent, req, made>>

(* The manager forgets the project, or keeps one it can no longer use:      *)
(* install ignores a failing Release, Close and a session return it.        *)
Forgets(m, failed) == m.op \in {"open", "create"} \/ (m.op # "delete" /\ ~failed)

Released(p, failed) ==
    proc' = [proc EXCEPT ![p] =
        IF Forgets(proc[p], failed)
        THEN [Vacant(proc[p]) EXCEPT !.life = IF proc[p].op = "serve" THEN "leaving" ELSE @]
        ELSE [proc[p] EXCEPT !.pc = "idle", !.op = "none", !.dir = proc[p].act]]

(* The answer to the request that asked for the close. *)
Answered(p, failed) ==
    req' = [r \in Requests |->
        IF req[r].pc # "closing" \/ req[r].owner # p THEN req[r]
        ELSE IF failed THEN NoRequest ELSE [req[r] EXCEPT !.pc = "wait"]]

(* Closing or removing may fail; the path can be gone, or another's.        *)
Unlink(p) ==
    /\ Step(p, "unlink")
    /\ \E failed \in BOOLEAN :
         /\ \/ /\ lock[proc[p].dir] # NoLock /\ (load.renames \/ ~HeldOpen(proc[p].dir))
               /\ RemoveLock(proc[p].dir)
            \/ failed /\ UNCHANGED lock
         /\ Released(p, failed) /\ Answered(p, failed)
    /\ UNCHANGED <<db, recent, made>>

(* SQLiteFactory.Create: there must be no database yet. *)
FactoryCreate(p) ==
    /\ Step(p, "factory") /\ proc[p].op = "create"
    /\ db[proc[p].dir].id = 0 /\ made < MaxIds
    /\ made' = made + 1
    /\ db' = [db EXCEPT ![proc[p].dir] = [id |-> made + 1, ver |-> "current", saved |-> FALSE]]
    /\ proc' = [proc EXCEPT ![p].pc = "list", ![p].act = proc[p].dir,
                            ![p].id = made + 1, ![p].handle = TRUE]
    /\ UNCHANGED <<lock, recent, req>>

(* The backup of a populated project, whose evidence must be valid.         *)
MigrationBackup(record) == [record EXCEPT !.saved = TRUE]

(* Every step from the stored version on. *)
MigrationSteps(record) == [record EXCEPT !.ver = "current"]

(* An older project is upgraded in one transaction, after its backup.       *)
UpgradeToCurrent(record) ==
    IF record.ver = "old" THEN MigrationSteps(MigrationBackup(record)) ELSE record

(* Each step has its checksum recorded; a newer schema was refused before.  *)
VerifyMigrationSteps(record) == record.ver = "current"

FactoryOpen(p) ==
    /\ Step(p, "factory") /\ proc[p].op = "open"
    /\ db[proc[p].dir].id # 0
    /\ VerifyMigrationSteps(UpgradeToCurrent(db[proc[p].dir]))
    /\ db' = [db EXCEPT ![proc[p].dir] = UpgradeToCurrent(@)]
    /\ proc' = [proc EXCEPT ![p].pc = "list", ![p].act = proc[p].dir,
                            ![p].id = db[proc[p].dir].id, ![p].handle = TRUE]
    /\ UNCHANGED <<lock, recent, req, made>>

(* No database, an unsupported one, one that exists already, a refused      *)
(* migration backup: the lock is released.                                  *)
FactoryFails(p) ==
    /\ Step(p, "factory")
    /\ \/ proc[p].op = "open" /\ (db[proc[p].dir].id = 0 \/ db[proc[p].dir].ver # "current")
       \/ proc[p].op = "create" /\ db[proc[p].dir].id # 0
    /\ Goto(p, "free")
    /\ UNCHANGED <<lock, db, recent, req, made>>

(* The recent list is read, changed and written without a lock. *)
Listed(p) ==
    /\ Step(p, "list")
    /\ proc' = [proc EXCEPT ![p].pc = "record", ![p].list = recent]
    /\ UNCHANGED <<lock, db, recent, req, made>>

FirstEntries(s) == SubSeq(s, 1, IF Len(s) < RecentCap THEN Len(s) ELSE RecentCap)

Record(p) ==
    /\ Step(p, "record")
    /\ recent' = FirstEntries(<<proc[p].id>> \o
                   SelectSeq(proc[p].list, LAMBDA i : i # proc[p].id))
    /\ proc' = [proc EXCEPT ![p].pc = "idle", ![p].op = "none", ![p].list = <<>>]
    /\ UNCHANGED <<lock, db, req, made>>

(* The list cannot be written: handle and lock are given back. *)
RecordFails(p) ==
    /\ Step(p, "record")
    /\ proc' = [proc EXCEPT ![p] = [Vacant(@) EXCEPT !.pc = "free", !.op = proc[p].op,
                                                    !.dir = proc[p].dir]]
    /\ UNCHANGED <<lock, db, recent, req, made>>

-----------------------------------------------------------------------------
(* Closing *)

(* A Job that blocks the close comes and goes. *)
Work(p) ==
    /\ "jobs" \in load.kinds /\ Step(p, "idle") /\ proc[p].handle
    /\ proc' = [proc EXCEPT ![p].jobs = ~@]
    /\ UNCHANGED <<lock, db, recent, req, made>>

(* Nothing blocks the close.  The Jobs are read from the store, so nothing  *)
(* passes once that is closed.                                              *)
Preflight(p) == proc[p].handle /\ ~proc[p].jobs

CanClose(p) == proc[p].act # NoDir /\ proc[p].maint = "none" /\ Preflight(p)

(* Manager.Close up to the closed handle; the lock is given back next. *)
CloseHandle(p, op) ==
    /\ CanClose(p)
    /\ proc' = [proc EXCEPT ![p].pc = "free", ![p].op = op, ![p].dir = proc[p].act,
                            ![p].handle = FALSE]

(* Closing fails: the store is unusable, and the project stays active.      *)
HandleFails(p) ==
    /\ CanClose(p)
    /\ proc' = [proc EXCEPT ![p].handle = FALSE]

Close(p) ==
    /\ Step(p, "idle")
    /\ CloseHandle(p, "close") \/ HandleFails(p)
    /\ UNCHANGED <<lock, db, recent, req, made>>

(* A process asked to leave closes its project; when the close is refused   *)
(* it ends all the same, and its lock file stays.                           *)
Shutdown(p) ==
    /\ Step(p, "idle") /\ proc[p].life = "leaving"
    /\ \/ (CloseHandle(p, "close") \/ HandleFails(p)) /\ UNCHANGED <<lock, db, recent, req, made>>
       \/ proc[p].act = NoDir /\ Exit(p, "gone")
       \/ /\ proc[p].act # NoDir
          /\ proc[p].maint # "none" \/ ~Preflight(p)
          /\ Exit(p, "gone")

-----------------------------------------------------------------------------
(* Deleting a recent project *)

DeleteRecent(p) ==
    /\ "delete" \in load.kinds
    /\ Step(p, "idle") /\ proc[p].maint = "none"
    /\ \E d \in Dirs \ {proc[p].act} :
         /\ \E i \in DOMAIN recent : recent[i] = db[d].id
         /\ proc' = [proc EXCEPT ![p].pc = "acquire", ![p].op = "delete", ![p].dir = d]
    /\ UNCHANGED <<lock, db, recent, req, made>>

(* A mutant's way to delete: without the lock. *)
DeleteUnlocked(p) ==
    /\ Step(p, "acquire") /\ proc[p].op = "delete"
    /\ Goto(p, "remove")
    /\ UNCHANGED <<lock, db, recent, req, made>>

(* Mutant: the lock is only taken to open. *)
AcquireToOpen(p) ==
    \/ DeleteUnlocked(p)
    \/ proc[p].op # "delete" /\ Acquire(p)

TakeLock(p) == Acquire(p)

(* The database of that identity and its entry go, then the lock. *)
RemoveDatabase(p) ==
    /\ Step(p, "remove")
    /\ LET d == proc[p].dir IN
       \/ /\ \E i \in DOMAIN recent : recent[i] = db[d].id
          /\ db' = [db EXCEPT ![d] = NoDb]
          /\ recent' = SelectSeq(recent, LAMBDA i : i # db[d].id)
       \/ /\ \A i \in DOMAIN recent : recent[i] # db[d].id
          /\ UNCHANGED <<db, recent>>
    /\ Goto(p, "free")
    /\ UNCHANGED <<lock, req, made>>

-----------------------------------------------------------------------------
(* Maintenance *)

Sessions == {"restore", "adopt"}

AcquireMaintenance(p) ==
    /\ "maintain" \in load.kinds
    /\ Step(p, "idle") /\ proc[p].handle /\ proc[p].maint = "none" /\ Preflight(p)
    /\ proc' = [proc EXCEPT ![p].maint = "restore"]
    /\ UNCHANGED <<lock, db, recent, req, made>>

(* A restore into a directory without a database hands its lock over. *)
AcquireRestoredTarget(p) ==
    /\ "adopt" \in load.kinds
    /\ Step(p, "idle") /\ proc[p].act = NoDir /\ proc[p].maint = "none"
    /\ \E d \in Dirs :
         /\ lock[d] = NoLock /\ db[d].id = 0
         /\ lock' = [lock EXCEPT ![d] = [by |-> p, full |-> TRUE, open |-> TRUE]]
         /\ db' = [db EXCEPT ![d] = [id |-> 1, ver |-> "current", saved |-> FALSE]]
         /\ proc' = [proc EXCEPT ![p].act = d, ![p].id = 1, ![p].maint = "adopt"]
    /\ UNCHANGED <<recent, req, made>>

CloseConnections(p) ==
    /\ Step(p, "idle") /\ proc[p].maint = "restore" /\ proc[p].handle
    /\ proc' = [proc EXCEPT ![p].handle = FALSE]
    /\ UNCHANGED <<lock, db, recent, req, made>>

Reopen(p) ==
    /\ Step(p, "idle") /\ proc[p].maint \in Sessions /\ ~proc[p].handle
    /\ db[proc[p].act].id = proc[p].id
    /\ proc' = [proc EXCEPT ![p].handle = TRUE]
    /\ recent' = IF proc[p].maint = "adopt"
                 THEN FirstEntries(<<proc[p].id>> \o
                        SelectSeq(recent, LAMBDA i : i # proc[p].id))
                 ELSE recent
    /\ UNCHANGED <<lock, db, req, made>>

(* The session ends with the project open, or gives the adopted directory   *)
(* back, after which nobody asks more of it.                                *)
ReleaseMaintenance(p) ==
    /\ Step(p, "idle")
    /\ \/ /\ proc[p].maint \in Sessions /\ proc[p].handle
          /\ proc' = [proc EXCEPT ![p].maint = "none"]
       \/ /\ proc[p].maint = "adopt" /\ ~proc[p].handle
          /\ proc' = [proc EXCEPT ![p].pc = "free", ![p].op = "adopt", ![p].dir = proc[p].act,
                                  ![p].maint = "ended"]
    /\ UNCHANGED <<lock, db, recent, req, made>>

-----------------------------------------------------------------------------
(* Closing another instance *)

(* A process without a project reads the owner of a recent one. *)
CloseOther(r) ==
    /\ r \in load.requests /\ req[r].pc = "idle"
    /\ \E p \in Procs, d \in Dirs :
         /\ Step(p, "idle") /\ proc[p].act = NoDir /\ proc[p].maint = "none"
         /\ \E i \in DOMAIN recent : recent[i] = db[d].id
         /\ lock[d].full
         /\ req' = [req EXCEPT ![r] = [pc |-> "post", by |-> p, dir |-> d,
                                       id |-> db[d].id, owner |-> lock[d].by]]
    /\ UNCHANGED <<lock, db, recent, proc, made>>

RequestTo(r, to) == req' = [req EXCEPT ![r].pc = to]

RequestEnds(r) == req' = [req EXCEPT ![r] = NoRequest]

(* The owner serves the request: it has the project, or it declines. *)
ServeCurrent(r) ==
    /\ req[r].pc = "post" /\ Step(req[r].owner, "idle")
    /\ IF proc[req[r].owner].id = req[r].id THEN RequestTo(r, "serve") ELSE RequestEnds(r)
    /\ UNCHANGED <<lock, db, recent, proc, made>>

(* Manager.Close of whatever project is active by now; when it succeeds the *)
(* process is told to shut down after the answer.                           *)
ServeClose(r) ==
    /\ req[r].pc = "serve"
    /\ Step(req[r].owner, "idle")
    /\ \/ CloseHandle(req[r].owner, "serve") /\ RequestTo(r, "closing")
       \/ HandleFails(req[r].owner) /\ RequestEnds(r)
       \/ /\ proc[req[r].owner].act = NoDir
          /\ proc' = [proc EXCEPT ![req[r].owner].life = "leaving"]
          /\ RequestTo(r, "wait")
       \/ /\ proc[req[r].owner].act # NoDir /\ ~CanClose(req[r].owner)
          /\ RequestEnds(r) /\ UNCHANGED proc
    /\ UNCHANGED <<lock, db, recent, made>>

(* The requester polls until the lock file is gone or its time is over. *)
AwaitUnlock(r) ==
    /\ req[r].pc = "wait"
    /\ RequestEnds(r)
    /\ UNCHANGED <<lock, db, recent, proc, made>>

(* No answer: the PID in the record is probed, dead or alive. *)
Probe(r) ==
    /\ req[r].pc \in {"post", "serve", "closing"}
    /\ \/ ~Alive(req[r].owner) /\ RequestTo(r, "dead")
       \/ Alive(req[r].owner) /\ RequestEnds(r)
    /\ UNCHANGED <<lock, db, recent, proc, made>>

(* Mutant: the record is not read again before it is archived. *)
AnyOwner(r) == TRUE

SameOwner(r) == lock[req[r].dir].full /\ lock[req[r].dir].by = req[r].owner

VerifyOwner(r) ==
    /\ req[r].pc = "dead"
    /\ IF SameOwner(r) THEN RequestTo(r, "archive") ELSE RequestEnds(r)
    /\ UNCHANGED <<lock, db, recent, proc, made>>

(* Mutant: a refused rename passes for a done one. *)
ArchiveNothing(r) ==
    /\ req[r].pc = "archive"
    /\ RequestEnds(r)
    /\ UNCHANGED <<lock, db, recent, proc, made>>

(* The rename takes whatever file has the name by now, unless the system    *)
(* refuses.                                                                 *)
ArchiveLock(r) ==
    /\ req[r].pc = "archive"
    /\ IF load.renames \/ ~HeldOpen(req[r].dir) THEN RemoveLock(req[r].dir) ELSE UNCHANGED lock
    /\ RequestEnds(r)
    /\ UNCHANGED <<db, recent, proc, made>>

-----------------------------------------------------------------------------
Manage(p) ==
    \/ Start(p) \/ Crash(p) \/ Install(p) \/ TakeLock(p) \/ WriteOwner(p)
    \/ FactoryCreate(p) \/ FactoryOpen(p) \/ FactoryFails(p)
    \/ Listed(p) \/ Record(p) \/ RecordFails(p)
    \/ Work(p) \/ Close(p) \/ CloseLock(p) \/ Unlink(p) \/ Shutdown(p)
    \/ DeleteRecent(p) \/ RemoveDatabase(p)
    \/ AcquireMaintenance(p) \/ AcquireRestoredTarget(p) \/ CloseConnections(p)
    \/ Reopen(p) \/ ReleaseMaintenance(p)

Serve(r) ==
    \/ CloseOther(r) \/ ServeCurrent(r) \/ ServeClose(r) \/ AwaitUnlock(r)
    \/ Probe(r) \/ VerifyOwner(r) \/ ArchiveLock(r)

Next ==
    /\ \/ \E p \in Procs : Manage(p)
       \/ \E r \in Requests : Serve(r)
    /\ UNCHANGED load

Fairness ==
    /\ \A p \in Procs : WF_state(CloseLock(p) \/ Unlink(p) \/ Shutdown(p))
    /\ \A r \in Requests :
         WF_state(ServeCurrent(r) \/ ServeClose(r) \/ AwaitUnlock(r)
                   \/ Probe(r) \/ VerifyOwner(r) \/ ArchiveLock(r))

Spec == Init /\ [][Next]_vars /\ Fairness

-----------------------------------------------------------------------------
TypeOK ==
    /\ \A d \in Dirs : lock[d].by \in Procs \cup {NoProc} /\ lock[d].full \in BOOLEAN
    /\ \A p \in Procs : proc[p].life \in {"off", "up", "leaving", "gone", "dead"} /\ proc[p].act \in Dirs \cup {NoDir}
    /\ Len(recent) <= RecentCap /\ made \in 1 .. MaxIds

(* A process that has a project's database open, or a restore session for   *)
(* it, is named by the lock file of its directory, so no second process     *)
(* has it, and the database under its handle is still the one it opened     *)
(* (install, Close, DeleteRecent, MaintenanceSession, reclaimStaleLock).    *)
HolderIsAlone ==
    \A p \in Procs :
      Alive(p) /\ (proc[p].handle \/ proc[p].maint \in Sessions) =>
        /\ proc[p].act \in Dirs /\ lock[proc[p].act].by = p
        /\ proc[p].handle => db[proc[p].act].id = proc[p].id

(* The lock file that a live process has open is removed by that process    *)
(* only: "a temporarily unreachable instance is never forcefully            *)
(* displaced" (internal/project/instances.go, reclaimStaleLock).            *)
LiveKeepsLock ==
    [][\A d \in Dirs :
         lock'[d] # lock[d] /\ HeldOpen(d) => proc'[lock[d].by] # proc[lock[d].by]]_vars

(* A request against the project of a dead owner frees its directory: once  *)
(* the PID was found dead the owner's record does not stay, unless a second *)
(* process ends as well (PeerInstanceClient.Close, reclaimStaleLock). *)
DeadIsDisplaced ==
    \A d \in Dirs, p \in Procs :
      (/\ \E r \in Requests : req[r].pc = "dead" /\ req[r].dir = d /\ req[r].owner = p
       /\ lock[d].by = p /\ lock[d].full)
        ~> (lock[d].by # p \/ Cardinality(Ended) > 1)
=============================================================================
