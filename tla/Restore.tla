------------------------------ MODULE Restore ------------------------------
(***************************************************************************)
(* One database restore, from its admission to the removal of its journal: *)
(* RestoreService (internal/backup/application/restore.go), the file       *)
(* replacement (backup/restorefs), the restore journal                     *)
(* (backup/restorejournal), the reconciliation transactions of             *)
(* storage/sqlite/restore_reconciliation.go, and RestoreStartupRecovery    *)
(* (backup/integration/recovery.go), which runs before the project opens.  *)
(*                                                                         *)
(* Durable: the journal, the files of the target directory, the Job's rows *)
(* in the database being replaced ("home") and in the restored one         *)
(* ("backup").  A restore into an empty directory (detached) has no home   *)
(* database: its Job is the copy in the journal.  Everything else is lost  *)
(* in a crash.  One step is one transaction, one journal write, or one     *)
(* change of the file system.                                              *)
(***************************************************************************)
EXTENDS Job, Naturals

CONSTANTS
    Targets,                \* target modes considered: whether the target is empty
    Cancels,                \* whether users cancel
    MaxPosts,               \* bound on POST /restores, replays included
    MaxFaults,              \* bound on failing I/O
    MaxCrashes              \* bound on process restarts

ASSUME RestoreAssumption ==
    /\ Targets \subseteq BOOLEAN
    /\ Cancels \in BOOLEAN
    /\ MaxPosts \in Nat /\ MaxFaults \in Nat /\ MaxCrashes \in Nat

(* restorePhaseOrder; "rolled_back" and "recovery_required" have no place. *)
Order == [preflighted |-> 1, maintenance |-> 2, restore_pre_backup |-> 3,
          connections_closed |-> 4, database_staged |-> 5, original_parked |-> 6,
          installed |-> 7, verified |-> 8, reopened |-> 9, reconciled |-> 10,
          succeeded |-> 11]
RestorePhase == DOMAIN Order \cup {"rolled_back", "recovery_required"}
Resolved == {"succeeded", "rolled_back", "recovery_required"}

AtOrAfter(p, q) == p \in DOMAIN Order /\ Order[p] >= Order[q]

(* RestorePhase.CanTransitionTo *)
CanMove(p, next) ==
    /\ p \in RestorePhase \ Resolved
    /\ \/ next \in {"rolled_back", "recovery_required"}
       \/ next \in DOMAIN Order /\ Order[next] = Order[p] + 1

Steps == {"load", "claim", "check", "boundary", "pre", "preDone", "close", "closed", "stage",
          "staged", "park", "parked", "install", "installed", "verify", "reopen", "reopened",
          "rjob", "rjobs", "rbackup", "reconciled", "succeed", "succeeded", "cleanup",
          "release", "delete", "cancelJob", "recover", "rollback", "restoreOriginal",
          "reopenOriginal", "failJob", "rolledBack", "required"}
RecoverySteps == {"observe", "open", "rjob", "rjobs", "rbackup", "succeed", "advance", "cleanup",
                  "record", "delete", "error", "rollback", "restoreOriginal", "openOriginal",
                  "fail", "rolledBack", "emptyRolledBack"}

VARIABLES
    detached,               \* the target mode of the command: an empty directory
    phase, recorded,        \* the journal: Phase or "none", whether OriginalIdentity is set
    main, parked, staged,   \* project.db, .original, .staging
    pristine,               \* project.db is still the artifact, with no -wal or -shm beside it
    pre,                    \* the restore_pre artifact exists
    job, gen,               \* the Job's rows, the home row's cancel_generation
    stale, sealed,          \* restored database: unfinished Jobs, restore_pre evidence
    asked,                  \* a cancellation was accepted (what the user was told)
    proc,                   \* "up", "recovering" before the project opens, "held" by it
    preflight, posts, pending,      \* the service that knows the preflight has its store
                                    \* open; POSTs made; Executes waiting
    submitting,             \* the status a POST read, between its two writes
    pc, mem, orig,          \* Execute: its step, its journal copy's phase, original evidence
    lease,                  \* Execute acquired the maintenance session
    conn, maint,            \* the database is open; the project is in maintenance
    cancel,                 \* the cancel handler
    rpc, proven,            \* recovery: its step; it began before "reopened"
    faults, crashes

bounds == <<detached, crashes>>
journal == <<phase, recorded>>
files == <<main, parked, staged, pristine>>
rows == <<job, gen, stale, sealed>>
handlers == <<preflight, posts, pending, submitting, cancel, asked>>
worker == <<pc, mem, orig, lease>>
recovery == <<rpc, proven>>
vars == <<journal, files, pre, rows, handlers, proc, worker, conn, maint, recovery, faults,
          bounds>>

Init ==
    /\ detached \in Targets
    /\ phase = "none" /\ recorded = FALSE
    /\ main = IF detached THEN "none" ELSE "original"
    /\ parked = "none" /\ staged = FALSE /\ pristine = FALSE
    /\ pre = FALSE
    /\ job = [home |-> "absent", backup |-> "absent"]
    /\ gen = 0 /\ stale = TRUE /\ sealed = FALSE
    /\ asked = FALSE
    /\ proc = "up"
    /\ preflight = TRUE /\ posts = 0 /\ pending = 0 /\ submitting = "none"
    /\ pc = "idle" /\ mem = "none" /\ orig = FALSE /\ lease = FALSE
    /\ conn = ~detached /\ maint = FALSE
    /\ cancel = "none"
    /\ rpc = "idle" /\ proven = FALSE
    /\ faults = 0 /\ crashes = 0

Fault == faults < MaxFaults /\ faults' = faults + 1

(* The database a store opened on the target directory holds.              *)
Here == IF main = "backup" THEN "backup" ELSE "home"
Openable == main \in {"original", "backup"}
SetJob(where, s) == job' = [job EXCEPT ![where] = s]
----------------------------------------------------------------------------
(* Submit, in two durable writes, neither under the mutex Execute holds:   *)
(* the Job, created or replayed, ...                                       *)
SubmitJob ==
    /\ proc = "up" /\ pc = "idle"
    /\ preflight /\ posts < MaxPosts
    /\ ~maint /\ conn = ~detached
    /\ submitting = "none"
    /\ posts' = posts + 1
    /\ IF detached
       THEN /\ submitting' = IF phase = "none" THEN "queued" ELSE job["home"]
            /\ UNCHANGED job
       ELSE IF job["home"] = "absent"
            THEN SetJob("home", "queued") /\ submitting' = "queued"
            ELSE submitting' = job["home"] /\ UNCHANGED job
    /\ UNCHANGED <<journal, files, pre, gen, stale, sealed, preflight, pending, cancel, asked,
                   proc, worker, conn, maint, recovery, faults, bounds>>

(* ... then the journal, if there is none; the handler starts an Execute   *)
(* unless the record it was given is terminal.                             *)
SubmitJournal ==
    /\ submitting # "none"
    /\ submitting' = "none"
    /\ \/ /\ IF phase = "none" THEN phase' = "preflighted" /\ recorded' = FALSE
                               ELSE UNCHANGED journal
          /\ IF detached /\ phase = "none" THEN SetJob("home", "queued") ELSE UNCHANGED job
          /\ pending' = IF Terminal(submitting) THEN pending ELSE pending + 1
          /\ UNCHANGED faults
       \/ Fault /\ UNCHANGED <<journal, pending, job>>
    /\ UNCHANGED <<files, pre, gen, stale, sealed, preflight, posts, cancel, asked, proc, worker,
                   conn, maint, recovery, bounds>>

(* Cancel of a restore into an empty directory: one journal write.         *)
CancelDetached ==
    /\ Cancels /\ detached /\ proc = "up"
    /\ phase = "preflighted"
    /\ phase' = "rolled_back"
    /\ SetJob("home", "canceled")
    /\ gen' = 1
    /\ asked' = TRUE
    /\ UNCHANGED <<recorded, files, pre, stale, sealed, preflight, posts, pending, submitting,
                   cancel, proc, worker, conn, maint, recovery, faults, bounds>>

(* Cancel otherwise: the journal's phase decides, ...                      *)
CancelRead ==
    /\ Cancels /\ ~detached /\ proc = "up"
    /\ cancel = "none"
    /\ phase = "preflighted"
    /\ cancel' = "request"
    /\ UNCHANGED <<journal, files, pre, rows, preflight, posts, pending, submitting, asked, proc,
                   worker, conn, maint, recovery, faults, bounds>>

(* Mutant: a repeated cancellation counts again.                           *)
CancelRequestRepeats ==
    /\ cancel = "request"
    /\ cancel' = "none"
    /\ preflight
    /\ gen' = gen + 1 /\ asked' = TRUE
    /\ UNCHANGED <<journal, files, pre, job, stale, sealed, preflight, posts, pending, submitting,
                   proc, worker, conn, maint, recovery, faults, bounds>>

(* ... and RequestCancellation follows on the store the service was built  *)
(* with, which fails once that is closed.                                  *)
CancelRequest ==
    /\ cancel = "request"
    /\ cancel' = "none"
    /\ IF preflight /\ ~Terminal(job["home"])
       THEN gen' = 1 /\ asked' = TRUE
       ELSE UNCHANGED <<gen, asked>>
    /\ UNCHANGED <<journal, files, pre, job, stale, sealed, preflight, posts, pending, submitting,
                   proc, worker, conn, maint, recovery, faults, bounds>>
----------------------------------------------------------------------------
Goto(step) == pc' = step
ran == <<pre, handlers, proc, lease, recovery, bounds>>    \* what no later step of Execute changes

(* Execute: the journal and the Job are read; the Job's store is closed    *)
(* once another Execute of this service replaced the database.             *)
Load ==
    /\ proc = "up" /\ pc = "idle" /\ pending > 0
    /\ pending' = pending - 1
    /\ mem' = phase
    /\ orig' = FALSE /\ lease' = FALSE
    /\ IF phase = "none" \/ job["home"] = "succeeded" \/ ~(preflight \/ detached)
       THEN Goto("idle")
       ELSE IF gen > 0 THEN Goto("cancelJob")
       ELSE IF job["home"] = "queued" THEN Goto("claim")
       ELSE Goto("check")
    /\ UNCHANGED <<journal, files, pre, rows, preflight, posts, submitting, cancel, asked, proc,
                   conn, maint, recovery, faults, bounds>>

(* A cancellation recorded since leaves the Job as it is and ends Execute. *)
Claim ==
    /\ pc = "claim"
    /\ IF detached THEN Goto("check") /\ UNCHANGED job
       ELSE IF job["home"] = "queued" /\ gen = 0
            THEN SetJob("home", "running") /\ Goto("check")
            ELSE Goto("idle") /\ UNCHANGED job
    /\ UNCHANGED <<journal, files, gen, stale, sealed, mem, orig, conn, maint, faults, ran>>

(* The artifact, the target and the space are checked again and the        *)
(* maintenance session acquired, or the restore fails early; an event that *)
(* cannot be written ends Execute.                                         *)
Check ==
    /\ pc = "check"
    /\ \/ ~maint /\ maint' = TRUE /\ lease' = TRUE /\ Goto("boundary") /\ UNCHANGED faults
       \/ Goto("failJob") /\ UNCHANGED <<maint, lease, faults>>
       \/ Fault /\ Goto("idle") /\ UNCHANGED <<maint, lease>>
    /\ UNCHANGED <<journal, files, pre, rows, handlers, proc, mem, orig, conn, recovery, bounds>>

(* advanceJournal: the store compares generation and phase.  A fault may   *)
(* or may not have replaced the file.                                      *)
Swap(at, to, next, otherwise) ==
    /\ pc = at
    /\ \/ /\ phase = mem /\ CanMove(phase, to)
          /\ phase' = to /\ mem' = to
          /\ recorded' = orig
          /\ Goto(next)
          /\ UNCHANGED faults
       \/ /\ ~(phase = mem /\ CanMove(phase, to))
          /\ Goto(otherwise)
          /\ UNCHANGED <<journal, mem, faults>>
       \/ /\ Fault
          /\ \/ UNCHANGED journal
             \/ phase = mem /\ CanMove(phase, to) /\ phase' = to /\ recorded' = orig
          /\ Goto(otherwise)
          /\ UNCHANGED mem

(* The checkpoints of Execute between which nothing but the journal moves. *)
Checkpoint ==
    /\ \/ Swap("preDone", "restore_pre_backup", "close", "recover")
       \/ Swap("closed", "connections_closed", "stage", "recover")
       \/ Swap("staged", "database_staged", IF detached THEN "parked" ELSE "park", "recover")
       \/ Swap("parked", "original_parked", "install", "recover")
       \/ Swap("installed", "installed", "verify", "recover")
       \/ pristine /\ Swap("verify", "verified", "reopen", "recover")
       \/ Swap("reopened", "reopened", "rjob", "recover")
       \/ Swap("reconciled", "reconciled", "succeed", "recover")
    /\ UNCHANGED <<files, rows, orig, conn, maint, ran>>

(* The boundary after which Cancel is denied; the detached Job is written  *)
(* as running with it.                                                     *)
Boundary ==
    /\ Swap("boundary", "maintenance", "pre", "recover")
    /\ IF detached /\ phase' # phase THEN SetJob("home", "running") ELSE UNCHANGED job
    /\ UNCHANGED <<files, gen, stale, sealed, orig, conn, maint, ran>>

(* A step of Execute that may fail: done, or failed with what it may have  *)
(* left behind.                                                            *)
Works(at, next) == pc = at /\ Goto(next) /\ UNCHANGED faults
Fails(at) == pc = at /\ Fault /\ Goto("recover")

MandatoryBackup ==
    /\ \/ Works("pre", "preDone") /\ pre' = (pre \/ ~detached)
       \/ Fails("pre") /\ pre' \in {pre, ~detached}
    /\ UNCHANGED <<journal, files, rows, mem, orig, lease, conn, maint, handlers, proc, recovery,
                   bounds>>

(* PrepareRestoreClose and the closing of every connection; the service    *)
(* built for the closed store, with its preflights, is replaced.           *)
CloseConnections ==
    /\ \/ Works("close", "closed") /\ conn' = FALSE /\ preflight' = FALSE
       \/ Fails("close") /\ UNCHANGED <<conn, preflight>>
    /\ UNCHANGED <<journal, files, pre, rows, mem, orig, lease, maint, posts, pending, submitting, cancel,
                   asked, proc, recovery, bounds>>

Stage ==
    /\ \/ Works("stage", "staged") /\ staged' = TRUE
       \/ Fails("stage") /\ staged' = FALSE
    /\ UNCHANGED <<journal, main, parked, pristine, rows, mem, orig, conn, maint, ran>>

ParkOriginal ==
    /\ \/ Works("park", "parked") /\ orig' = TRUE /\ main' = "none" /\ parked' = "original"
       \/ /\ Fails("park") /\ orig' = orig
          /\ \/ UNCHANGED <<main, parked>>
             \/ main' = "none" /\ parked' = "original"
    /\ UNCHANGED <<journal, staged, pristine, rows, mem, conn, maint, ran>>

Install ==
    /\ Works("install", "installed") \/ Fails("install")
    /\ \/ main' = "backup" /\ staged' = FALSE /\ pristine' = TRUE
       \/ pc' = "recover" /\ UNCHANGED <<main, staged, pristine>>
    /\ UNCHANGED <<journal, parked, rows, mem, orig, conn, maint, ran>>

(* VerifyInstalled fails.                                                  *)
VerifyFails ==
    /\ Fails("verify")
    /\ UNCHANGED <<journal, files, rows, mem, orig, conn, maint, ran>>

(* Reopen and VerifyRestoreRuntime; a migration may write to the database. *)
Reopen ==
    /\ \/ Works("reopen", "reopened") /\ conn' = TRUE /\ pristine' \in {pristine, FALSE}
       \/ Fails("reopen") /\ conn' \in BOOLEAN /\ pristine' \in {pristine, FALSE}
    /\ UNCHANGED <<journal, main, parked, staged, rows, mem, orig, maint, ran>>

(* ReconcileRestoreJob: the restored database gets the Job, interrupted.   *)
ReconcileJob ==
    /\ \/ Works("rjob", "rjobs") /\ SetJob("backup", "interrupted")
       \/ Fails("rjob") /\ UNCHANGED job
    /\ pristine' = FALSE
    /\ UNCHANGED <<journal, main, parked, staged, gen, stale, sealed, mem, orig, conn, maint, ran>>

(* Mutant: Jobs captured in the backup are left as they were.              *)
ReconcileJobsSkipped ==
    /\ Works("rjobs", IF detached THEN "reconciled" ELSE "rbackup")
    /\ UNCHANGED <<journal, files, rows, mem, orig, conn, maint, ran>>

(* ReconcileRestoredJobs: unfinished Jobs of the backup's time are failed. *)
ReconcileJobs ==
    /\ \/ Works("rjobs", IF detached THEN "reconciled" ELSE "rbackup") /\ stale' = FALSE
       \/ Fails("rjobs") /\ UNCHANGED stale
    /\ UNCHANGED <<journal, files, job, gen, sealed, mem, orig, conn, maint, ran>>

(* ReconcileRestoreBackup, and the invalidation of derived state.          *)
ReconcileBackup ==
    /\ \/ Works("rbackup", "reconciled") /\ sealed' = TRUE
       \/ Fails("rbackup") /\ sealed' \in {sealed, TRUE}
    /\ UNCHANGED <<journal, files, job, gen, stale, mem, orig, conn, maint, ran>>

Succeed ==
    /\ \/ Works("succeed", "succeeded") /\ SetJob("backup", "succeeded")
       \/ Fails("succeed") /\ job' \in {job, [job EXCEPT !["backup"] = "succeeded"]}
    /\ UNCHANGED <<journal, files, gen, stale, sealed, mem, orig, conn, maint, ran>>

(* From here on an error only ends Execute.                                *)
JournalSucceeded ==
    /\ Swap("succeeded", "succeeded", IF detached THEN "release" ELSE "cleanup", "idle")
    /\ IF detached /\ phase' # phase THEN SetJob("home", "succeeded") ELSE UNCHANGED job
    /\ UNCHANGED <<files, gen, stale, sealed, orig, conn, maint, ran>>

(* Mutant: the parked original is removed before the journal says          *)
(* succeeded.                                                              *)
CleanupEarly ==
    /\ pc \in {"reconciled", "cleanup"} /\ parked = "original"
    /\ parked' = "none"
    /\ Goto(IF pc = "cleanup" THEN "release" ELSE pc)
    /\ UNCHANGED <<journal, main, staged, pristine, rows, mem, orig, conn, maint, faults, ran>>

Cleanup ==
    /\ pc = "cleanup"
    /\ \/ parked' = "none" /\ Goto("release") /\ UNCHANGED faults
       \/ parked' \in {parked, "none"} /\ Goto("idle") /\ Fault
    /\ UNCHANGED <<journal, main, staged, pristine, rows, mem, orig, conn, maint, ran>>

(* MaintenanceSession.Release; a detached session without a handle gives   *)
(* the target up.                                                          *)
Release ==
    /\ pc = "release"
    /\ maint' = (maint /\ ~lease)
    /\ Goto("delete")
    /\ UNCHANGED <<journal, files, rows, mem, orig, conn, faults, ran>>

(* DeleteTerminal, in Execute's copy's generation.  A detached restore     *)
(* that did not succeed keeps its journal: it is the Job's only record.    *)
Delete ==
    /\ pc = "delete"
    /\ IF phase = mem /\ phase \in Resolved /\ (detached => phase = "succeeded")
       THEN phase' = "none" /\ recorded' = FALSE
       ELSE UNCHANGED journal
    /\ Goto("idle")
    /\ UNCHANGED <<files, rows, mem, orig, conn, maint, faults, ran>>
----------------------------------------------------------------------------
(* A cancellation seen by Load: the Job is canceled, the journal resolved. *)
CancelJob ==
    /\ pc = "cancelJob"
    /\ IF job["home"] = "canceled" \/ CanTransitionTo(job["home"], "canceled")
       THEN SetJob("home", "canceled") /\ Goto("rolledBack")
       ELSE UNCHANGED job /\ Goto("idle")
    /\ UNCHANGED <<journal, files, gen, stale, sealed, mem, orig, conn, maint, faults, ran>>

(* recoverFailure decides by what Execute holds.  An empty target has      *)
(* nothing to go back to: its staged file is discarded.                    *)
Recover ==
    /\ pc = "recover"
    /\ IF detached
       THEN IF ~AtOrAfter(mem, "installed") /\ (AtOrAfter(mem, "database_staged") => staged)
            THEN staged' = FALSE /\ Goto("rolledBack")
            ELSE UNCHANGED staged /\ Goto("required")
       ELSE /\ Goto(IF orig /\ conn THEN "required"
                    ELSE IF orig THEN "rollback"
                    ELSE IF conn THEN "failJob" ELSE "reopenOriginal")
            /\ UNCHANGED staged
    /\ UNCHANGED <<journal, main, parked, pristine, rows, mem, orig, conn, maint, faults, ran>>

(* Rollback: what is installed goes to quarantine, then the original back. *)
Rollback ==
    /\ pc = "rollback"
    /\ \/ main' = "none" /\ Goto("restoreOriginal") /\ UNCHANGED faults
       \/ main' \in {main, "none"} /\ Goto("required") /\ Fault
    /\ UNCHANGED <<journal, parked, staged, pristine, rows, mem, orig, conn, maint, ran>>

RestoreOriginal ==
    /\ pc = "restoreOriginal"
    /\ main' = "original" /\ parked' = "none"
    /\ pristine' = FALSE
    /\ \/ Goto("reopenOriginal") /\ UNCHANGED faults
       \/ Goto("required") /\ Fault
    /\ UNCHANGED <<journal, staged, rows, mem, orig, conn, maint, ran>>

(* Opening a missing project.db leaves a blank one behind.                 *)
ReopenOriginal ==
    /\ pc = "reopenOriginal"
    /\ \/ Openable /\ conn' = TRUE /\ Goto("failJob") /\ UNCHANGED <<main, faults>>
       \/ Openable /\ Goto("required") /\ Fault /\ UNCHANGED <<main, conn>>
       \/ /\ ~Openable
          /\ main' = "blank"
          /\ Goto("required")
          /\ UNCHANGED <<conn, faults>>
    /\ UNCHANGED <<journal, parked, staged, pristine, rows, mem, orig, maint, ran>>

(* The end of recoverFailure and failBeforeMaintenance: the Job fails.  A  *)
(* refused transition leaves an invalid record in Execute's copy, so that  *)
(* the journal is not written either.                                      *)
FailJob ==
    /\ pc = "failJob"
    /\ \/ /\ ~detached /\ (job["home"] = "failed" \/ CanTransitionTo(job["home"], "failed"))
          /\ SetJob("home", "failed")
          /\ Goto("rolledBack")
          /\ UNCHANGED faults
       \/ /\ ~detached
          /\ job["home"] # "failed" /\ ~CanTransitionTo(job["home"], "failed")
          /\ Goto("release")
          /\ UNCHANGED <<job, faults>>
       \/ /\ ~detached /\ Fault
          /\ Goto("rolledBack") \/ Goto("release")
          /\ UNCHANGED job
       \/ detached /\ Goto("rolledBack") /\ UNCHANGED <<job, faults>>
    /\ UNCHANGED <<journal, files, gen, stale, sealed, mem, orig, conn, maint, ran>>

(* Mutant: the journal of a failed restore is left where it was.           *)
RolledBackUnwritten ==
    /\ pc = "rolledBack"
    /\ Goto("release")
    /\ UNCHANGED <<journal, files, rows, mem, orig, conn, maint, faults, ran>>

RolledBack ==
    /\ Swap("rolledBack", "rolled_back", "release", "release")
    /\ IF detached /\ phase' # phase THEN SetJob("home", "failed") ELSE UNCHANGED job
    /\ UNCHANGED <<files, gen, stale, sealed, orig, conn, maint, ran>>

(* The project stays in maintenance until the process ends.                *)
Required ==
    /\ Swap("required", "recovery_required", "idle", "idle")
    /\ UNCHANGED <<files, rows, orig, conn, maint, ran>>
----------------------------------------------------------------------------
(* The process dies.  A database that was open has its sidecar files left. *)
Restart ==
    /\ crashes < MaxCrashes
    /\ crashes' = crashes + 1
    /\ proc' = "recovering"
    /\ rpc' = "observe"
    /\ pc' = "idle" /\ pending' = 0 /\ submitting' = "none" /\ cancel' = "none"
    /\ conn' = FALSE /\ maint' = FALSE /\ preflight' = FALSE
    /\ pristine' = (pristine /\ ~conn)
    /\ UNCHANGED <<journal, main, parked, staged, pre, rows, posts, asked, mem, orig, lease,
                   proven, faults, detached>>

RGoto(step) == rpc' = step /\ UNCHANGED <<proc, conn>>
(* Recovery of the journal returns: an error keeps the project's lock.     *)
RReturn(outcome) ==
    /\ proc' = outcome
    /\ rpc' = "idle"
    /\ conn' = (outcome = "up" /\ ~detached)
calm == <<pre, handlers, worker, maint, bounds>>

(* observeOriginal *)
OriginalValid == parked = "original" /\ recorded
(* observeInstalled *)
InstalledValid == main = "backup" /\ pristine

(* recoverOne and DecideRestoreRecovery                                    *)
Observe ==
    /\ rpc = "observe" /\ ~detached
    /\ proven' = ~AtOrAfter(phase, "reopened")
    /\ IF phase = "none" THEN RReturn("up")
       ELSE IF phase = "recovery_required" THEN RReturn("held")
       ELSE IF AtOrAfter(phase, "reopened") THEN RGoto("open")
       ELSE IF InstalledValid /\ AtOrAfter(phase, "installed") THEN RGoto("open")
       ELSE IF OriginalValid THEN RGoto("rollback")
       ELSE IF phase = "rolled_back" \/ ~AtOrAfter(phase, "original_parked")
            THEN RGoto("openOriginal")
       ELSE RReturn("held")
    /\ UNCHANGED <<journal, files, rows, faults, calm>>

(* recoverEmpty up to its journal write.                                   *)
ObserveEmpty ==
    /\ rpc = "observe" /\ detached
    /\ proven' = ~AtOrAfter(phase, "reopened")
    /\ \/ phase \in {"none", "rolled_back"} /\ RReturn("up") /\ UNCHANGED staged
       \/ phase = "recovery_required" /\ RReturn("held") /\ UNCHANGED staged
       \/ /\ AtOrAfter(phase, "installed")
          /\ IF InstalledValid THEN RGoto("open") ELSE RReturn("held")
          /\ UNCHANGED staged
       \/ /\ phase \in DOMAIN Order /\ ~AtOrAfter(phase, "installed")
          /\ IF main = "none" /\ (AtOrAfter(phase, "database_staged") => staged)
             THEN /\ RGoto("emptyRolledBack")
                  /\ staged' = (staged /\ ~AtOrAfter(phase, "database_staged"))
             ELSE RReturn("held") /\ UNCHANGED staged
    /\ UNCHANGED <<journal, main, parked, pristine, rows, faults, calm>>

EmptyRolledBack ==
    /\ rpc = "emptyRolledBack"
    /\ phase' = "rolled_back"
    /\ job' = IF Terminal(job["home"]) THEN job ELSE [job EXCEPT !["home"] = "failed"]
    /\ RReturn("up")
    /\ UNCHANGED <<recorded, files, gen, stale, sealed, proven, faults, calm>>

(* A step of completeInstalled that may fail.                              *)
RWorks(at, next) == rpc = at /\ RGoto(next) /\ UNCHANGED faults
RFails(at) == rpc = at /\ RGoto("error") /\ Fault

OpenInstalled ==
    /\ rpc = "open"
    /\ \/ /\ Openable
          /\ rpc' = "rjob" /\ conn' = TRUE
          /\ pristine' \in {pristine, FALSE}
          /\ UNCHANGED <<main, proc, faults>>
       \/ Openable /\ RFails("open") /\ UNCHANGED <<main, pristine>>
       \/ ~Openable /\ RGoto("error") /\ main' = "blank" /\ UNCHANGED <<pristine, faults>>
    /\ UNCHANGED <<journal, parked, staged, rows, proven, calm>>

RecoverJob ==
    /\ \/ /\ RWorks("rjob", "rjobs")
          /\ job' = IF job[Here] = "absent" THEN [job EXCEPT ![Here] = "interrupted"] ELSE job
       \/ RFails("rjob") /\ UNCHANGED job
    /\ pristine' = FALSE
    /\ UNCHANGED <<journal, main, parked, staged, gen, stale, sealed, proven, calm>>

RecoverJobs ==
    /\ \/ /\ RWorks("rjobs", IF detached THEN "succeed" ELSE "rbackup")
          /\ stale' = (stale /\ main # "backup")
       \/ RFails("rjobs") /\ UNCHANGED stale
    /\ UNCHANGED <<journal, files, job, gen, sealed, proven, calm>>

RecoverBackup ==
    /\ \/ RWorks("rbackup", "succeed") /\ sealed' = (sealed \/ main = "backup")
       \/ RFails("rbackup") /\ UNCHANGED sealed
    /\ UNCHANGED <<journal, files, job, gen, stale, proven, calm>>

(* The Job is succeeded already, or is taken there from what it is.        *)
RecoverSucceed ==
    /\ \/ job[Here] = "succeeded" /\ RWorks("succeed", "advance") /\ UNCHANGED job
       \/ /\ ~Terminal(job[Here]) /\ (Here = "home" => gen = 0)
          /\ RWorks("succeed", "advance")
          /\ SetJob(Here, "succeeded")
       \/ /\ rpc = "succeed"
          /\ Terminal(job[Here]) \/ (Here = "home" /\ gen > 0)
          /\ job[Here] # "succeeded"
          /\ RGoto("error")
          /\ UNCHANGED <<job, faults>>
       \/ RFails("succeed") /\ UNCHANGED job
    /\ UNCHANGED <<journal, files, gen, stale, sealed, proven, calm>>

(* advanceInstalledJournal: one checkpoint after the other.                *)
RecoverAdvance ==
    /\ rpc = "advance"
    /\ \/ /\ phase = "succeeded"
          /\ RGoto("cleanup")
          /\ UNCHANGED <<phase, job, faults>>
       \/ /\ phase # "succeeded"
          /\ \E p \in DOMAIN Order : CanMove(phase, p) /\ phase' = p
          /\ IF detached THEN SetJob("home", "succeeded") ELSE UNCHANGED job
          /\ UNCHANGED <<rpc, proc, conn, faults>>
       \/ phase # "succeeded" /\ RFails("advance") /\ UNCHANGED <<phase, job>>
    /\ UNCHANGED <<recorded, files, gen, stale, sealed, proven, calm>>

RecoverCleanup ==
    /\ \/ RWorks("cleanup", "record") /\ parked' = "none"
       \/ parked # "none" /\ RFails("cleanup") /\ parked' \in {parked, "none"}
    /\ UNCHANGED <<journal, main, staged, pristine, rows, proven, calm>>

(* Recent.Record for an empty target, then DeleteTerminal.                 *)
RecoverDelete ==
    /\ \/ /\ rpc = "record"
          /\ phase' = "none" /\ recorded' = FALSE
          /\ RReturn("up")
          /\ UNCHANGED faults
       \/ RFails("record") /\ UNCHANGED journal
    /\ UNCHANGED <<files, rows, proven, calm>>

(* completeInstalled failed: back to the parked original if there is one,  *)
(* unless a journal found past reopened says succeeded.                    *)
RecoverError ==
    /\ rpc = "error"
    /\ IF OriginalValid /\ (proven \/ phase # "succeeded")
       THEN rpc' = "rollback" /\ conn' = FALSE /\ UNCHANGED proc
       ELSE RReturn("held")
    /\ UNCHANGED <<journal, files, rows, proven, faults, calm>>

(* rollbackOriginal *)
RecoverRollback ==
    /\ rpc = "rollback"
    /\ \/ main' = "none" /\ RGoto("restoreOriginal") /\ UNCHANGED faults
       \/ main' \in {main, "none"} /\ RReturn("held") /\ Fault
    /\ UNCHANGED <<journal, parked, staged, pristine, rows, proven, calm>>

RecoverOriginal ==
    /\ rpc = "restoreOriginal"
    /\ main' = "original" /\ parked' = "none"
    /\ pristine' = FALSE
    /\ \/ RGoto("openOriginal") /\ UNCHANGED faults
       \/ RReturn("held") /\ Fault
    /\ UNCHANGED <<journal, staged, rows, proven, calm>>

OpenOriginal ==
    /\ rpc = "openOriginal"
    /\ \/ /\ Openable
          /\ rpc' = "fail" /\ conn' = TRUE
          /\ UNCHANGED <<main, proc, faults>>
       \/ Openable /\ RReturn("held") /\ Fault /\ UNCHANGED main
       \/ ~Openable /\ RReturn("held") /\ main' = "blank" /\ UNCHANGED faults
    /\ UNCHANGED <<journal, parked, staged, pristine, rows, proven, calm>>

RecoverFail ==
    /\ rpc = "fail"
    /\ \/ /\ job[Here] = "failed" \/ ~Terminal(job[Here])
          /\ SetJob(Here, "failed")
          /\ RGoto("rolledBack")
          /\ UNCHANGED faults
       \/ Terminal(job[Here]) /\ job[Here] # "failed" /\ RReturn("held") /\ UNCHANGED <<job, faults>>
       \/ RReturn("held") /\ Fault /\ UNCHANGED job
    /\ UNCHANGED <<journal, files, gen, stale, sealed, proven, calm>>

RecoverRolledBack ==
    /\ rpc = "rolledBack"
    /\ \/ /\ phase # "rolled_back" /\ phase \notin Resolved
          /\ phase' = "rolled_back"
          /\ RGoto("delete")
          /\ UNCHANGED faults
       \/ phase = "rolled_back" /\ RGoto("delete") /\ UNCHANGED <<phase, faults>>
       \/ phase \in Resolved \ {"rolled_back"} /\ RReturn("held") /\ UNCHANGED <<phase, faults>>
       \/ RReturn("held") /\ Fault /\ UNCHANGED phase
    /\ UNCHANGED <<recorded, files, rows, proven, calm>>

RecoverDeleteRolledBack ==
    /\ rpc = "delete"
    /\ \/ phase' = "none" /\ recorded' = FALSE /\ RReturn("up") /\ UNCHANGED faults
       \/ UNCHANGED journal /\ RReturn("held") /\ Fault
    /\ UNCHANGED <<files, rows, proven, calm>>
----------------------------------------------------------------------------
Execute ==
    \/ Load \/ Claim \/ Check \/ Boundary \/ Checkpoint \/ MandatoryBackup \/ CloseConnections
    \/ Stage \/ ParkOriginal \/ Install \/ VerifyFails \/ Reopen \/ ReconcileJob \/ ReconcileJobs
    \/ ReconcileBackup \/ Succeed \/ JournalSucceeded \/ Cleanup \/ Release \/ Delete
    \/ CancelJob \/ Recover \/ Rollback \/ RestoreOriginal \/ ReopenOriginal \/ FailJob
    \/ RolledBack \/ Required

StartupRecovery ==
    \/ Observe \/ ObserveEmpty \/ EmptyRolledBack \/ OpenInstalled \/ RecoverJob \/ RecoverJobs
    \/ RecoverBackup \/ RecoverSucceed \/ RecoverAdvance \/ RecoverCleanup \/ RecoverDelete
    \/ RecoverError \/ RecoverRollback \/ RecoverOriginal \/ OpenOriginal \/ RecoverFail
    \/ RecoverRolledBack \/ RecoverDeleteRolledBack

Next ==
    \/ SubmitJob \/ SubmitJournal \/ CancelDetached \/ CancelRead \/ CancelRequest
    \/ Execute \/ Restart \/ StartupRecovery

Spec == Init /\ [][Next]_vars

(* Handlers and the Execute goroutine run on; recovery is sequential.      *)
Fairness == WF_vars(SubmitJournal) /\ WF_vars(Execute) /\ WF_vars(StartupRecovery)

LiveSpec == Spec /\ Fairness
----------------------------------------------------------------------------
(* Every variable has its type.                                            *)
TypeOK ==
    /\ detached \in Targets
    /\ phase \in RestorePhase \cup {"none"} /\ recorded \in BOOLEAN
    /\ main \in {"none", "blank", "original", "backup"}
    /\ parked \in {"none", "original"}
    /\ staged \in BOOLEAN /\ pristine \in BOOLEAN /\ pre \in BOOLEAN
    /\ job \in [{"home", "backup"} -> Status \cup {"absent"}]
    /\ gen \in {0, 1} /\ stale \in BOOLEAN /\ sealed \in BOOLEAN /\ asked \in BOOLEAN
    /\ proc \in {"up", "recovering", "held"}
    /\ preflight \in BOOLEAN /\ posts \in Nat /\ pending \in 0 .. posts
    /\ submitting \in Status \cup {"none"}
    /\ pc \in Steps \cup {"idle"} /\ mem \in RestorePhase \cup {"none"} /\ orig \in BOOLEAN
    /\ lease \in BOOLEAN
    /\ conn \in BOOLEAN /\ maint \in BOOLEAN
    /\ cancel \in {"none", "request"}
    /\ rpc \in RecoverySteps \cup {"idle"} /\ proven \in BOOLEAN
    /\ faults \in 0 .. MaxFaults /\ crashes \in 0 .. MaxCrashes

(* The database a restore replaces is never lost: it is project.db or the  *)
(* parked file until the restored one is in place and its Job succeeded,   *)
(* and even then its restore_pre backup exists, whatever step failed and   *)
(* wherever the process died (ParkOriginal, Rollback, Cleanup).            *)
OriginalPreserved ==
    ~detached =>
        \/ main = "original" \/ parked = "original"
        \/ main = "backup" /\ job["backup"] = "succeeded" /\ pre

(* A parked original always has a journal that leads recovery to it.       *)
ParkedIsJournaled == parked = "original" => phase # "none"

(* Once users can work again with restored data, the restore Job is        *)
(* succeeded there, work captured in the backup is settled, and the        *)
(* restore_pre evidence is sealed.                                         *)
Usable == proc = "up" /\ ~maint /\ (conn \/ detached)
RestoredIsComplete ==
    Usable /\ main = "backup" =>
        job["backup"] = "succeeded" /\ ~stale /\ (detached \/ sealed)

(* A cancel accepted for a restore into an empty directory excludes its    *)
(* success, whichever of Cancel and Execute wrote the journal first: its   *)
(* Job is the journal's copy and is compared with it at every step.        *)
CancelHonoured == detached /\ asked => job["backup"] # "succeeded"

(* The database a restore replaces stays there (OriginalPreserved), and    *)
(* recovery finds it (ParkedIsJournaled).                                  *)
OriginalIsRecoverable == OriginalPreserved /\ ParkedIsJournaled

(* The outcome users meet is the one reported: restored data is complete   *)
(* (RestoredIsComplete) and an accepted cancel is final (CancelHonoured).  *)
(* For an empty directory it takes one POST: of a request that is repeated *)
(* the second Execute, or a journal of the second Submit after the first   *)
(* restore is over, can undo it (failBeforeMaintenance, Submit).           *)
OutcomeIsHonest ==
    (detached => posts <= 1) => RestoredIsComplete /\ CancelHonoured

(* Wherever the process dies, every journal of a restore is resolved, or   *)
(* the project's lock is held for inspection: no restart is left with an   *)
(* unfinished recovery or an open half-restored project.  Not promised     *)
(* after a failing call, a cancel, or a repeated POST: a POST of a Job     *)
(* that has ended writes a journal no Execute takes up.                    *)
Settles ==
    phase # "none" ~> \/ phase \in Resolved \cup {"none"} \/ proc = "held"
                      \/ faults > 0 \/ asked \/ posts > 1

(* recoverOne: "Before the original was durably parked, project.db is      *)
(* itself the original recovery candidate" (recovery.go:129-130).          *)
UnparkedIsMain ==
    rpc = "observe" /\ ~detached /\ phase \in DOMAIN Order /\ ~AtOrAfter(phase, "original_parked")
        => main = "original"

(* recoverOne, of a journal that says reopened: "Prove the database by     *)
(* normal open/runtime checks and the original Job identity"               *)
(* (recovery.go:91-92).  Success is proved of the restored database only,  *)
(* never of the one that was to be replaced.                               *)
SuccessIsInstalled == ~detached => job["home"] # "succeeded"
=============================================================================
