---------------------------- MODULE Restore_proofs ----------------------------
(***************************************************************************)
(* Proofs about a restore, for any number of POSTs, faults and crashes:    *)
(* the database it replaces is never lost and recovery finds it, and a     *)
(* project that is in use again after a restore has the whole of it; about *)
(* the processes of ProjectInstances: who holds a project directory; and   *)
(* about RestoreTargets: who holds a selected folder and uses a selection. *)
(***************************************************************************)
EXTENDS MCMaintenance, TLAPS, FiniteSetTheorems, SequenceTheorems

(* What lies in the target directory of a restore over a database.         *)
Whole     == main = "original" /\ parked = "none"
Swapped   == main = "none" /\ parked = "original"
Broken    == main \in {"none", "blank"} /\ parked = "original"
Installed == main = "backup" /\ parked = "original" /\ recorded
Complete  == main = "backup" /\ parked = "none" /\ pre /\ job["backup"] = "succeeded" /\ ~stale /\ sealed

DiskIsSound == Whole \/ Broken \/ Installed \/ Complete

(* The checkpoints from the installation and from the backup on.           *)
FromInstalled == {"installed", "verified", "reopened", "reconciled", "succeeded"}
FromBackup    == FromInstalled \cup
                 {"restore_pre_backup", "connections_closed", "database_staged", "original_parked"}

(* The journal of a parked original, and the evidence it stands for.       *)
JournalIsSound ==
    /\ parked = "original" => phase # "none"
    /\ phase \in FromBackup => pre
    /\ Installed /\ proc = "up" => maint

(* The steps of Execute: before the connections are closed, before the     *)
(* original is parked, before the restored database is in place, after it. *)
Early    == {"claim", "check", "boundary", "pre", "preDone", "close", "cancelJob"}
Closed   == {"closed", "stage", "staged", "park"}
Parked   == {"parked", "install"}
Replaced == {"installed", "verify", "reopen", "reopened", "rjob", "rjobs", "rbackup", "reconciled",
             "succeed", "succeeded", "cleanup"}

ExecuteIsSound ==
    /\ pc # "idle" => proc = "up" /\ phase # "none"
    /\ preflight => Whole /\ conn /\ proc = "up"
    /\ pc \in Early => Whole /\ preflight /\ ~orig
    /\ pc \in Closed => Whole /\ ~orig /\ ~conn
    /\ pc \in Parked => Swapped /\ orig
    /\ pc = "install" => recorded
    /\ pc \in Replaced => Installed /\ orig
    /\ pc \in {"boundary", "pre", "preDone", "close"} \cup Closed \cup Parked => maint
    /\ pc \in {"preDone", "close"} \cup Closed \cup Parked \cup Replaced => pre
    /\ pc \in {"rbackup", "reconciled", "succeed", "succeeded", "cleanup"} => ~stale
    /\ pc \in {"reconciled", "succeed", "succeeded", "cleanup"} => sealed
    /\ pc \in {"succeeded", "cleanup"} => job["backup"] = "succeeded"
    /\ pc \in {"release", "delete"} => Whole \/ Complete
    /\ pc \in {"failJob", "rolledBack"} => Whole
    /\ pc = "recover" => IF orig THEN Swapped \/ Installed ELSE Whole \/ (Swapped /\ ~conn)
    /\ pc = "rollback" => Swapped \/ Installed
    /\ pc = "restoreOriginal" => Swapped
    /\ pc = "reopenOriginal" => Whole \/ Swapped
    /\ pc # "idle" /\ Installed => orig

(* The steps of the recovery that runs before the project opens.           *)
RecoveryIsSound ==
    /\ rpc # "idle" => proc = "recovering" /\ pc = "idle" /\ ~preflight
    /\ rpc # "emptyRolledBack"
    /\ rpc \notin {"idle", "observe"} => phase # "none"
    /\ rpc \in {"open", "rjob", "rjobs", "rbackup", "succeed", "advance"} => phase \in FromInstalled
    /\ rpc \in {"rjob", "rjobs", "rbackup", "succeed", "advance", "cleanup", "record"} => Openable
    /\ rpc \in {"cleanup", "record"} => phase = "succeeded"
    /\ main = "backup" =>
          /\ rpc \in {"rbackup", "succeed", "advance", "cleanup", "record"} => ~stale
          /\ rpc \in {"succeed", "advance", "cleanup", "record"} => sealed
          /\ rpc \in {"advance", "cleanup", "record"} => job["backup"] = "succeeded"
    /\ rpc = "record" => parked = "none"
    /\ rpc \in {"rollback", "restoreOriginal"} => parked = "original"
    /\ rpc = "openOriginal" => ~Installed
    /\ rpc = "fail" => Whole \/ Complete
    /\ rpc \in {"rolledBack", "delete"} => Whole

RowsTyped ==
    /\ phase \in RestorePhase \cup {"none"}
    /\ job \in [{"home", "backup"} -> Status \cup {"absent"}]

(* The inductive invariant.  A restore into an empty directory parks       *)
(* nothing.                                                                *)
IInv ==
    /\ RowsTyped
    /\ detached => parked = "none" /\ pc # "park"
    /\ ~detached => DiskIsSound /\ JournalIsSound /\ ExecuteIsSound /\ RecoveryIsSound

-----------------------------------------------------------------------------
(* The order of the checkpoints.                                           *)
LEMMA OrderFacts ==
    /\ \A p : AtOrAfter(p, "installed") => p \in FromInstalled
    /\ \A p : AtOrAfter(p, "reopened") => p \in FromInstalled
    /\ \A p, q : p \in FromInstalled /\ q \in DOMAIN Order /\ CanMove(p, q) => q \in FromInstalled
    /\ FromInstalled \subseteq RestorePhase /\ FromBackup \subseteq RestorePhase
    /\ "none" \notin RestorePhase
    /\ {"preflighted", "maintenance", "rolled_back", "recovery_required"} \subseteq RestorePhase
    /\ DOMAIN Order \subseteq RestorePhase
<1>0. DOMAIN Order = {"preflighted", "maintenance", "restore_pre_backup", "connections_closed",
                      "database_staged", "original_parked", "installed", "verified", "reopened",
                      "reconciled", "succeeded"}
  BY DEF Order
<1>1. /\ Order["preflighted"] = 1 /\ Order["maintenance"] = 2 /\ Order["restore_pre_backup"] = 3
      /\ Order["connections_closed"] = 4 /\ Order["database_staged"] = 5
      /\ Order["original_parked"] = 6 /\ Order["installed"] = 7 /\ Order["verified"] = 8
      /\ Order["reopened"] = 9 /\ Order["reconciled"] = 10 /\ Order["succeeded"] = 11
  BY DEF Order
<1>2. \A p \in DOMAIN Order : Order[p] >= 7 => p \in FromInstalled
  BY <1>0, <1>1 DEF FromInstalled
<1>3. \A p \in FromInstalled : Order[p] >= 7
  BY <1>1 DEF FromInstalled
<1>4. \A p \in DOMAIN Order : Order[p] \in Nat
  BY <1>0, <1>1
<1>5. \A p : AtOrAfter(p, "installed") => p \in FromInstalled
  BY <1>1, <1>2 DEF AtOrAfter
<1>6. \A p : AtOrAfter(p, "reopened") => p \in FromInstalled
  BY <1>1, <1>2, <1>4 DEF AtOrAfter
<1>7. \A p, q : p \in FromInstalled /\ q \in DOMAIN Order /\ CanMove(p, q) => q \in FromInstalled
  <2>1. SUFFICES ASSUME NEW p \in FromInstalled, NEW q \in DOMAIN Order, CanMove(p, q) PROVE q \in FromInstalled
    OBVIOUS
  <2>2. Order[q] = Order[p] + 1
    BY <1>0, <2>1 DEF CanMove
  <2>3. p \in DOMAIN Order
    BY <1>0 DEF FromInstalled
  <2> QED
    BY <2>2, <2>3, <1>2, <1>3, <1>4
<1>8. FromInstalled \subseteq RestorePhase /\ FromBackup \subseteq RestorePhase
  BY <1>0 DEF FromInstalled, FromBackup, RestorePhase
<1>9. "none" \notin RestorePhase
  BY <1>0 DEF RestorePhase
<1>10. {"preflighted", "maintenance", "rolled_back", "recovery_required"} \subseteq RestorePhase
  BY <1>0 DEF RestorePhase
<1> QED
  BY <1>5, <1>6, <1>7, <1>8, <1>9, <1>10 DEF RestorePhase

(* A step of Execute and its journal write: the journal is at the new      *)
(* checkpoint, with Execute's evidence, or it is as it was.                *)
LEMMA SwapFields ==
    ASSUME NEW at, NEW to \in RestorePhase, NEW next, NEW otherwise, Swap(at, to, next, otherwise)
    PROVE  /\ pc = at
           /\ \/ phase' = to /\ recorded' = orig /\ pc' \in {next, otherwise}
              \/ phase' = phase /\ recorded' = recorded /\ pc' = otherwise
  BY DEF Swap, Goto, journal

(* The sound states of a restore over a database.                          *)
Sound == DiskIsSound /\ JournalIsSound /\ ExecuteIsSound /\ RecoveryIsSound

(* What the invariant reads of the rows and of the service.                *)
disk == <<main, parked, phase, recorded, pre, job["backup"], stale, sealed>>
service == <<proc, maint, rpc, detached>>

LEMMA DiskStays ==
    ASSUME IInv, ~detached, UNCHANGED <<disk, proc, maint>>
    PROVE  DiskIsSound' /\ JournalIsSound'
  BY DEF IInv, DiskIsSound, JournalIsSound, Whole, Broken, Installed, Complete, disk

(* Execute runs only in a project that is up, with a journal.              *)
LEMMA ExecuteRuns ==
    ASSUME IInv, ~detached, pc # "idle" \/ proc = "up"
    PROVE  proc = "up" /\ rpc = "idle"
  BY DEF IInv, ExecuteIsSound, RecoveryIsSound

LEMMA ExecuteKept ==
    ASSUME IInv, ~detached, pc # "idle" \/ proc = "up", UNCHANGED rpc, DiskIsSound', JournalIsSound', ExecuteIsSound'
    PROVE  Sound'
<1>1. RecoveryIsSound'
  BY ExecuteRuns DEF RecoveryIsSound
<1> QED
  BY <1>1 DEF Sound

-----------------------------------------------------------------------------
(* The handlers, and the steps of Execute before anything is moved.        *)

LEMMA HandlersKept ==
    ASSUME IInv, ~detached, SubmitJob \/ CancelRead \/ CancelRequest
    PROVE  Sound'
<1>1. UNCHANGED <<disk, service, conn, preflight, pc, orig>>
  BY DEF SubmitJob, CancelRead, CancelRequest, SetJob, journal, files, rows, worker, recovery, bounds,
         disk, service, IInv, RowsTyped
<1>2. DiskIsSound' /\ JournalIsSound'
  BY <1>1, DiskStays DEF service
<1>3. ExecuteIsSound'
  BY <1>1 DEF IInv, ExecuteIsSound, Whole, Swapped, Installed, Complete, disk, service
<1>4. RecoveryIsSound'
  BY <1>1 DEF IInv, RecoveryIsSound, Openable, Whole, Installed, Complete, disk, service
<1> QED
  BY <1>2, <1>3, <1>4 DEF Sound

LEMMA SubmitJournalKept ==
    ASSUME IInv, ~detached, SubmitJournal
    PROVE  Sound'
<1>1. UNCHANGED <<main, parked, pre, job, stale, sealed, service, conn, preflight, pc, orig>>
  BY DEF SubmitJournal, files, worker, recovery, bounds, service
<1>2. CASE UNCHANGED journal
  <2>1. UNCHANGED <<disk, proc, maint>>
    BY <1>1, <1>2 DEF journal, disk, service
  <2>2. DiskIsSound' /\ JournalIsSound'
    BY <2>1, DiskStays
  <2>3. ExecuteIsSound'
    BY <1>1, <1>2 DEF IInv, ExecuteIsSound, Whole, Swapped, Installed, Complete, journal, service
  <2>4. RecoveryIsSound'
    BY <1>1, <1>2 DEF IInv, RecoveryIsSound, Openable, Whole, Installed, Complete, journal, service
  <2> QED
    BY <2>2, <2>3, <2>4 DEF Sound
<1>3. CASE phase = "none" /\ phase' = "preflighted" /\ recorded' = FALSE
  <2>1. parked # "original" /\ pc = "idle" /\ rpc \in {"idle", "observe"}
    BY <1>3 DEF IInv, JournalIsSound, ExecuteIsSound, RecoveryIsSound
  <2>2. DiskIsSound' /\ JournalIsSound'
    BY <2>1, <1>1, <1>3 DEF IInv, DiskIsSound, JournalIsSound, Whole, Broken, Installed, Complete,
                            FromBackup, FromInstalled
  <2>3. ExecuteIsSound'
    BY <2>1, <1>1, <1>3 DEF IInv, ExecuteIsSound, Whole, Early, Closed, Parked, Replaced, service
  <2>4. RecoveryIsSound'
    BY <2>1, <1>1, <1>3 DEF IInv, RecoveryIsSound, service
  <2> QED
    BY <2>2, <2>3, <2>4 DEF Sound
<1> QED
  BY <1>2, <1>3 DEF SubmitJournal

LEMMA LoadKept ==
    ASSUME IInv, ~detached, Load
    PROVE  Sound'
<1>u. UNCHANGED <<disk, service, conn, preflight>>
  BY DEF Load, journal, files, rows, recovery, bounds, disk, service
<1>1. DiskIsSound' /\ JournalIsSound'
  BY <1>u, DiskStays DEF service
<1>2. ExecuteIsSound'
  <2>1. preflight => Whole /\ conn /\ proc = "up"
    BY DEF IInv, ExecuteIsSound
  <2>2. \/ pc' = "idle"
        \/ pc' \in {"cancelJob", "claim", "check"} /\ preflight /\ phase # "none" /\ ~orig'
    BY DEF Load, Goto
  <2>3. CASE pc' = "idle"
    BY <2>1, <2>3, <1>u DEF ExecuteIsSound, Whole, Early, Closed, Parked, Replaced, disk, service
  <2>4. CASE pc' \in {"cancelJob", "claim", "check"} /\ preflight /\ phase # "none" /\ ~orig'
    BY <2>1, <2>4, <1>u DEF ExecuteIsSound, Whole, Installed, Early, Closed, Parked, Replaced, disk, service
  <2> QED
    BY <2>2, <2>3, <2>4
<1> QED
  BY <1>1, <1>2, <1>u, ExecuteKept DEF Load, service

(* The steps that look, take the maintenance session, or cancel.           *)
LEMMA BeforeKept ==
    ASSUME IInv, ~detached, Claim \/ Check \/ CancelJob
    PROVE  Sound'
<1>e. pc \in {"claim", "check", "cancelJob"} /\ Whole /\ preflight /\ ~orig /\ conn /\ proc = "up" /\ phase # "none"
  BY DEF Claim, Check, CancelJob, IInv, ExecuteIsSound, Early
<1>u. UNCHANGED <<disk, proc, rpc, conn, preflight, orig>>
  BY DEF Claim, Check, CancelJob, SetJob, journal, files, rows, ran, handlers, recovery, bounds, disk, IInv, RowsTyped
<1>1. /\ pc' \in {"idle", "check", "boundary", "failJob", "rolledBack"}
      /\ pc' = "boundary" => maint'
      /\ maint => maint'
  BY DEF Claim, Check, CancelJob, Goto
<1>2. DiskIsSound' /\ JournalIsSound'
  BY <1>1, <1>u DEF IInv, DiskIsSound, JournalIsSound, Whole, Broken, Installed, Complete, disk
<1>3. ExecuteIsSound'
  BY <1>e, <1>1, <1>u DEF ExecuteIsSound, Whole, Installed, Early, Closed, Parked, Replaced, disk
<1> QED
  BY <1>e, <1>2, <1>3, <1>u, ExecuteKept

-----------------------------------------------------------------------------
(* The journal writes of Execute.                                          *)

LEMMA SwapKept ==
    ASSUME IInv, ~detached, NEW at, at # "idle", NEW to \in RestorePhase, NEW next, NEW otherwise,
           Swap(at, to, next, otherwise), to \in FromBackup => pre,
           UNCHANGED <<main, parked, pre, job["backup"], stale, sealed, proc, maint>>
    PROVE  /\ DiskIsSound' /\ JournalIsSound'
           /\ phase' # "none" /\ proc = "up"
           /\ Installed => orig /\ recorded'
           /\ Whole' = Whole /\ Swapped' = Swapped /\ Complete' = Complete
           /\ (recorded' = orig /\ pc' \in {next, otherwise}) \/ pc' = otherwise
<1>1. /\ pc = at
      /\ \/ phase' = to /\ recorded' = orig /\ pc' \in {next, otherwise}
         \/ phase' = phase /\ recorded' = recorded /\ pc' = otherwise
  BY SwapFields
<1>2. phase # "none" /\ to # "none" /\ proc = "up" /\ (Installed => orig)
  BY <1>1, OrderFacts DEF IInv, ExecuteIsSound
<1>3. DiskIsSound'
  BY <1>1, <1>2 DEF IInv, DiskIsSound, Whole, Broken, Installed, Complete
<1>4. JournalIsSound'
  BY <1>1, <1>2 DEF IInv, DiskIsSound, JournalIsSound, Whole, Broken, Installed, Complete
<1> QED
  BY <1>1, <1>2, <1>3, <1>4 DEF Whole, Swapped, Installed, Complete

LEMMA CheckpointKept ==
    ASSUME IInv, ~detached, Checkpoint \/ Boundary
    PROVE  Sound'
<1>u. UNCHANGED <<main, parked, pre, job, stale, sealed, service, conn, preflight, orig>>
  BY DEF Checkpoint, Boundary, files, rows, ran, handlers, recovery, bounds, service
<1>d. UNCHANGED <<main, parked, pre, job["backup"], stale, sealed, proc, maint>> /\ UNCHANGED rpc
  BY <1>u DEF service
<1>1. ASSUME Swap("boundary", "maintenance", "pre", "recover") PROVE Sound'
  <2>1. pc = "boundary" /\ "maintenance" \in RestorePhase /\ "maintenance" \notin FromBackup
    BY <1>1, OrderFacts DEF Swap, FromBackup, FromInstalled
  <2>2. Whole /\ preflight /\ ~orig /\ conn /\ maint /\ proc = "up"
    BY <2>1 DEF IInv, ExecuteIsSound, Early
  <2>3. DiskIsSound' /\ JournalIsSound' /\ phase' # "none" /\ pc' \in {"pre", "recover"}
    BY <1>1, <1>d, <2>1, SwapKept
  <2>4. ExecuteIsSound'
    BY <1>u, <2>2, <2>3 DEF ExecuteIsSound, Whole, Installed, Early, Closed, Parked, Replaced, service
  <2> QED
    BY <1>d, <2>2, <2>3, <2>4, ExecuteKept
<1>2. ASSUME Swap("preDone", "restore_pre_backup", "close", "recover") PROVE Sound'
  <2>1. pc = "preDone" /\ "restore_pre_backup" \in RestorePhase
    BY <1>2, OrderFacts DEF Swap, FromBackup
  <2>2. Whole /\ preflight /\ ~orig /\ conn /\ maint /\ pre /\ proc = "up"
    BY <2>1 DEF IInv, ExecuteIsSound, Early
  <2>3. DiskIsSound' /\ JournalIsSound' /\ phase' # "none" /\ pc' \in {"close", "recover"}
    BY <1>2, <1>d, <2>1, <2>2, SwapKept
  <2>4. ExecuteIsSound'
    BY <1>u, <2>2, <2>3 DEF ExecuteIsSound, Whole, Installed, Early, Closed, Parked, Replaced, service
  <2> QED
    BY <1>d, <2>2, <2>3, <2>4, ExecuteKept
<1>3. ASSUME \/ Swap("closed", "connections_closed", "stage", "recover")
             \/ Swap("staged", "database_staged", "park", "recover")
      PROVE  Sound'
  <2>1. pc \in Closed /\ {"connections_closed", "database_staged"} \subseteq RestorePhase
    BY <1>3, OrderFacts DEF Swap, FromBackup, Closed
  <2>2. Whole /\ ~orig /\ ~conn /\ maint /\ pre /\ proc = "up" /\ ~preflight
    BY <2>1 DEF IInv, ExecuteIsSound, Closed
  <2>3. DiskIsSound' /\ JournalIsSound' /\ phase' # "none" /\ pc' \in {"stage", "park", "recover"}
    BY <1>3, <1>d, <2>1, <2>2, SwapKept
  <2>4. ExecuteIsSound'
    BY <1>u, <2>2, <2>3 DEF ExecuteIsSound, Whole, Installed, Early, Closed, Parked, Replaced, service
  <2> QED
    BY <1>d, <2>2, <2>3, <2>4, ExecuteKept
<1>4. ASSUME Swap("parked", "original_parked", "install", "recover") PROVE Sound'
  <2>1. pc = "parked" /\ "original_parked" \in RestorePhase
    BY <1>4, OrderFacts DEF Swap, FromBackup
  <2>2. Swapped /\ orig /\ maint /\ pre /\ proc = "up" /\ ~preflight
    BY <2>1 DEF IInv, ExecuteIsSound, Parked, Whole, Swapped
  <2>5. DiskIsSound' /\ JournalIsSound' /\ phase' # "none" /\ pc' \in {"install", "recover"}
    BY <1>4, <1>d, <2>1, <2>2, SwapKept
  <2>3. /\ DiskIsSound' /\ JournalIsSound' /\ phase' # "none" /\ pc' \in {"install", "recover"}
        /\ pc' = "install" => recorded' = orig
    BY <2>5, <1>4 DEF Swap, Goto, journal
  <2>4. ExecuteIsSound'
    BY <1>u, <2>2, <2>3 DEF ExecuteIsSound, Whole, Swapped, Installed, Early, Closed, Parked, Replaced, service
  <2> QED
    BY <1>d, <2>2, <2>3, <2>4, ExecuteKept
<1>5. ASSUME \/ Swap("installed", "installed", "verify", "recover")
             \/ Swap("verify", "verified", "reopen", "recover")
             \/ Swap("reopened", "reopened", "rjob", "recover")
             \/ Swap("reconciled", "reconciled", "succeed", "recover")
      PROVE  Sound'
  <2>1. /\ pc \in {"installed", "verify", "reopened", "reconciled"}
        /\ {"installed", "verified", "reopened", "reconciled"} \subseteq RestorePhase
        /\ pc = "reconciled" \/ ~Swap("reconciled", "reconciled", "succeed", "recover")
    BY <1>5, OrderFacts DEF Swap, FromInstalled
  <2>2. Installed /\ orig /\ maint /\ pre /\ proc = "up" /\ ~preflight
    BY <2>1 DEF IInv, ExecuteIsSound, JournalIsSound, Replaced, Whole, Installed
  <2>3. pc = "reconciled" => ~stale /\ sealed
    BY DEF IInv, ExecuteIsSound
  <2>4. /\ DiskIsSound' /\ JournalIsSound' /\ phase' # "none" /\ recorded'
        /\ pc' \in {"verify", "reopen", "rjob", "succeed", "recover"}
        /\ pc' = "succeed" => pc = "reconciled"
    <3>1. ASSUME NEW at \in {"installed", "verify", "reopened", "reconciled"},
                 NEW to \in {"installed", "verified", "reopened", "reconciled"},
                 NEW next \in {"verify", "reopen", "rjob", "succeed"}, next = "succeed" => at = "reconciled",
                 Swap(at, to, next, "recover")
          PROVE  /\ DiskIsSound' /\ JournalIsSound' /\ phase' # "none" /\ recorded'
                 /\ pc' \in {"verify", "reopen", "rjob", "succeed", "recover"}
                 /\ pc' = "succeed" => pc = "reconciled"
      <4>1. /\ DiskIsSound' /\ JournalIsSound' /\ phase' # "none" /\ recorded'
            /\ pc' \in {next, "recover"}
        BY <3>1, <1>d, <2>1, <2>2, SwapKept
      <4>2. pc = at
        BY <3>1 DEF Swap
      <4> QED
        BY <4>1, <4>2, <3>1
    <3> QED
      BY <1>5, <3>1
  <2>5. ExecuteIsSound'
    BY <1>u, <2>2, <2>3, <2>4 DEF ExecuteIsSound, Whole, Swapped, Installed, Early, Closed, Parked, Replaced, service
  <2> QED
    BY <1>d, <2>2, <2>4, <2>5, ExecuteKept
<1> QED
  BY <1>1, <1>2, <1>3, <1>4, <1>5 DEF Checkpoint, Boundary

LEMMA ResolvedKept ==
    ASSUME IInv, ~detached, JournalSucceeded \/ RolledBack \/ Required
    PROVE  Sound'
<1>u. UNCHANGED <<main, parked, pre, job, stale, sealed, service, conn, preflight, orig>>
  BY DEF JournalSucceeded, RolledBack, Required, files, rows, ran, handlers, recovery, bounds, service
<1>d. UNCHANGED <<main, parked, pre, job["backup"], stale, sealed, proc, maint>> /\ UNCHANGED rpc
  BY <1>u DEF service
<1>p. {"succeeded", "rolled_back", "recovery_required"} \subseteq RestorePhase
      /\ "rolled_back" \notin FromBackup /\ "recovery_required" \notin FromBackup
  BY OrderFacts DEF FromBackup, FromInstalled
<1>1. ASSUME Swap("succeeded", "succeeded", "cleanup", "idle") PROVE Sound'
  <2>1. pc = "succeeded"
    BY <1>1 DEF Swap
  <2>2. Installed /\ orig /\ maint /\ pre /\ proc = "up" /\ ~preflight /\ ~stale /\ sealed /\ job["backup"] = "succeeded"
    BY <2>1 DEF IInv, ExecuteIsSound, JournalIsSound, Replaced, Whole, Installed
  <2>3. DiskIsSound' /\ JournalIsSound' /\ phase' # "none" /\ pc' \in {"cleanup", "idle"} /\ recorded'
    BY <1>1, <1>d, <1>p, <2>2, SwapKept
  <2>4. ExecuteIsSound'
    BY <1>u, <2>2, <2>3 DEF ExecuteIsSound, Whole, Installed, Early, Closed, Parked, Replaced, service
  <2> QED
    BY <1>d, <2>2, <2>3, <2>4, ExecuteKept
<1>2. ASSUME Swap("rolledBack", "rolled_back", "release", "release") PROVE Sound'
  <2>1. pc = "rolledBack"
    BY <1>2 DEF Swap
  <2>2. Whole /\ proc = "up" /\ (preflight => conn)
    BY <2>1 DEF IInv, ExecuteIsSound
  <2>3. DiskIsSound' /\ JournalIsSound' /\ phase' # "none" /\ pc' = "release"
    BY <1>2, <1>d, <1>p, <2>2, SwapKept
  <2>4. ExecuteIsSound'
    BY <1>u, <2>2, <2>3 DEF ExecuteIsSound, Whole, Installed, Early, Closed, Parked, Replaced, service
  <2> QED
    BY <1>d, <2>2, <2>3, <2>4, ExecuteKept
<1>3. ASSUME Swap("required", "recovery_required", "idle", "idle") PROVE Sound'
  <2>1. pc = "required"
    BY <1>3 DEF Swap
  <2>2. proc = "up" /\ (preflight => Whole /\ conn)
    BY <2>1 DEF IInv, ExecuteIsSound
  <2>3. DiskIsSound' /\ JournalIsSound' /\ phase' # "none" /\ pc' = "idle"
    BY <1>3, <1>d, <1>p, <2>2, SwapKept
  <2>4. ExecuteIsSound'
    BY <1>u, <2>2, <2>3 DEF ExecuteIsSound, Whole, Installed, Early, Closed, Parked, Replaced, service
  <2> QED
    BY <1>d, <2>2, <2>3, <2>4, ExecuteKept
<1> QED
  BY <1>1, <1>2, <1>3 DEF JournalSucceeded, RolledBack, Required

-----------------------------------------------------------------------------
(* The steps of Execute that move files, up to the installation.           *)

LEMMA PrepareKept ==
    ASSUME IInv, ~detached, MandatoryBackup \/ CloseConnections \/ Stage
    PROVE  Sound'
<1>e. /\ pc \in {"pre", "close", "stage"} /\ Whole /\ ~orig /\ maint /\ proc = "up" /\ phase # "none"
      /\ pc # "pre" => pre
      /\ pc \in {"pre", "close"} => preflight /\ conn
      /\ pc = "stage" => ~conn /\ ~preflight
  BY DEF MandatoryBackup, CloseConnections, Stage, Works, Fails, IInv, ExecuteIsSound, Early, Closed
<1>u. UNCHANGED <<main, parked, phase, recorded, job, stale, sealed, proc, rpc, maint, orig>>
  BY DEF MandatoryBackup, CloseConnections, Stage, journal, files, rows, ran, handlers, recovery, bounds
<1>1. /\ pre => pre'
      /\ pc = "pre" => (pc' = "preDone" /\ pre') \/ pc' = "recover"
      /\ pc = "pre" => UNCHANGED <<conn, preflight>>
      /\ pc = "close" => (pc' = "closed" /\ ~conn' /\ ~preflight') \/ (pc' = "recover" /\ UNCHANGED <<conn, preflight>>)
      /\ pc = "stage" => pc' \in {"staged", "recover"} /\ UNCHANGED <<conn, preflight>>
      /\ pc # "pre" => UNCHANGED pre
  <2>1. CASE MandatoryBackup
    <3>1. pre' = (pre \/ ~detached) \/ pre' \in {pre, ~detached}
      BY <2>1 DEF MandatoryBackup
    <3>2. pre => pre'
      BY <3>1, Zenon
    <3>3. (Works("pre", "preDone") /\ pre' = (pre \/ ~detached)) \/ Fails("pre")
      BY <2>1 DEF MandatoryBackup
    <3>4. pc = "pre" /\ ((pc' = "preDone" /\ pre') \/ pc' = "recover")
      BY <3>3 DEF Works, Fails, Goto
    <3> QED
      BY <2>1, <3>2, <3>4 DEF MandatoryBackup, handlers
  <2>2. CASE CloseConnections
    <3>1. pc = "close" /\ UNCHANGED pre
      BY <2>2 DEF CloseConnections, Works, Fails
    <3>2. (pc' = "closed" /\ ~conn' /\ ~preflight') \/ (pc' = "recover" /\ UNCHANGED <<conn, preflight>>)
      BY <2>2 DEF CloseConnections, Works, Fails, Goto
    <3> QED
      BY <3>1, <3>2
  <2>3. CASE Stage
    BY <2>3 DEF Stage, Works, Fails, Goto, ran, handlers
  <2> QED
    BY <2>1, <2>2, <2>3
<1>2. DiskIsSound' /\ JournalIsSound'
  BY <1>1, <1>u DEF IInv, DiskIsSound, JournalIsSound, Whole, Broken, Installed, Complete
<1>3. ExecuteIsSound'
  BY <1>e, <1>1, <1>u DEF ExecuteIsSound, Whole, Installed, Early, Closed, Parked, Replaced
<1> QED
  BY <1>e, <1>2, <1>3, <1>u, ExecuteKept

LEMMA ParkKept ==
    ASSUME IInv, ~detached, ParkOriginal
    PROVE  Sound'
<1>e. /\ pc = "park" /\ Whole /\ ~orig /\ maint /\ proc = "up" /\ phase # "none" /\ pre
      /\ ~conn /\ ~preflight
  BY DEF ParkOriginal, Works, Fails, IInv, ExecuteIsSound, Closed
<1>u. UNCHANGED <<pre, phase, recorded, job, stale, sealed, proc, rpc, maint, conn, preflight>>
  BY DEF ParkOriginal, journal, rows, ran, handlers, recovery, bounds
<1>1. \/ pc' = "parked" /\ orig' /\ Swapped'
      \/ pc' = "recover" /\ ~orig' /\ (Whole' \/ Swapped')
  BY <1>e DEF ParkOriginal, Works, Fails, Goto, Whole, Swapped
<1>2. DiskIsSound' /\ JournalIsSound'
  BY <1>e, <1>1, <1>u DEF IInv, DiskIsSound, JournalIsSound, Whole, Swapped, Broken, Installed, Complete
<1>3. ExecuteIsSound'
  BY <1>e, <1>1, <1>u DEF ExecuteIsSound, Whole, Swapped, Installed, Early, Closed, Parked, Replaced
<1> QED
  BY <1>e, <1>2, <1>3, <1>u, ExecuteKept

LEMMA InstallKept ==
    ASSUME IInv, ~detached, Install
    PROVE  Sound'
<1>e. /\ pc = "install" /\ Swapped /\ orig /\ maint /\ proc = "up" /\ phase # "none" /\ pre /\ recorded
      /\ ~preflight
  BY DEF Install, Works, Fails, IInv, ExecuteIsSound, Parked, Whole, Swapped
<1>u. UNCHANGED <<parked, pre, phase, recorded, job, stale, sealed, proc, rpc, maint, conn, preflight, orig>>
  BY DEF Install, journal, rows, ran, handlers, recovery, bounds
<1>1. \/ pc' = "installed" /\ Installed'
      \/ pc' = "recover" /\ (Installed' \/ Swapped')
  BY <1>e, <1>u DEF Install, Works, Fails, Goto, Installed, Swapped
<1>2. DiskIsSound' /\ JournalIsSound'
  BY <1>e, <1>1, <1>u DEF IInv, DiskIsSound, JournalIsSound, Whole, Swapped, Broken, Installed, Complete
<1>3. ExecuteIsSound'
  BY <1>e, <1>1, <1>u DEF ExecuteIsSound, Whole, Swapped, Installed, Early, Closed, Parked, Replaced
<1> QED
  BY <1>e, <1>2, <1>3, <1>u, ExecuteKept

(* The steps on the restored database.                                     *)
LEMMA ReconcileKept ==
    ASSUME IInv, ~detached,
           VerifyFails \/ Reopen \/ ReconcileJob \/ ReconcileJobs \/ ReconcileBackup \/ Succeed
    PROVE  Sound'
<1>e. /\ pc \in {"verify", "reopen", "rjob", "rjobs", "rbackup", "succeed"}
      /\ Installed /\ orig /\ maint /\ proc = "up" /\ phase # "none" /\ pre /\ ~preflight
      /\ pc \in {"rbackup", "succeed"} => ~stale
      /\ pc = "succeed" => sealed
  BY DEF VerifyFails, Reopen, ReconcileJob, ReconcileJobs, ReconcileBackup, Succeed, Works, Fails,
         IInv, ExecuteIsSound, JournalIsSound, Replaced, Whole, Installed
<1>u. UNCHANGED <<main, parked, pre, phase, recorded, proc, rpc, maint, preflight, orig>>
  BY DEF VerifyFails, Reopen, ReconcileJob, ReconcileJobs, ReconcileBackup, Succeed, journal, files,
         ran, handlers, recovery, bounds
<1>1. /\ pc' \in {"recover", "reopened", "rjobs", "rbackup", "reconciled", "succeeded"}
      /\ pc' = "rbackup" => ~stale'
      /\ pc' = "reconciled" => ~stale' /\ sealed'
      /\ pc' = "succeeded" => ~stale' /\ sealed'
  <2>1. CASE VerifyFails \/ Reopen \/ ReconcileJob
    BY <2>1 DEF VerifyFails, Reopen, ReconcileJob, Works, Fails, Goto
  <2>2. CASE ReconcileJobs
    BY <2>2 DEF ReconcileJobs, Works, Fails, Goto
  <2>3. CASE ReconcileBackup
    BY <1>e, <2>3 DEF ReconcileBackup, Works, Fails, Goto
  <2>4. CASE Succeed
    BY <1>e, <2>4 DEF Succeed, Works, Fails, Goto
  <2> QED
    BY <2>1, <2>2, <2>3, <2>4
<1>3. pc' = "succeeded" => job'["backup"] = "succeeded"
  BY <1>e DEF VerifyFails, Reopen, ReconcileJob, ReconcileJobs, ReconcileBackup, Succeed, Works, Fails,
         Goto, SetJob, IInv, RowsTyped
<1>2. DiskIsSound' /\ JournalIsSound'
  BY <1>e, <1>u DEF IInv, DiskIsSound, JournalIsSound, Installed
<1>4. ExecuteIsSound'
  BY <1>e, <1>1, <1>3, <1>u DEF ExecuteIsSound, Whole, Swapped, Installed, Early, Closed, Parked, Replaced
<1> QED
  BY <1>e, <1>2, <1>4, <1>u, ExecuteKept

(* The end of Execute.                                                     *)
LEMMA CleanupKept ==
    ASSUME IInv, ~detached, Cleanup
    PROVE  Sound'
<1>e. /\ pc = "cleanup" /\ Installed /\ orig /\ maint /\ proc = "up" /\ phase # "none" /\ pre /\ ~preflight
      /\ ~stale /\ sealed /\ job["backup"] = "succeeded"
  BY DEF Cleanup, IInv, ExecuteIsSound, JournalIsSound, Replaced, Whole, Installed
<1>u. UNCHANGED <<main, pre, phase, recorded, job, stale, sealed, proc, rpc, maint, preflight, orig>>
  BY DEF Cleanup, journal, rows, ran, handlers, recovery, bounds
<1>1. \/ pc' = "release" /\ Complete'
      \/ pc' = "idle" /\ (Complete' \/ Installed')
  BY <1>e, <1>u DEF Cleanup, Goto, Installed, Complete
<1>2. DiskIsSound' /\ JournalIsSound'
  BY <1>e, <1>1, <1>u DEF IInv, DiskIsSound, JournalIsSound, Installed, Complete
<1>3. ExecuteIsSound'
  BY <1>e, <1>1, <1>u DEF ExecuteIsSound, Whole, Complete, Installed, Early, Closed, Parked, Replaced
<1> QED
  BY <1>e, <1>2, <1>3, <1>u, ExecuteKept

LEMMA ReleaseKept ==
    ASSUME IInv, ~detached, Release \/ Delete
    PROVE  Sound'
<1>e. /\ pc \in {"release", "delete"} /\ (Whole \/ Complete) /\ proc = "up" /\ rpc = "idle" /\ phase # "none"
      /\ preflight => conn /\ Whole
  BY DEF Release, Delete, IInv, ExecuteIsSound, RecoveryIsSound
<1>u. UNCHANGED <<main, parked, pre, job, stale, sealed, proc, rpc, conn, preflight, orig>>
  BY DEF Release, Delete, files, rows, ran, handlers, recovery, bounds
<1>1. \/ pc' = "delete" /\ UNCHANGED <<phase, recorded>>
      \/ pc' = "idle" /\ (UNCHANGED <<phase, recorded>> \/ phase' = "none")
  BY DEF Release, Delete, Goto, journal
<1>2. DiskIsSound' /\ JournalIsSound'
  BY <1>e, <1>1, <1>u, OrderFacts DEF IInv, DiskIsSound, JournalIsSound, Whole, Installed, Complete
<1>3. ExecuteIsSound'
  BY <1>e, <1>1, <1>u DEF ExecuteIsSound, Whole, Complete, Installed, Early, Closed, Parked, Replaced
<1> QED
  BY <1>e, <1>2, <1>3, <1>u, ExecuteKept

(* The way back to the original.                                           *)
LEMMA RecoverKept ==
    ASSUME IInv, ~detached, Recover
    PROVE  Sound'
<1>e. /\ pc = "recover" /\ proc = "up" /\ phase # "none"
      /\ IF orig THEN Swapped \/ Installed ELSE Whole \/ (Swapped /\ ~conn)
      /\ preflight => Whole /\ conn
      /\ Installed => orig
  BY DEF Recover, IInv, ExecuteIsSound
<1>u. UNCHANGED <<disk, proc, maint, rpc, conn, preflight, orig>>
  BY DEF Recover, journal, rows, ran, handlers, recovery, bounds, disk
<1>1. \/ pc' = "required"
      \/ pc' = "rollback" /\ orig
      \/ pc' = "failJob" /\ ~orig /\ conn
      \/ pc' = "reopenOriginal" /\ ~orig
  BY DEF Recover, Goto
<1>2. DiskIsSound' /\ JournalIsSound'
  BY <1>u, DiskStays
<1>3. ExecuteIsSound'
  BY <1>e, <1>1, <1>u DEF ExecuteIsSound, Whole, Swapped, Installed, Early, Closed, Parked, Replaced, disk
<1> QED
  BY <1>e, <1>2, <1>3, <1>u, ExecuteKept

LEMMA RollbackKept ==
    ASSUME IInv, ~detached, Rollback \/ RestoreOriginal
    PROVE  Sound'
<1>e. /\ pc \in {"rollback", "restoreOriginal"} /\ proc = "up" /\ phase # "none"
      /\ (pc = "rollback" /\ Installed) \/ Swapped
      /\ ~preflight
      /\ Installed => orig
  BY DEF Rollback, RestoreOriginal, IInv, ExecuteIsSound, Whole, Swapped, Installed
<1>u. UNCHANGED <<phase, recorded, pre, job, stale, sealed, proc, maint, rpc, conn, preflight, orig>>
  BY DEF Rollback, RestoreOriginal, journal, rows, ran, handlers, recovery, bounds
<1>1. \/ pc' = "restoreOriginal" /\ Swapped'
      \/ pc' = "required" /\ (Swapped' \/ Whole' \/ (Installed /\ Installed'))
      \/ pc' = "reopenOriginal" /\ Whole'
  BY <1>e, <1>u DEF Rollback, RestoreOriginal, Goto, files, Whole, Swapped, Installed
<1>2. DiskIsSound' /\ JournalIsSound'
  BY <1>e, <1>1, <1>u DEF IInv, DiskIsSound, JournalIsSound, Whole, Swapped, Broken, Installed, Complete
<1>3. ExecuteIsSound'
  BY <1>e, <1>1, <1>u DEF ExecuteIsSound, Whole, Swapped, Installed, Early, Closed, Parked, Replaced
<1> QED
  BY <1>e, <1>2, <1>3, <1>u, ExecuteKept

LEMMA ReopenOriginalKept ==
    ASSUME IInv, ~detached, ReopenOriginal \/ FailJob
    PROVE  Sound'
<1>e. /\ pc \in {"reopenOriginal", "failJob"} /\ proc = "up" /\ phase # "none"
      /\ (pc = "reopenOriginal" /\ Swapped) \/ Whole
      /\ preflight => Whole /\ conn
  BY DEF ReopenOriginal, FailJob, IInv, ExecuteIsSound
<1>u. UNCHANGED <<parked, phase, recorded, pre, stale, sealed, proc, maint, rpc, preflight, orig>>
  BY DEF ReopenOriginal, FailJob, journal, files, rows, ran, handlers, recovery, bounds
<1>j. job'["backup"] = job["backup"]
  BY DEF ReopenOriginal, FailJob, rows, SetJob, IInv, RowsTyped
<1>1. \/ pc' = "required" /\ (Whole' \/ Broken')
      \/ pc' \in {"failJob", "rolledBack", "release"} /\ Whole'
  BY <1>e, <1>u DEF ReopenOriginal, FailJob, Goto, Openable, files, Whole, Swapped, Broken
<1>3. preflight => Whole' /\ conn'
  BY <1>e, <1>u DEF ReopenOriginal, FailJob, Openable, files, Whole, Swapped
<1>2. DiskIsSound' /\ JournalIsSound'
  BY <1>e, <1>1, <1>u, <1>j DEF IInv, DiskIsSound, JournalIsSound, Whole, Swapped, Broken, Installed, Complete
<1>4. ExecuteIsSound'
  BY <1>e, <1>1, <1>3, <1>u DEF ExecuteIsSound, Whole, Swapped, Broken, Installed, Early, Closed, Parked, Replaced
<1> QED
  BY <1>e, <1>2, <1>4, <1>u, ExecuteKept

LEMMA RestartKept ==
    ASSUME IInv, ~detached, Restart
    PROVE  Sound'
<1>1. pc' = "idle" /\ proc' = "recovering" /\ rpc' = "observe" /\ preflight' = FALSE
  BY DEF Restart
<1>u. UNCHANGED disk
  BY DEF Restart, journal, rows, disk
<1>2. DiskIsSound' /\ JournalIsSound'
  BY <1>1, <1>u DEF IInv, DiskIsSound, JournalIsSound, Whole, Broken, Installed, Complete, disk
<1>3. ExecuteIsSound'
  BY <1>1 DEF ExecuteIsSound, Early, Closed, Parked, Replaced
<1>4. RecoveryIsSound'
  BY <1>1, <1>u DEF RecoveryIsSound
<1> QED
  BY <1>2, <1>3, <1>4 DEF Sound

-----------------------------------------------------------------------------
(* The recovery that runs before the project opens.                        *)

LEMMA RecoveryKept ==
    ASSUME IInv, ~detached, rpc # "idle", UNCHANGED <<pc, preflight>>,
           DiskIsSound', JournalIsSound', RecoveryIsSound'
    PROVE  Sound'
<1>1. pc' = "idle" /\ ~preflight'
  BY DEF IInv, RecoveryIsSound
<1>2. ExecuteIsSound'
  BY <1>1 DEF ExecuteIsSound, Early, Closed, Parked, Replaced
<1> QED
  BY <1>2 DEF Sound

(* What every step of recovery finds.                                      *)
Recovering == proc = "recovering" /\ pc = "idle" /\ ~preflight

LEMMA ObserveKept ==
    ASSUME IInv, ~detached, Observe
    PROVE  Sound'
<1>e. rpc = "observe" /\ Recovering
  BY DEF Observe, IInv, RecoveryIsSound, Recovering
<1>u. UNCHANGED <<disk, pc, preflight>>
  BY DEF Observe, journal, files, rows, calm, handlers, worker, disk
<1>1. \/ phase = "none" /\ proc' = "up" /\ rpc' = "idle"
      \/ proc' = "held" /\ rpc' = "idle"
      \/ proc' = proc /\ rpc' = "open" /\ phase # "none" /\ phase \in FromInstalled
      \/ proc' = proc /\ rpc' = "rollback" /\ phase # "none" /\ parked = "original"
      \/ proc' = proc /\ rpc' = "openOriginal" /\ phase # "none" /\ ~Installed
  BY OrderFacts DEF Observe, RReturn, RGoto, OriginalValid, Installed
<1>2. DiskIsSound' /\ JournalIsSound'
  BY <1>e, <1>1, <1>u DEF IInv, DiskIsSound, JournalIsSound, Whole, Broken, Installed, Complete, disk, Recovering
<1>3. RecoveryIsSound'
  BY <1>e, <1>1, <1>u DEF RecoveryIsSound, Recovering, Whole, Installed, Complete, disk
<1> QED
  BY <1>e, <1>2, <1>3, <1>u, RecoveryKept

LEMMA OpenInstalledKept ==
    ASSUME IInv, ~detached, OpenInstalled
    PROVE  Sound'
<1>e. /\ rpc = "open" /\ Recovering /\ phase # "none" /\ phase \in FromInstalled
  BY DEF OpenInstalled, RFails, IInv, RecoveryIsSound, Recovering
<1>u. UNCHANGED <<parked, phase, recorded, pre, job, stale, sealed, pc, preflight>>
  BY DEF OpenInstalled, journal, rows, calm, handlers, worker
<1>1. \/ rpc' = "rjob" /\ Openable' /\ UNCHANGED <<main, proc>>
      \/ rpc' = "error" /\ UNCHANGED proc /\ (UNCHANGED main \/ (~Openable /\ main' = "blank"))
  BY DEF OpenInstalled, RFails, RGoto, Openable
<1>2. DiskIsSound' /\ JournalIsSound'
  BY <1>e, <1>1, <1>u DEF IInv, DiskIsSound, JournalIsSound, Whole, Broken, Installed, Complete, Openable, Recovering
<1>3. RecoveryIsSound'
  BY <1>e, <1>1, <1>u DEF RecoveryIsSound, Recovering
<1> QED
  BY <1>e, <1>2, <1>3, <1>u, RecoveryKept

(* The reconciliation, on whichever database the directory holds.          *)
LEMMA RecoverRowsKept ==
    ASSUME IInv, ~detached, RecoverJob \/ RecoverJobs \/ RecoverBackup \/ RecoverSucceed
    PROVE  Sound'
<1>e. /\ rpc \in {"rjob", "rjobs", "rbackup", "succeed"}
      /\ Recovering /\ phase # "none" /\ phase \in FromInstalled /\ Openable
      /\ main = "backup" => (rpc \in {"rbackup", "succeed"} => ~stale) /\ (rpc = "succeed" => sealed)
  BY DEF RecoverJob, RecoverJobs, RecoverBackup, RecoverSucceed, RWorks, RFails, IInv, RecoveryIsSound, Recovering
<1>u. UNCHANGED <<main, parked, phase, recorded, pre, pc, preflight>>
  BY DEF RecoverJob, RecoverJobs, RecoverBackup, RecoverSucceed, journal, files, rows, calm, handlers, worker
<1>p. UNCHANGED proc
  BY DEF RecoverJob, RecoverJobs, RecoverBackup, RecoverSucceed, RWorks, RFails, RGoto
<1>r. /\ rpc' \in {"rjobs", "rbackup", "succeed", "advance", "error"}
      /\ main = "backup" /\ rpc' \in {"rbackup", "succeed", "advance"} => ~stale'
      /\ main = "backup" /\ rpc' \in {"succeed", "advance"} => sealed'
  <2>1. CASE RecoverJob
    BY <2>1 DEF RecoverJob, RWorks, RFails, RGoto
  <2>2. CASE RecoverJobs
    BY <2>2 DEF RecoverJobs, RWorks, RFails, RGoto
  <2>3. CASE RecoverBackup
    BY <1>e, <2>3 DEF RecoverBackup, RWorks, RFails, RGoto
  <2>4. CASE RecoverSucceed
    BY <1>e, <2>4 DEF RecoverSucceed, RWorks, RFails, RGoto
  <2> QED
    BY <2>1, <2>2, <2>3, <2>4
<1>k. ~stale => ~stale'
  <2>1. CASE RecoverJobs
    BY <2>1 DEF RecoverJobs
  <2> QED
    BY <2>1 DEF RecoverJob, RecoverBackup, RecoverSucceed
<1>s. sealed => sealed'
  <2>1. CASE RecoverBackup
    BY <2>1 DEF RecoverBackup
  <2> QED
    BY <2>1 DEF RecoverJob, RecoverJobs, RecoverSucceed
<1>j. job["backup"] = "succeeded" => job'["backup"] = "succeeded"
  <2>0. job \in [{"home", "backup"} -> Status \cup {"absent"}]
    BY DEF IInv, RowsTyped
  <2>h. Here \in {"home", "backup"}
    BY DEF Here
  <2>1. job' = job \/ \E s : job' = [job EXCEPT ![Here] = s] /\ (job[Here] = "absent" \/ s = "succeeded")
    BY DEF RecoverJob, RecoverJobs, RecoverBackup, RecoverSucceed, SetJob, rows
  <2> QED
    BY <2>0, <2>1, <2>h
<1>a. main = "backup" /\ rpc' = "advance" => job'["backup"] = "succeeded"
  <2>0. job \in [{"home", "backup"} -> Status \cup {"absent"}]
    BY DEF IInv, RowsTyped
  <2>1. CASE RecoverSucceed
    <3>1. rpc' = "advance" => \/ job[Here] = "succeeded" /\ job' = job
                              \/ job' = [job EXCEPT ![Here] = "succeeded"]
      BY <2>1 DEF RecoverSucceed, RWorks, RFails, RGoto, SetJob
    <3>2. main = "backup" => Here = "backup"
      BY DEF Here
    <3> QED
      BY <2>0, <3>1, <3>2
  <2> QED
    BY <2>1 DEF RecoverJob, RecoverJobs, RecoverBackup, RWorks, RFails, RGoto
<1>2. DiskIsSound' /\ JournalIsSound'
  BY <1>e, <1>u, <1>p, <1>k, <1>s, <1>j DEF IInv, DiskIsSound, JournalIsSound, Whole, Broken, Installed, Complete, Recovering
<1>3. RecoveryIsSound'
  BY <1>e, <1>u, <1>p, <1>r, <1>a DEF RecoveryIsSound, Recovering, Openable
<1> QED
  BY <1>e, <1>2, <1>3, <1>u, RecoveryKept

LEMMA RecoverAdvanceKept ==
    ASSUME IInv, ~detached, RecoverAdvance
    PROVE  Sound'
<1>e. /\ rpc = "advance" /\ Recovering /\ phase \in FromInstalled /\ Openable /\ phase # "none"
      /\ main = "backup" => ~stale /\ sealed /\ job["backup"] = "succeeded"
  BY DEF RecoverAdvance, RFails, IInv, RecoveryIsSound, Recovering
<1>u. UNCHANGED <<main, parked, recorded, pre, job, stale, sealed, proc, pc, preflight>>
  BY DEF RecoverAdvance, RGoto, RFails, journal, files, rows, calm, handlers, worker
<1>1. \/ rpc' = "cleanup" /\ phase = "succeeded" /\ phase' = phase
      \/ rpc' = "error" /\ phase' = phase
      \/ rpc' = "advance" /\ phase' \in FromInstalled
  BY <1>e, OrderFacts DEF RecoverAdvance, RGoto, RFails
<1>4. phase' # "none" /\ phase' \in FromInstalled
  BY <1>e, <1>1, OrderFacts
<1>2. DiskIsSound' /\ JournalIsSound'
  <2>1. pre
    BY <1>e DEF IInv, JournalIsSound, FromBackup
  <2> QED
    BY <1>e, <1>4, <1>u, <2>1 DEF IInv, DiskIsSound, JournalIsSound, Whole, Broken, Installed, Complete, Recovering
<1>3. RecoveryIsSound'
  BY <1>e, <1>1, <1>4, <1>u DEF RecoveryIsSound, Recovering, Openable
<1> QED
  BY <1>e, <1>2, <1>3, <1>u, RecoveryKept

(* The parked original is removed, then the journal.                       *)
LEMMA RecoverCleanupKept ==
    ASSUME IInv, ~detached, RecoverCleanup
    PROVE  Sound'
<1>e. /\ rpc = "cleanup" /\ Recovering /\ Openable /\ phase = "succeeded" /\ pre
      /\ main = "backup" => ~stale /\ sealed /\ job["backup"] = "succeeded"
      /\ main = "original" => parked = "none"
  BY DEF RecoverCleanup, RWorks, RFails, IInv, RecoveryIsSound, Recovering, JournalIsSound, FromBackup,
         FromInstalled, DiskIsSound, Whole, Broken, Installed, Complete
<1>u. UNCHANGED <<main, phase, recorded, pre, job, stale, sealed, proc, pc, preflight>>
  BY DEF RecoverCleanup, RWorks, RFails, RGoto, journal, rows, calm, handlers, worker
<1>1. \/ rpc' = "record" /\ parked' = "none"
      \/ rpc' = "error" /\ (parked' = parked \/ parked' = "none")
  BY DEF RecoverCleanup, RWorks, RFails, RGoto
<1>2. DiskIsSound' /\ JournalIsSound'
  BY <1>e, <1>1, <1>u DEF IInv, DiskIsSound, JournalIsSound, Whole, Broken, Installed, Complete, Openable, Recovering
<1>3. RecoveryIsSound'
  BY <1>e, <1>1, <1>u DEF RecoveryIsSound, Recovering, Openable
<1> QED
  BY <1>e, <1>2, <1>3, <1>u, RecoveryKept

LEMMA RecoverDeleteKept ==
    ASSUME IInv, ~detached, RecoverDelete \/ RecoverDeleteRolledBack
    PROVE  Sound'
<1>e. rpc \in {"record", "delete"} /\ Recovering /\ (Whole \/ Complete) /\ parked = "none"
  BY DEF RecoverDelete, RecoverDeleteRolledBack, RFails, IInv, RecoveryIsSound, Recovering, Openable,
         DiskIsSound, Whole, Broken, Installed, Complete
<1>u. UNCHANGED <<main, parked, pre, job, stale, sealed, pc, preflight>>
  BY DEF RecoverDelete, RecoverDeleteRolledBack, files, rows, calm, handlers, worker
<1>1. \/ rpc' = "idle" /\ (phase' = "none" \/ phase' = phase)
      \/ rpc' = "error" /\ phase' = phase /\ proc' = proc /\ phase # "none"
  BY DEF RecoverDelete, RecoverDeleteRolledBack, RReturn, RFails, RGoto, journal, IInv, RecoveryIsSound
<1>2. DiskIsSound' /\ JournalIsSound'
  BY <1>e, <1>1, <1>u, OrderFacts DEF IInv, DiskIsSound, JournalIsSound, Whole, Installed, Complete, Recovering
<1>3. RecoveryIsSound'
  BY <1>e, <1>1, <1>u DEF RecoveryIsSound, Recovering
<1> QED
  BY <1>e, <1>2, <1>3, <1>u, RecoveryKept

(* Back to the parked original.                                            *)
LEMMA RecoverErrorKept ==
    ASSUME IInv, ~detached, RecoverError
    PROVE  Sound'
<1>e. rpc = "error" /\ Recovering /\ phase # "none"
  BY DEF RecoverError, IInv, RecoveryIsSound, Recovering
<1>u. UNCHANGED <<disk, pc, preflight>>
  BY DEF RecoverError, journal, files, rows, calm, handlers, worker, disk
<1>1. \/ rpc' = "rollback" /\ proc' = proc /\ parked = "original"
      \/ rpc' = "idle" /\ proc' = "held"
  BY DEF RecoverError, RReturn, OriginalValid
<1>2. DiskIsSound' /\ JournalIsSound'
  BY <1>e, <1>1, <1>u DEF IInv, DiskIsSound, JournalIsSound, Whole, Broken, Installed, Complete, disk, Recovering
<1>3. RecoveryIsSound'
  BY <1>e, <1>1, <1>u DEF RecoveryIsSound, Recovering, disk
<1> QED
  BY <1>e, <1>2, <1>3, <1>u, RecoveryKept

LEMMA RecoverRollbackKept ==
    ASSUME IInv, ~detached, RecoverRollback \/ RecoverOriginal
    PROVE  Sound'
<1>e. rpc \in {"rollback", "restoreOriginal"} /\ Recovering /\ phase # "none" /\ parked = "original"
  BY DEF RecoverRollback, RecoverOriginal, IInv, RecoveryIsSound, Recovering
<1>u. UNCHANGED <<phase, recorded, pre, job, stale, sealed, pc, preflight>>
  BY DEF RecoverRollback, RecoverOriginal, journal, rows, calm, handlers, worker
<1>1. \/ main' = "none" /\ UNCHANGED parked
      \/ UNCHANGED <<main, parked>>
      \/ main' = "original" /\ parked' = "none"
  BY DEF RecoverRollback, RecoverOriginal
<1>4. \/ rpc' = "idle" /\ proc' = "held"
      \/ rpc' = "restoreOriginal" /\ UNCHANGED <<parked, proc>>
      \/ rpc' = "openOriginal" /\ main' = "original" /\ UNCHANGED proc
  BY DEF RecoverRollback, RecoverOriginal, RGoto, RReturn
<1>2. DiskIsSound' /\ JournalIsSound'
  BY <1>e, <1>1, <1>4, <1>u DEF IInv, DiskIsSound, JournalIsSound, Whole, Broken, Installed, Complete, Recovering
<1>3. RecoveryIsSound'
  BY <1>e, <1>4, <1>u DEF RecoveryIsSound, Recovering, Installed
<1> QED
  BY <1>e, <1>2, <1>3, <1>u, RecoveryKept

LEMMA OpenOriginalKept ==
    ASSUME IInv, ~detached, OpenOriginal
    PROVE  Sound'
<1>e. rpc = "openOriginal" /\ Recovering /\ phase # "none" /\ ~Installed
  BY DEF OpenOriginal, IInv, RecoveryIsSound, Recovering
<1>u. UNCHANGED <<parked, phase, recorded, pre, job, stale, sealed, pc, preflight>>
  BY DEF OpenOriginal, journal, rows, calm, handlers, worker
<1>1. \/ rpc' = "fail" /\ UNCHANGED <<main, proc>> /\ Openable
      \/ rpc' = "idle" /\ proc' = "held" /\ (UNCHANGED main \/ (~Openable /\ main' = "blank"))
  BY DEF OpenOriginal, RReturn
<1>2. DiskIsSound' /\ JournalIsSound'
  BY <1>e, <1>1, <1>u DEF IInv, DiskIsSound, JournalIsSound, Whole, Broken, Installed, Complete, Openable, Recovering
<1>4. Openable => Whole \/ Complete
  BY <1>e DEF IInv, DiskIsSound, Whole, Broken, Complete, Openable
<1>3. RecoveryIsSound'
  BY <1>e, <1>1, <1>4, <1>u DEF RecoveryIsSound, Recovering, Whole, Complete
<1> QED
  BY <1>e, <1>2, <1>3, <1>u, RecoveryKept

(* The Job of a restore that is rolled back fails; one that succeeded in   *)
(* the restored database keeps its outcome.                                *)
LEMMA RecoverFailKept ==
    ASSUME IInv, ~detached, RecoverFail
    PROVE  Sound'
<1>e. rpc = "fail" /\ Recovering /\ phase # "none" /\ (Whole \/ Complete)
  BY DEF RecoverFail, IInv, RecoveryIsSound, Recovering
<1>t. job \in [{"home", "backup"} -> Status \cup {"absent"}]
  BY DEF IInv, RowsTyped
<1>u. UNCHANGED <<main, parked, phase, recorded, pre, stale, sealed, pc, preflight>>
  BY DEF RecoverFail, journal, files, calm, handlers, worker
<1>1. \/ /\ rpc' = "rolledBack" /\ UNCHANGED proc /\ job' = [job EXCEPT ![Here] = "failed"]
         /\ job[Here] = "failed" \/ ~Terminal(job[Here])
      \/ rpc' = "idle" /\ proc' = "held" /\ job' = job
  BY DEF RecoverFail, RReturn, RGoto, SetJob
<1>5. Complete => Here = "backup" /\ job[Here] = "succeeded" /\ Terminal(job[Here])
  BY DEF Complete, Here, Terminal
<1>6. Whole => Here = "home"
  BY DEF Whole, Here
<1>4. /\ job'["backup"] = job["backup"]
      /\ rpc' = "rolledBack" => Whole'
  BY <1>e, <1>t, <1>1, <1>5, <1>6, <1>u DEF Whole
<1>2. DiskIsSound' /\ JournalIsSound'
  BY <1>e, <1>1, <1>4, <1>u DEF IInv, DiskIsSound, JournalIsSound, Whole, Installed, Complete, Recovering
<1>3. RecoveryIsSound'
  BY <1>e, <1>1, <1>4, <1>u DEF RecoveryIsSound, Recovering, Whole
<1> QED
  BY <1>e, <1>2, <1>3, <1>u, RecoveryKept

LEMMA RecoverRolledBackKept ==
    ASSUME IInv, ~detached, RecoverRolledBack
    PROVE  Sound'
<1>e. rpc = "rolledBack" /\ Recovering /\ phase # "none" /\ Whole
  BY DEF RecoverRolledBack, IInv, RecoveryIsSound, Recovering
<1>u. UNCHANGED <<main, parked, recorded, pre, job, stale, sealed, pc, preflight>>
  BY DEF RecoverRolledBack, files, rows, calm, handlers, worker
<1>1. /\ phase' = phase \/ phase' = "rolled_back"
      /\ (rpc' = "delete" /\ UNCHANGED proc) \/ (rpc' = "idle" /\ proc' = "held")
  BY DEF RecoverRolledBack, RReturn, RGoto
<1>4. phase' # "none" /\ (phase' \in FromBackup => phase \in FromBackup)
  BY <1>e, <1>1, OrderFacts DEF FromBackup, FromInstalled
<1>2. DiskIsSound' /\ JournalIsSound'
  BY <1>e, <1>1, <1>4, <1>u DEF IInv, DiskIsSound, JournalIsSound, Whole, Installed, Complete, Recovering
<1>3. RecoveryIsSound'
  BY <1>e, <1>1, <1>4, <1>u DEF RecoveryIsSound, Recovering, Whole
<1> QED
  BY <1>e, <1>2, <1>3, <1>u, RecoveryKept

-----------------------------------------------------------------------------
(* Every step.                                                             *)

LEMMA TargetStays ==
    ASSUME Next PROVE detached' = detached
<1>1. CASE SubmitJob \/ SubmitJournal \/ CancelDetached \/ CancelRead \/ CancelRequest \/ Restart
  BY <1>1 DEF SubmitJob, SubmitJournal, CancelDetached, CancelRead, CancelRequest, Restart, bounds
<1>2. CASE Execute
  BY <1>2 DEF Execute, Load, Claim, Check, Boundary, Checkpoint, MandatoryBackup, CloseConnections, Stage,
         ParkOriginal, Install, VerifyFails, Reopen, ReconcileJob, ReconcileJobs, ReconcileBackup, Succeed,
         JournalSucceeded, Cleanup, Release, Delete, CancelJob, Recover, Rollback, RestoreOriginal,
         ReopenOriginal, FailJob, RolledBack, Required, ran, bounds
<1>3. CASE StartupRecovery
  BY <1>3 DEF StartupRecovery, Observe, ObserveEmpty, EmptyRolledBack, OpenInstalled, RecoverJob, RecoverJobs,
         RecoverBackup, RecoverSucceed, RecoverAdvance, RecoverCleanup, RecoverDelete, RecoverError,
         RecoverRollback, RecoverOriginal, OpenOriginal, RecoverFail, RecoverRolledBack,
         RecoverDeleteRolledBack, calm, bounds
<1> QED
  BY <1>1, <1>2, <1>3 DEF Next

(* The rows keep their types.                                              *)
LEMMA TypedKept ==
    ASSUME RowsTyped, Next PROVE RowsTyped'
<1>0. /\ \A p : phase' = p /\ p \in RestorePhase => phase' \in RestorePhase \cup {"none"}
      /\ {"preflighted", "maintenance", "restore_pre_backup", "connections_closed", "database_staged",
          "original_parked", "installed", "verified", "reopened", "reconciled", "succeeded",
          "rolled_back", "recovery_required"} \subseteq RestorePhase
  BY OrderFacts DEF FromBackup, FromInstalled
<1>s. \A w, s : SetJob(w, s) /\ s \in Status => job' \in [{"home", "backup"} -> Status \cup {"absent"}]
  BY DEF SetJob, RowsTyped
<1>t. {"queued", "running", "succeeded", "failed", "canceled", "interrupted"} \subseteq Status
  BY DEF Status
<1>1. CASE SubmitJob \/ SubmitJournal \/ CancelDetached \/ CancelRead \/ CancelRequest \/ Restart
  BY <1>1, <1>0, <1>s, <1>t DEF SubmitJob, SubmitJournal, CancelDetached, CancelRead, CancelRequest, Restart,
     journal, rows, RowsTyped
<1>2. CASE Load \/ Check \/ MandatoryBackup \/ CloseConnections \/ Stage \/ ParkOriginal \/ Install \/ VerifyFails
           \/ Reopen \/ ReconcileJobs \/ ReconcileBackup \/ Cleanup \/ Release \/ Recover
           \/ Rollback \/ RestoreOriginal \/ ReopenOriginal
  BY <1>2 DEF Load, Check, MandatoryBackup, CloseConnections, Stage, ParkOriginal, Install, VerifyFails, Reopen,
     ReconcileJobs, ReconcileBackup, Cleanup, Release, Recover, Rollback, RestoreOriginal, ReopenOriginal,
     journal, rows, RowsTyped
<1>3. CASE Claim \/ ReconcileJob \/ Succeed \/ CancelJob \/ FailJob
  <2>1. UNCHANGED phase
    BY <1>3 DEF Claim, ReconcileJob, Succeed, CancelJob, FailJob, journal
  <2>2. job' = job \/ \E w : \E s \in Status : SetJob(w, s)
    BY <1>3, <1>t DEF Claim, ReconcileJob, Succeed, CancelJob, FailJob, SetJob
  <2> QED
    BY <2>1, <2>2, <1>s DEF RowsTyped
<1>4. CASE Boundary \/ Checkpoint \/ JournalSucceeded \/ RolledBack \/ Required
  <2>1. \E at, next, otherwise : \E to \in RestorePhase : Swap(at, to, next, otherwise)
    BY <1>4, <1>0 DEF Boundary, Checkpoint, JournalSucceeded, RolledBack, Required
  <2>2. phase' = phase \/ phase' \in RestorePhase
    BY <2>1 DEF Swap, journal
  <2>3. job' = job \/ \E w : \E s \in Status : SetJob(w, s)
    BY <1>4, <1>t DEF Boundary, Checkpoint, JournalSucceeded, RolledBack, Required, rows
  <2> QED
    BY <2>2, <2>3, <1>s DEF RowsTyped
<1>5. CASE Delete
  BY <1>5 DEF Delete, journal, rows, RowsTyped
<1>6. CASE Observe \/ ObserveEmpty \/ OpenInstalled \/ RecoverJobs \/ RecoverBackup \/ RecoverCleanup
           \/ RecoverError \/ RecoverRollback \/ RecoverOriginal \/ OpenOriginal
  BY <1>6 DEF Observe, ObserveEmpty, OpenInstalled, RecoverJobs, RecoverBackup, RecoverCleanup, RecoverError,
     RecoverRollback, RecoverOriginal, OpenOriginal, journal, rows, RowsTyped
<1>7. CASE EmptyRolledBack \/ RecoverJob \/ RecoverSucceed \/ RecoverFail
  <2>1. phase' = phase \/ phase' = "rolled_back"
    BY <1>7 DEF EmptyRolledBack, RecoverJob, RecoverSucceed, RecoverFail, journal
  <2>2. job' = job \/ \E w : \E s \in Status : SetJob(w, s)
    BY <1>7, <1>t DEF EmptyRolledBack, RecoverJob, RecoverSucceed, RecoverFail, SetJob
  <2> QED
    BY <2>1, <2>2, <1>0, <1>s DEF RowsTyped
<1>8. CASE RecoverAdvance
  <2>1. phase' = phase \/ phase' \in RestorePhase
    BY <1>8, OrderFacts DEF RecoverAdvance
  <2>2. job' = job \/ \E w : \E s \in Status : SetJob(w, s)
    BY <1>8, <1>t DEF RecoverAdvance
  <2> QED
    BY <2>1, <2>2, <1>s DEF RowsTyped
<1>9. CASE RecoverDelete \/ RecoverRolledBack \/ RecoverDeleteRolledBack
  BY <1>9, <1>0 DEF RecoverDelete, RecoverRolledBack, RecoverDeleteRolledBack, journal, rows, RowsTyped
<1> QED
  BY <1>1, <1>2, <1>3, <1>4, <1>5, <1>6, <1>7, <1>8, <1>9 DEF Next, Execute, StartupRecovery

(* A restore into an empty directory has nothing to park.                  *)
LEMMA EmptyParksNothing ==
    ASSUME detached, parked = "none", pc # "park", Next
    PROVE  parked' = "none" /\ pc' # "park"
<1>1. CASE SubmitJob \/ SubmitJournal \/ CancelDetached \/ CancelRead \/ CancelRequest \/ Restart
  BY <1>1 DEF SubmitJob, SubmitJournal, CancelDetached, CancelRead, CancelRequest, Restart, files, worker
<1>2. CASE Load \/ Claim \/ Check \/ MandatoryBackup \/ CloseConnections \/ Stage \/ ParkOriginal \/ Install
           \/ VerifyFails \/ Reopen \/ ReconcileJob \/ ReconcileJobs \/ ReconcileBackup \/ Succeed
  BY <1>2 DEF Load, Claim, Check, MandatoryBackup, CloseConnections, Stage, ParkOriginal, Install, VerifyFails,
     Reopen, ReconcileJob, ReconcileJobs, ReconcileBackup, Succeed, Works, Fails, Goto, files
<1>3. CASE Cleanup \/ Release \/ Delete \/ CancelJob \/ Recover \/ Rollback \/ RestoreOriginal
           \/ ReopenOriginal \/ FailJob
  BY <1>3 DEF Cleanup, Release, Delete, CancelJob, Recover, Rollback, RestoreOriginal, ReopenOriginal,
     FailJob, Goto, files
<1>4. CASE Boundary \/ Checkpoint \/ JournalSucceeded \/ RolledBack \/ Required
  <2>1. UNCHANGED parked
    BY <1>4 DEF Boundary, Checkpoint, JournalSucceeded, RolledBack, Required, files
  <2>2. \E at, to, next, otherwise : Swap(at, to, next, otherwise) /\ next # "park" /\ otherwise # "park"
    BY <1>4 DEF Boundary, Checkpoint, JournalSucceeded, RolledBack, Required
  <2>3. pc' # "park"
    BY <2>2 DEF Swap, Goto
  <2> QED
    BY <2>1, <2>3
<1>5. CASE StartupRecovery
  BY <1>5 DEF StartupRecovery, Observe, ObserveEmpty, EmptyRolledBack, OpenInstalled, RecoverJob, RecoverJobs,
         RecoverBackup, RecoverSucceed, RecoverAdvance, RecoverCleanup, RecoverDelete, RecoverError,
         RecoverRollback, RecoverOriginal, OpenOriginal, RecoverFail, RecoverRolledBack,
         RecoverDeleteRolledBack, calm, worker, files
<1> QED
  BY <1>1, <1>2, <1>3, <1>4, <1>5 DEF Next, Execute

LEMMA Consecution ==
    ASSUME IInv, [Next]_vars PROVE IInv'
<1>1. CASE Next
  <2>1. RowsTyped' /\ detached' = detached
    BY <1>1, TypedKept, TargetStays DEF IInv
  <2>2. CASE detached
    BY <2>1, <2>2, <1>1, EmptyParksNothing DEF IInv
  <2>3. CASE ~detached
    <3>1. ASSUME SubmitJob \/ SubmitJournal \/ CancelRead \/ CancelRequest \/ Restart PROVE Sound'
      BY <2>3, <3>1, HandlersKept, SubmitJournalKept, RestartKept
    <3>2. ASSUME Execute PROVE Sound'
      BY <2>3, <3>2, LoadKept, BeforeKept, CheckpointKept, ResolvedKept, PrepareKept, ParkKept, InstallKept,
         ReconcileKept, CleanupKept, ReleaseKept, RecoverKept, RollbackKept, ReopenOriginalKept DEF Execute
    <3>3. ASSUME StartupRecovery PROVE Sound'
      <4>1. ~ObserveEmpty
        BY <2>3 DEF ObserveEmpty
      <4>2. ~EmptyRolledBack
        BY <2>3 DEF EmptyRolledBack, IInv, RecoveryIsSound
      <4> QED
        BY <2>3, <3>3, <4>1, <4>2, ObserveKept, OpenInstalledKept, RecoverRowsKept, RecoverAdvanceKept,
           RecoverCleanupKept, RecoverDeleteKept, RecoverErrorKept, RecoverRollbackKept, OpenOriginalKept,
           RecoverFailKept, RecoverRolledBackKept DEF StartupRecovery
    <3>4. ~CancelDetached
      BY <2>3 DEF CancelDetached
    <3>5. Sound'
      BY <1>1, <3>1, <3>2, <3>3, <3>4 DEF Next
    <3> QED
      BY <2>1, <2>3, <3>5 DEF IInv, Sound
  <2> QED
    BY <2>2, <2>3
<1>2. CASE UNCHANGED vars
  BY <1>2 DEF vars, journal, files, rows, handlers, worker, recovery, bounds, IInv, RowsTyped, DiskIsSound,
     JournalIsSound, ExecuteIsSound, RecoveryIsSound, Whole, Swapped, Broken, Installed, Complete, Openable
<1> QED
  BY <1>1, <1>2

-----------------------------------------------------------------------------
(* What is lying in the target directory, what the journal says, and what  *)
(* the running Execute or recovery is about to do agree in every state,    *)
(* for any number of POSTs, cancellations, failing calls and crashes.      *)
THEOREM RestoreInvariant == Spec => []IInv
<1>1. Init => IInv
  <2>1. SUFFICES ASSUME Init PROVE IInv
    OBVIOUS
  <2>2. RowsTyped
    BY <2>1 DEF Init, RowsTyped, Status
  <2>3. detached => parked = "none" /\ pc # "park"
    BY <2>1 DEF Init
  <2>4. ~detached => DiskIsSound
    BY <2>1 DEF Init, DiskIsSound, Whole
  <2>5. JournalIsSound
    BY <2>1 DEF Init, JournalIsSound, Installed, FromBackup, FromInstalled
  <2>6. ~detached => ExecuteIsSound
    BY <2>1 DEF Init, ExecuteIsSound, Early, Closed, Parked, Replaced, Whole
  <2>7. RecoveryIsSound
    BY <2>1 DEF Init, RecoveryIsSound
  <2> QED
    BY <2>2, <2>3, <2>4, <2>5, <2>6, <2>7 DEF IInv
<1> QED
  BY <1>1, Consecution, PTL DEF Spec

(* OriginalIsRecoverable: the database a restore replaces is project.db or *)
(* the parked file, or has its restore_pre backup beside a restore that    *)
(* succeeded; and a parked original always has a journal.                  *)
THEOREM OriginalIsRecoverableHolds == Spec => []OriginalIsRecoverable
<1>1. IInv => OriginalIsRecoverable
  BY DEF IInv, DiskIsSound, JournalIsSound, Whole, Broken, Installed, Complete, OriginalIsRecoverable,
         OriginalPreserved, ParkedIsJournaled
<1> QED
  BY <1>1, RestoreInvariant, PTL

(* OutcomeIsHonest, for a restore over a database: when users can work     *)
(* with the restored data, the restore's Job is succeeded there, the Jobs  *)
(* captured in the backup are settled and the evidence is sealed.          *)
THEOREM RestoredOverDatabaseIsComplete == Spec => [](~detached => OutcomeIsHonest)
<1>1. IInv => (~detached => OutcomeIsHonest)
  BY DEF IInv, DiskIsSound, JournalIsSound, Whole, Broken, Installed, Complete, OutcomeIsHonest,
         RestoredIsComplete, CancelHonoured, Usable
<1> QED
  BY <1>1, RestoreInvariant, PTL

-----------------------------------------------------------------------------
(***************************************************************************)
(* The processes of ProjectInstances, for any number of processes,         *)
(* directories, requests and deaths: where a lock file that its living     *)
(* owner has open cannot be renamed, or one close request comes at a time. *)
(***************************************************************************)
Lives == {"off", "up", "leaving", "gone", "dead"}
Owning == {"own", "factory", "remove", "free"}
Directed == {"acquire", "unlink"} \cup Owning
Listing == {"list", "record"}
Leaving == {"free", "unlink"}

(* A manager and a request with their fields; the copy of the recent list  *)
(* is left open.                                                           *)
ManagerTyped(p) ==
    /\ holder[p] = [life |-> holder[p].life, pc |-> holder[p].pc, op |-> holder[p].op, dir |-> holder[p].dir,
                    act |-> holder[p].act, id |-> holder[p].id, handle |-> holder[p].handle,
                    maint |-> holder[p].maint, list |-> holder[p].list, jobs |-> holder[p].jobs]
    /\ holder[p].life \in Lives
    /\ holder[p].act \in Dirs \cup {NoDir}
    /\ holder[p].pc \in {"idle"} \cup Directed \cup Listing
    /\ holder[p].pc \in Directed => holder[p].dir \in Dirs
    /\ holder[p].handle \in BOOLEAN

LockTyped ==
    /\ lock = [d \in Dirs |-> lock[d]]
    /\ \A d \in Dirs :
         /\ lock[d] = [by |-> lock[d].by, full |-> lock[d].full, open |-> lock[d].open]
         /\ lock[d].by \in Procs \cup {NoProc} /\ lock[d].full \in BOOLEAN
         /\ lock[d].full => lock[d].by # NoProc

DbTyped ==
    /\ db = [d \in Dirs |-> db[d]]
    /\ \A d \in Dirs : db[d] = [id |-> db[d].id, ver |-> db[d].ver, saved |-> db[d].saved]

RequestTyped(r) ==
    /\ req[r] = [pc |-> req[r].pc, by |-> req[r].by, dir |-> req[r].dir, id |-> req[r].id, owner |-> req[r].owner]
    /\ IF req[r].pc = "idle" THEN req[r].owner = NoProc
       ELSE req[r].dir \in Dirs /\ req[r].owner \in Procs /\ r \in load.requests

(* The directories a process has: the one whose project is open or under a  *)
(* session, and the one whose lock file it has open.                       *)
Uses(p) == holder[p].handle \/ holder[p].maint \in P!Sessions
Has(p, d) == (holder[p].act = d /\ Uses(p)) \/ (holder[p].pc \in Owning /\ holder[p].dir = d)

(* What a manager is doing, and the files of the directories it has.       *)
WorkIsSound(p) ==
    /\ holder[p].pc \in Listing => holder[p].act # NoDir /\ holder[p].handle /\ holder[p].dir = holder[p].act
    /\ holder[p].pc \in Directed =>
          IF holder[p].op = "delete" THEN holder[p].dir # holder[p].act
          ELSE IF holder[p].pc \in Leaving THEN ~Uses(p) ELSE holder[p].act = NoDir
    /\ holder[p].pc = "factory" => holder[p].op # "delete"
    /\ holder[p].maint # "none" => holder[p].act # NoDir

HoldingIsSound(p) ==
    P!Alive(p) =>
      /\ \A d \in Dirs : Has(p, d) => lock[d].by = p /\ lock[d].open
      /\ holder[p].pc = "unlink" /\ load.renames => lock[holder[p].dir].by = p
      /\ holder[p].handle => holder[p].act # NoDir /\ db[holder[p].act].id = holder[p].id

(* A process that has not started is known to no lock and no request.      *)
StartIsFresh(p) ==
    holder[p].life = "off" =>
      /\ holder[p] = P!Off
      /\ \A d \in Dirs : lock[d].by # p
      /\ \A r \in Requests : req[r].owner # p

(* A lock about to be archived is that of an owner who has ended, unless   *)
(* the system refuses it otherwise.                                        *)
ArchivesDead(r) ==
    /\ req[r].pc \in {"dead", "archive"} => ~P!Alive(req[r].owner)
    /\ req[r].pc = "archive" /\ load.renames => lock[req[r].dir].by = req[r].owner

ManagerIsSound(p) == ManagerTyped(p) /\ WorkIsSound(p) /\ HoldingIsSound(p) /\ StartIsFresh(p)

FilesTyped ==
    /\ holder = [p \in Procs |-> holder[p]] /\ req = [r \in Requests |-> req[r]]
    /\ LockTyped /\ DbTyped /\ load \in Loads

ProjectInv ==
    /\ FilesTyped
    /\ \A p \in Procs : ManagerIsSound(p)
    /\ \A r \in Requests : RequestTyped(r) /\ ArchivesDead(r)

(* What a step of a manager may do to a lock file: its own, a new one, or  *)
(* one that no living process has open.                                    *)
LockMoves(p, d) ==
    \/ lock'[d] = lock[d]
    \/ lock[d].by \in {p, NoProc} /\ lock'[d].by \in {p, NoProc}
    \/ ~load.renames /\ ~P!HeldOpen(d) /\ lock'[d] = P!NoLock

(* The steps of one manager: what it may do to the files.                  *)
LEMMA ManagerAndRequest ==
    ASSUME P!ProjectInstancesAssumption, ProjectInv, NEW p \in Procs, P!Alive(p),
           holder' = [q \in Procs |-> holder'[q]], \A q \in Procs \ {p} : holder'[q] = holder[q],
           holder'[p].life # "off", ManagerTyped(p)', WorkIsSound(p)', HoldingIsSound(p)',
           LockTyped', DbTyped',
           \A d \in Dirs : LockMoves(p, d),
           \A d \in Dirs : db'[d].id = db[d].id \/ lock[d].by \in {p, NoProc},
           req' = [r \in Requests |-> req'[r]],
           \A r \in Requests : req'[r] = req[r] \/ (/\ RequestTyped(r)' /\ req'[r].pc \notin {"dead", "archive"}
                                                   /\ req'[r].owner \in {req[r].owner, NoProc}),
           UNCHANGED load
    PROVE  ProjectInv'
<1>n. NoProc \notin Procs
  BY DEF P!ProjectInstancesAssumption
<1>1. FilesTyped'
  BY DEF ProjectInv, FilesTyped
<1>2. ASSUME NEW q \in Procs PROVE ManagerIsSound(q)'
  <2>1. ManagerIsSound(q)
    BY DEF ProjectInv
  <2>2. CASE q = p
    BY <2>2 DEF ManagerIsSound, StartIsFresh
  <2>3. CASE q # p
    <3>1. holder'[q] = holder[q]
      BY <2>3
    <3>2. ManagerTyped(q)' /\ WorkIsSound(q)'
      BY <3>1, <2>1 DEF ManagerIsSound, ManagerTyped, WorkIsSound, Uses
    <3>3. HoldingIsSound(q)'
      <4>1. ManagerTyped(q) /\ HoldingIsSound(q) /\ (P!Alive(q)' <=> P!Alive(q)) /\ \A d : Has(q, d)' <=> Has(q, d)
        BY <3>1, <2>1 DEF ManagerIsSound, Has, Uses, P!Alive
      <4>2. ASSUME P!Alive(q), NEW d \in Dirs, Has(q, d)
            PROVE  lock[d].by = q /\ lock[d].open /\ lock'[d] = lock[d]
        <5>1. lock[d].by = q /\ lock[d].open
          BY <4>1, <4>2 DEF HoldingIsSound
        <5>2. P!HeldOpen(d) /\ lock[d].by \notin {p, NoProc}
          BY <4>2, <5>1, <2>3, <1>n DEF P!HeldOpen
        <5> QED
          BY <5>1, <5>2 DEF LockMoves
      <4>3. ASSUME P!Alive(q), holder[q].handle
            PROVE  holder[q].act # NoDir /\ db'[holder[q].act].id = holder[q].id
        <5>1. holder[q].act \in Dirs /\ Has(q, holder[q].act) /\ db[holder[q].act].id = holder[q].id
          BY <4>1, <4>3 DEF HoldingIsSound, ManagerTyped, Has, Uses
        <5>2. lock[holder[q].act].by = q
          BY <4>2, <4>3, <5>1
        <5>3. db'[holder[q].act].id = db[holder[q].act].id
          BY <5>1, <5>2, <2>3, <1>n
        <5>4. holder[q].act # NoDir
          BY <4>1, <4>3 DEF HoldingIsSound
        <5> QED
          BY <5>1, <5>3, <5>4
      <4>4. ASSUME P!Alive(q), holder[q].pc = "unlink", load.renames
            PROVE  lock'[holder[q].dir].by = q
        <5>1. holder[q].dir \in Dirs /\ lock[holder[q].dir].by = q
          BY <4>1, <4>4 DEF HoldingIsSound, ManagerTyped, Directed
        <5> QED
          BY <4>4, <5>1, <2>3, <1>n DEF LockMoves
      <4> QED
        <5>1. SUFFICES ASSUME P!Alive(q)'
                       PROVE  /\ \A d \in Dirs : Has(q, d)' => lock'[d].by = q /\ lock'[d].open
                              /\ holder'[q].pc = "unlink" /\ load'.renames => lock'[holder'[q].dir].by = q
                              /\ holder'[q].handle =>
                                    holder'[q].act # NoDir /\ db'[holder'[q].act].id = holder'[q].id
          BY DEF HoldingIsSound
        <5>2. P!Alive(q)
          BY <4>1, <5>1
        <5>3. \A d \in Dirs : Has(q, d)' => lock'[d].by = q /\ lock'[d].open
          BY <4>1, <4>2, <5>2
        <5> QED
          BY <3>1, <4>3, <4>4, <5>2, <5>3
    <3>4. StartIsFresh(q)'
      <4>1. holder[q].life = "off" => \A r \in Requests : req[r].owner # q /\ req'[r].owner # q
        BY <2>1, <1>n DEF ManagerIsSound, StartIsFresh
      <4> QED
        BY <3>1, <4>1, <2>1, <2>3, <1>n DEF ManagerIsSound, StartIsFresh, LockMoves, P!NoLock
    <3> QED
      BY <3>2, <3>3, <3>4 DEF ManagerIsSound
  <2> QED
    BY <2>2, <2>3
<1>3. ASSUME NEW r \in Requests PROVE RequestTyped(r)' /\ ArchivesDead(r)'
  <2>1. RequestTyped(r) /\ ArchivesDead(r)
    BY DEF ProjectInv
  <2>2. req[r].pc \in {"dead", "archive"} => req[r].owner \in Procs \ {p} /\ req[r].dir \in Dirs
    BY <2>1 DEF RequestTyped, ArchivesDead
  <2>3. CASE req'[r] = req[r]
    BY <2>1, <2>2, <2>3, <1>n DEF RequestTyped, ArchivesDead, P!Alive, LockMoves
  <2>4. CASE req'[r] # req[r]
    BY <2>4 DEF ArchivesDead
  <2> QED
    BY <2>3, <2>4
<1> QED
  BY <1>1, <1>2, <1>3 DEF ProjectInv

LEMMA ManagerStep ==
    ASSUME P!ProjectInstancesAssumption, ProjectInv, NEW p \in Procs, P!Alive(p),
           holder' = [q \in Procs |-> holder'[q]], \A q \in Procs \ {p} : holder'[q] = holder[q],
           holder'[p].life # "off", ManagerTyped(p)', WorkIsSound(p)', HoldingIsSound(p)',
           LockTyped', DbTyped',
           \A d \in Dirs : LockMoves(p, d),
           \A d \in Dirs : db'[d].id = db[d].id \/ lock[d].by \in {p, NoProc},
           UNCHANGED <<req, load>>
    PROVE  ProjectInv'
<1>1. req' = [r \in Requests |-> req'[r]] /\ \A r \in Requests : req'[r] = req[r]
  BY DEF ProjectInv, FilesTyped
<1> QED
  BY <1>1, ManagerAndRequest

LEMMA InstallBeginsKept ==
    ASSUME P!ProjectInstancesAssumption, ProjectInv, NEW p \in Procs, P!Install(p), UNCHANGED load PROVE ProjectInv'
<1>1. ManagerIsSound(p) /\ FilesTyped
  BY DEF ProjectInv
<1>2. PICK d \in Dirs, op \in {"open", "create"} :
        holder' = [holder EXCEPT ![p].pc = "acquire", ![p].op = op, ![p].dir = d]
  BY DEF P!Install
<1>3. holder'[p] = [holder[p] EXCEPT !.pc = "acquire", !.op = op, !.dir = d]
  BY <1>2, <1>1 DEF FilesTyped
<1>4. /\ holder' = [q \in Procs |-> holder'[q]] /\ \A q \in Procs \ {p} : holder'[q] = holder[q]
  BY <1>2, <1>1 DEF FilesTyped
<1>5. /\ ManagerTyped(p)' /\ holder'[p].life = holder[p].life /\ holder'[p].act = holder[p].act
      /\ holder'[p].handle = holder[p].handle /\ holder'[p].id = holder[p].id /\ holder'[p].maint = holder[p].maint
      /\ holder'[p].pc = "acquire" /\ holder'[p].op = op /\ holder'[p].dir = d
  BY <1>1, <1>3 DEF ManagerIsSound, ManagerTyped, Directed
<1>6. P!Alive(p) /\ holder[p].pc = "idle" /\ holder[p].act = NoDir /\ holder[p].maint = "none" /\ lock' = lock /\ db' = db /\ req' = req
  BY DEF P!Install, P!Step
<1>7. WorkIsSound(p)'
  BY <1>5, <1>6 DEF WorkIsSound, Owning, Listing, Directed, Leaving
<1>8. HoldingIsSound(p)'
  BY <1>1, <1>5, <1>6 DEF ManagerIsSound, HoldingIsSound, Has, Uses, Owning, P!Alive
<1>9. LockTyped' /\ DbTyped' /\ holder'[p].life # "off"
  BY <1>1, <1>5, <1>6 DEF FilesTyped, LockTyped, DbTyped, P!Alive
<1> QED
  BY <1>4, <1>5, <1>6, <1>7, <1>8, <1>9, ManagerStep DEF LockMoves

LEMMA LockRemoved ==
    ASSUME P!ProjectInstancesAssumption, LockTyped, NEW d, P!RemoveLock(d)
    PROVE  LockTyped' /\ \A e \in Dirs : IF e = d THEN lock'[e] = P!NoLock ELSE lock'[e] = lock[e]
<1>1. lock' = [e \in Dirs |-> IF e = d THEN P!NoLock ELSE lock[e]]
  BY DEF LockTyped, P!RemoveLock
<1> QED
  BY <1>1 DEF LockTyped, P!NoLock

LEMMA LockWritten ==
    ASSUME P!ProjectInstancesAssumption, LockTyped, NEW d \in Dirs, NEW p \in Procs, NEW full \in BOOLEAN,
           NEW open \in BOOLEAN, lock' = [lock EXCEPT ![d] = [by |-> p, full |-> full, open |-> open]]
    PROVE  /\ LockTyped' /\ lock'[d] = [by |-> p, full |-> full, open |-> open]
           /\ \A e \in Dirs \ {d} : lock'[e] = lock[e]
<1>1. /\ lock' = [e \in Dirs |-> IF e = d THEN [by |-> p, full |-> full, open |-> open] ELSE lock[e]]
      /\ lock' = [e \in Dirs |-> lock'[e]]
  BY DEF LockTyped
<1>2. ASSUME NEW e \in Dirs
      PROVE  /\ lock'[e] = [by |-> lock'[e].by, full |-> lock'[e].full, open |-> lock'[e].open]
             /\ lock'[e].by \in Procs \cup {NoProc} /\ lock'[e].full \in BOOLEAN
             /\ lock'[e].full => lock'[e].by # NoProc
  <2>1. CASE e = d
    BY <2>1, <1>1 DEF P!ProjectInstancesAssumption
  <2>2. CASE e # d
    BY <2>2, <1>1 DEF LockTyped
  <2> QED
    BY <2>1, <2>2
<1> QED
  BY <1>1, <1>2 DEF LockTyped

LEMMA LockReplaced ==
    ASSUME LockTyped, NEW d \in Dirs, NEW m, lock' = [lock EXCEPT ![d] = m],
           m = [by |-> m.by, full |-> m.full, open |-> m.open],
           m.by \in Procs \cup {NoProc}, m.full \in BOOLEAN, m.full => m.by # NoProc
    PROVE  LockTyped' /\ lock'[d] = m /\ \A e \in Dirs \ {d} : lock'[e] = lock[e]
<1>1. lock' = [e \in Dirs |-> IF e = d THEN m ELSE lock[e]]
  BY DEF LockTyped
<1>2. lock' = [e \in Dirs |-> lock'[e]] /\ lock'[d] = m /\ \A e \in Dirs \ {d} : lock'[e] = lock[e]
  BY <1>1
<1>3. ASSUME NEW e \in Dirs
      PROVE  /\ lock'[e] = [by |-> lock'[e].by, full |-> lock'[e].full, open |-> lock'[e].open]
             /\ lock'[e].by \in Procs \cup {NoProc} /\ lock'[e].full \in BOOLEAN
             /\ lock'[e].full => lock'[e].by # NoProc
  <2>1. CASE e = d
    BY <2>1, <1>2
  <2>2. CASE e # d
    BY <2>2, <1>2 DEF LockTyped
  <2> QED
    BY <2>1, <2>2
<1> QED
  BY <1>2, <1>3 DEF LockTyped

LEMMA AcquireKept ==
    ASSUME P!ProjectInstancesAssumption, ProjectInv, NEW p \in Procs, P!Acquire(p), UNCHANGED load PROVE ProjectInv'
<1>1. ManagerIsSound(p) /\ FilesTyped /\ P!Alive(p) /\ holder[p].pc = "acquire" /\ holder[p].dir \in Dirs
      /\ UNCHANGED <<db, req>>
  BY DEF ProjectInv, P!Acquire, P!Step, ManagerIsSound, ManagerTyped, Directed
<1>n. NoProc \notin Procs /\ NoDir \notin Dirs
  BY DEF P!ProjectInstancesAssumption
<1>2. CASE /\ lock[holder[p].dir] = P!NoLock
           /\ lock' = [lock EXCEPT ![holder[p].dir] = [by |-> p, full |-> FALSE, open |-> TRUE]]
           /\ holder' = [holder EXCEPT ![p].pc = "own"]
  <2>1. /\ holder' = [q \in Procs |-> holder'[q]] /\ \A q \in Procs \ {p} : holder'[q] = holder[q]
        /\ holder'[p] = [holder[p] EXCEPT !.pc = "own"]
    BY <1>2, <1>1 DEF FilesTyped
  <2>2. /\ ManagerTyped(p)' /\ holder'[p].life = holder[p].life /\ holder'[p].act = holder[p].act
        /\ holder'[p].handle = holder[p].handle /\ holder'[p].id = holder[p].id /\ holder'[p].maint = holder[p].maint
        /\ holder'[p].pc = "own" /\ holder'[p].op = holder[p].op /\ holder'[p].dir = holder[p].dir
    BY <1>1, <2>1 DEF ManagerIsSound, ManagerTyped, Owning, Directed
  <2>3. /\ LockTyped' /\ lock'[holder[p].dir] = [by |-> p, full |-> FALSE, open |-> TRUE]
        /\ \A d \in Dirs \ {holder[p].dir} : lock'[d] = lock[d]
    BY <1>1, <1>2, LockWritten DEF FilesTyped
  <2>4. DbTyped' /\ holder'[p].life # "off"
    BY <1>1, <2>2 DEF FilesTyped, DbTyped, P!Alive
  <2>5. WorkIsSound(p)'
    BY <1>1, <2>2 DEF ManagerIsSound, WorkIsSound, Owning, Listing, Directed, Leaving, Uses
  <2>6. HoldingIsSound(p)'
    BY <1>1, <2>2, <2>3, <1>n DEF ManagerIsSound, ManagerTyped, HoldingIsSound, Has, Uses, Owning, P!Alive
  <2>7. lock[holder[p].dir].by = NoProc /\ lock'[holder[p].dir].by = p
    BY <1>2, <2>3 DEF P!NoLock
  <2> QED
    BY <1>1, <2>1, <2>2, <2>3, <2>4, <2>5, <2>6, <2>7, ManagerStep DEF LockMoves
<1>3. CASE /\ holder' = [holder EXCEPT ![p].pc = "idle", ![p].op = "none", ![p].dir = holder[p].act]
           /\ UNCHANGED lock
  <2>1. /\ holder' = [q \in Procs |-> holder'[q]] /\ \A q \in Procs \ {p} : holder'[q] = holder[q]
        /\ holder'[p] = [holder[p] EXCEPT !.pc = "idle", !.op = "none", !.dir = holder[p].act]
    BY <1>3, <1>1 DEF FilesTyped
  <2>2. /\ ManagerTyped(p)' /\ holder'[p].life = holder[p].life /\ holder'[p].act = holder[p].act
        /\ holder'[p].handle = holder[p].handle /\ holder'[p].id = holder[p].id /\ holder'[p].maint = holder[p].maint
        /\ holder'[p].pc = "idle"
    BY <1>1, <2>1 DEF ManagerIsSound, ManagerTyped, Owning, Directed
  <2>3. LockTyped' /\ DbTyped' /\ holder'[p].life # "off"
    BY <1>1, <1>3, <2>2 DEF FilesTyped, LockTyped, DbTyped, P!Alive
  <2>4. WorkIsSound(p)' /\ HoldingIsSound(p)'
    BY <1>1, <1>3, <2>2 DEF ManagerIsSound, WorkIsSound, HoldingIsSound, Has, Uses, Owning, Listing, Directed, P!Alive
  <2> QED
    BY <1>1, <1>3, <2>1, <2>2, <2>3, <2>4, ManagerStep DEF LockMoves
<1> QED
  BY <1>2, <1>3 DEF P!Acquire, P!Goto

LEMMA WriteOwnerKept ==
    ASSUME P!ProjectInstancesAssumption, ProjectInv, NEW p \in Procs, P!WriteOwner(p), UNCHANGED load PROVE ProjectInv'
<1>1. ManagerIsSound(p) /\ FilesTyped /\ P!Alive(p) /\ holder[p].pc = "own" /\ holder[p].dir \in Dirs
      /\ UNCHANGED <<db, req>>
  BY DEF ProjectInv, P!WriteOwner, P!Step, ManagerIsSound, ManagerTyped, Owning, Directed
<1>2. lock[holder[p].dir].by = p /\ lock[holder[p].dir].open /\ p # NoProc
  BY <1>1 DEF ManagerIsSound, HoldingIsSound, Has, Owning, P!ProjectInstancesAssumption
<1>3. PICK to \in {"remove", "factory", "free"} :
         /\ holder' = [holder EXCEPT ![p].pc = to] /\ (to = "factory" => holder[p].op # "delete")
         /\ IF to = "free" THEN UNCHANGED lock
            ELSE lock' = [lock EXCEPT ![holder[p].dir].full = (lock[holder[p].dir].by = p)]
  BY DEF P!WriteOwner, P!Goto
<1>4. /\ holder' = [q \in Procs |-> holder'[q]] /\ \A q \in Procs \ {p} : holder'[q] = holder[q]
      /\ holder'[p] = [holder[p] EXCEPT !.pc = to]
  BY <1>3, <1>1 DEF FilesTyped
<1>5. /\ ManagerTyped(p)' /\ holder'[p].life = holder[p].life /\ holder'[p].act = holder[p].act
      /\ holder'[p].handle = holder[p].handle /\ holder'[p].id = holder[p].id /\ holder'[p].maint = holder[p].maint
      /\ holder'[p].pc = to /\ holder'[p].op = holder[p].op /\ holder'[p].dir = holder[p].dir
  BY <1>1, <1>4 DEF ManagerIsSound, ManagerTyped, Owning, Directed
<1>6. /\ LockTyped' /\ lock'[holder[p].dir].by = p /\ lock'[holder[p].dir].open
      /\ \A d \in Dirs \ {holder[p].dir} : lock'[d] = lock[d]
  <2>1. CASE UNCHANGED lock
    BY <1>1, <1>2, <2>1 DEF FilesTyped, LockTyped
  <2>2. CASE lock' = [lock EXCEPT ![holder[p].dir].full = (lock[holder[p].dir].by = p)]
    <3>1. PICK b : b = (lock[holder[p].dir].by = p)
      OBVIOUS
    <3>2. PICK m : m = [lock[holder[p].dir] EXCEPT !.full = b] /\ lock' = [lock EXCEPT ![holder[p].dir] = m]
      BY <1>1, <2>2, <3>1 DEF FilesTyped, LockTyped
    <3>3. m = [by |-> lock[holder[p].dir].by, full |-> b, open |-> lock[holder[p].dir].open]
      BY <1>1, <3>2 DEF FilesTyped, LockTyped
    <3>4. m.by = p /\ m.full = b /\ m.open = lock[holder[p].dir].open /\ m = [by |-> m.by, full |-> m.full, open |-> m.open]
      BY <1>2, <3>3
    <3>5. m.by \in Procs \cup {NoProc} /\ m.full \in BOOLEAN /\ (m.full => m.by # NoProc) /\ LockTyped
      BY <1>1, <1>2, <3>1, <3>4 DEF FilesTyped
    <3>6. LockTyped' /\ lock'[holder[p].dir] = m /\ \A d \in Dirs \ {holder[p].dir} : lock'[d] = lock[d]
      BY <1>1, <3>2, <3>4, <3>5, LockReplaced
    <3> QED
      BY <1>2, <3>4, <3>6
  <2> QED
    BY <1>3, <2>1, <2>2
<1>8. DbTyped' /\ holder'[p].life # "off"
  BY <1>1, <1>5 DEF FilesTyped, DbTyped, P!Alive
<1>9. WorkIsSound(p)'
  <2>1. holder[p].act = NoDir /\ holder[p].op # "delete" => ~holder[p].handle /\ holder[p].maint = "none"
    BY <1>1 DEF ManagerIsSound, ManagerTyped, HoldingIsSound, WorkIsSound
  <2> QED
    BY <1>1, <1>3, <1>5, <2>1 DEF ManagerIsSound, WorkIsSound, Owning, Listing, Directed, Leaving, Uses, P!Sessions
<1>10. HoldingIsSound(p)'
  BY <1>1, <1>2, <1>3, <1>5, <1>6 DEF ManagerIsSound, ManagerTyped, HoldingIsSound, Has, Uses, Owning, P!Alive
<1> QED
  BY <1>1, <1>2, <1>4, <1>5, <1>6, <1>8, <1>9, <1>10, ManagerStep DEF LockMoves

LEMMA CloseLockKept ==
    ASSUME P!ProjectInstancesAssumption, ProjectInv, NEW p \in Procs, P!CloseLock(p), UNCHANGED load PROVE ProjectInv'
<1>1. ManagerIsSound(p) /\ FilesTyped /\ P!Alive(p) /\ holder[p].pc = "free" /\ holder[p].dir \in Dirs
      /\ UNCHANGED <<db, req>> /\ holder' = [holder EXCEPT ![p].pc = "unlink"]
      /\ lock' = [lock EXCEPT ![holder[p].dir].open = FALSE]
  BY DEF ProjectInv, P!CloseLock, P!Step, P!Goto, ManagerIsSound, ManagerTyped, Owning, Directed
<1>2. lock[holder[p].dir].by = p /\ p # NoProc
  BY <1>1 DEF ManagerIsSound, HoldingIsSound, Has, Owning, P!ProjectInstancesAssumption
<1>4. /\ holder' = [q \in Procs |-> holder'[q]] /\ \A q \in Procs \ {p} : holder'[q] = holder[q]
      /\ holder'[p] = [holder[p] EXCEPT !.pc = "unlink"]
  BY <1>1 DEF FilesTyped
<1>5. /\ ManagerTyped(p)' /\ holder'[p].life = holder[p].life /\ holder'[p].act = holder[p].act
      /\ holder'[p].handle = holder[p].handle /\ holder'[p].id = holder[p].id /\ holder'[p].maint = holder[p].maint
      /\ holder'[p].pc = "unlink" /\ holder'[p].op = holder[p].op /\ holder'[p].dir = holder[p].dir
  BY <1>1, <1>4 DEF ManagerIsSound, ManagerTyped, Owning, Directed
<1>6. /\ LockTyped' /\ lock'[holder[p].dir].by = p /\ \A d \in Dirs \ {holder[p].dir} : lock'[d] = lock[d]
  <2>1. PICK b : b = FALSE
    OBVIOUS
  <2>2. PICK m : m = [lock[holder[p].dir] EXCEPT !.open = b] /\ lock' = [lock EXCEPT ![holder[p].dir] = m]
    BY <1>1, <2>1 DEF FilesTyped, LockTyped
  <2>3. m = [by |-> lock[holder[p].dir].by, full |-> lock[holder[p].dir].full, open |-> b]
    BY <1>1, <2>2 DEF FilesTyped, LockTyped
  <2>4. m.by = p /\ m.full = lock[holder[p].dir].full /\ m = [by |-> m.by, full |-> m.full, open |-> m.open]
    BY <1>2, <2>3
  <2>5. m.by \in Procs \cup {NoProc} /\ m.full \in BOOLEAN /\ (m.full => m.by # NoProc) /\ LockTyped
    BY <1>1, <1>2, <2>4 DEF FilesTyped, LockTyped
  <2>6. LockTyped' /\ lock'[holder[p].dir] = m /\ \A d \in Dirs \ {holder[p].dir} : lock'[d] = lock[d]
    BY <1>1, <2>2, <2>4, <2>5, LockReplaced
  <2> QED
    BY <2>4, <2>6
<1>8. DbTyped' /\ holder'[p].life # "off"
  BY <1>1, <1>5 DEF FilesTyped, DbTyped, P!Alive
<1>9. WorkIsSound(p)'
  BY <1>1, <1>5 DEF ManagerIsSound, WorkIsSound, Owning, Listing, Directed, Leaving, Uses
<1>10. HoldingIsSound(p)'
  <2>1. ASSUME NEW d \in Dirs, Has(p, d)' PROVE Has(p, d) /\ d # holder[p].dir
    <3>1. holder[p].act = d /\ Uses(p)
      BY <1>5, <2>1 DEF Has, Uses, Owning
    <3>2. holder[p].act # holder[p].dir
      BY <1>1, <3>1 DEF ManagerIsSound, WorkIsSound, Owning, Directed, Leaving
    <3> QED
      BY <3>1, <3>2 DEF Has
  <2> QED
    BY <1>1, <1>5, <1>6, <2>1 DEF ManagerIsSound, HoldingIsSound
<1> QED
  BY <1>1, <1>2, <1>4, <1>5, <1>6, <1>8, <1>9, <1>10, ManagerStep DEF LockMoves

LEMMA UnlinkKept ==
    ASSUME P!ProjectInstancesAssumption, ProjectInv, NEW p \in Procs, P!Unlink(p), UNCHANGED load PROVE ProjectInv'
<1>1. PICK failed \in BOOLEAN :
        /\ \/ /\ lock[holder[p].dir] # P!NoLock /\ (load.renames \/ ~P!HeldOpen(holder[p].dir))
              /\ P!RemoveLock(holder[p].dir)
           \/ failed /\ UNCHANGED lock
        /\ P!Released(p, failed) /\ P!Answered(p, failed)
  BY DEF P!Unlink
<1>2. ManagerIsSound(p) /\ FilesTyped /\ P!Alive(p) /\ holder[p].pc = "unlink" /\ holder[p].dir \in Dirs
      /\ UNCHANGED db
  BY DEF ProjectInv, P!Unlink, P!Step, ManagerIsSound, ManagerTyped, Directed
<1>3. /\ LockTyped' /\ (\A d \in Dirs : LockMoves(p, d)) /\ \A d \in Dirs \ {holder[p].dir} : lock'[d] = lock[d]
  <2>1. CASE UNCHANGED lock
    BY <1>2, <2>1 DEF LockMoves, FilesTyped, LockTyped
  <2>2. CASE P!RemoveLock(holder[p].dir) /\ (load.renames \/ ~P!HeldOpen(holder[p].dir))
    <3>1. LockTyped' /\ \A e \in Dirs : IF e = holder[p].dir THEN lock'[e] = P!NoLock ELSE lock'[e] = lock[e]
      BY <1>2, <2>2, LockRemoved DEF FilesTyped
    <3>2. load.renames => lock[holder[p].dir].by = p
      BY <1>2 DEF ManagerIsSound, HoldingIsSound
    <3>3. LockMoves(p, holder[p].dir)
      <4>1. lock'[holder[p].dir] = P!NoLock /\ P!NoLock.by = NoProc
        BY <1>2, <3>1 DEF P!NoLock
      <4>2. CASE load.renames
        BY <3>2, <4>1, <4>2 DEF LockMoves
      <4>3. CASE ~load.renames
        BY <2>2, <4>1, <4>3 DEF LockMoves
      <4> QED
        BY <4>2, <4>3
    <3>4. \A d \in Dirs \ {holder[p].dir} : lock'[d] = lock[d] /\ LockMoves(p, d)
      BY <3>1 DEF LockMoves
    <3> QED
      BY <3>1, <3>3, <3>4
  <2> QED
    BY <1>1, <2>1, <2>2
<1>4. PICK m : /\ holder' = [holder EXCEPT ![p] = m]
               /\ m = IF P!Forgets(holder[p], failed)
                       THEN [P!Vacant(holder[p]) EXCEPT !.life = IF holder[p].op = "serve" THEN "leaving" ELSE @]
                       ELSE [holder[p] EXCEPT !.pc = "idle", !.op = "none", !.dir = holder[p].act]
  BY <1>1 DEF P!Released
<1>5. PICK life \in {"up", "leaving"} : life = IF holder[p].op = "serve" THEN "leaving" ELSE holder[p].life
  BY <1>2 DEF P!Alive
<1>6. \/ m = [life |-> life, pc |-> "idle", op |-> "none", dir |-> NoDir, act |-> NoDir, id |-> 0,
              handle |-> FALSE, maint |-> "none", list |-> <<>>, jobs |-> FALSE]
      \/ m = [life |-> holder[p].life, pc |-> "idle", op |-> "none", dir |-> holder[p].act, act |-> holder[p].act,
              id |-> holder[p].id, handle |-> holder[p].handle, maint |-> holder[p].maint,
              list |-> holder[p].list, jobs |-> holder[p].jobs]
  <2>1. CASE P!Forgets(holder[p], failed)
    <3>1. PICK v : v = P!Vacant(holder[p])
      OBVIOUS
    <3>2. v = [life |-> holder[p].life, pc |-> "idle", op |-> "none", dir |-> NoDir, act |-> NoDir,
               id |-> 0, handle |-> FALSE, maint |-> "none", list |-> <<>>, jobs |-> FALSE]
      BY <3>1 DEF P!Vacant, P!Off
    <3>3. m = [v EXCEPT !.life = life]
      BY <1>4, <1>5, <2>1, <3>1, <3>2
    <3> QED
      BY <3>2, <3>3
  <2>2. CASE ~P!Forgets(holder[p], failed)
    <3>1. m = [holder[p] EXCEPT !.pc = "idle", !.op = "none", !.dir = holder[p].act]
      BY <1>4, <2>2
    <3> QED
      BY <1>2, <3>1 DEF ManagerIsSound, ManagerTyped
  <2> QED
    BY <2>1, <2>2
<1>7. holder' = [q \in Procs |-> holder'[q]] /\ holder'[p] = m /\ \A q \in Procs \ {p} : holder'[q] = holder[q]
  BY <1>2, <1>4 DEF FilesTyped
<1>8. ManagerTyped(p)' /\ holder'[p].life # "off"
  <2>1. m = [life |-> m.life, pc |-> m.pc, op |-> m.op, dir |-> m.dir, act |-> m.act, id |-> m.id,
             handle |-> m.handle, maint |-> m.maint, list |-> m.list, jobs |-> m.jobs]
    BY <1>6
  <2>2. m.pc = "idle" /\ m.life \in {"up", "leaving"} /\ m.act \in Dirs \cup {NoDir} /\ m.handle \in BOOLEAN
    <3>1. holder[p].life \in {"up", "leaving"} /\ holder[p].act \in Dirs \cup {NoDir} /\ holder[p].handle \in BOOLEAN
      BY <1>2 DEF ManagerIsSound, ManagerTyped, P!Alive
    <3>2. \/ m.life = life /\ m.pc = "idle" /\ m.act = NoDir /\ m.handle = FALSE
          \/ m.life = holder[p].life /\ m.pc = "idle" /\ m.act = holder[p].act /\ m.handle = holder[p].handle
      BY <1>6
    <3> QED
      BY <1>5, <3>1, <3>2
  <2> QED
    BY <1>7, <2>1, <2>2 DEF ManagerTyped, Lives, Owning, Listing, Directed
<1>9. WorkIsSound(p)'
  BY <1>2, <1>6, <1>7 DEF ManagerIsSound, WorkIsSound, Owning, Listing, Directed
<1>10. HoldingIsSound(p)'
  <2>1. ASSUME NEW d \in Dirs, Has(p, d)' PROVE Has(p, d) /\ d # holder[p].dir
    <3>1. holder[p].act = d /\ Uses(p)
      BY <1>6, <1>7, <2>1 DEF Has, Uses, Owning, P!Sessions, P!ProjectInstancesAssumption
    <3>2. holder[p].act # holder[p].dir
      BY <1>2, <3>1 DEF ManagerIsSound, WorkIsSound, Directed, Leaving
    <3> QED
      BY <3>1, <3>2 DEF Has
  <2>2. \A d \in Dirs : Has(p, d)' => lock'[d].by = p /\ lock'[d].open
    BY <1>2, <1>3, <2>1 DEF ManagerIsSound, HoldingIsSound
  <2>3. holder'[p].handle => holder'[p].act # NoDir /\ db'[holder'[p].act].id = holder'[p].id
    BY <1>2, <1>6, <1>7 DEF ManagerIsSound, HoldingIsSound
  <2> QED
    BY <1>6, <1>7, <2>2, <2>3 DEF HoldingIsSound
<1>11. /\ req' = [r \in Requests |-> req'[r]]
       /\ \A r \in Requests : req'[r] = req[r] \/ (/\ RequestTyped(r)' /\ req'[r].pc \notin {"dead", "archive"}
                                                   /\ req'[r].owner \in {req[r].owner, NoProc})
  <2>1. req' = [r \in Requests |->
                  IF req[r].pc # "closing" \/ req[r].owner # p THEN req[r]
                  ELSE IF failed THEN P!NoRequest ELSE [req[r] EXCEPT !.pc = "wait"]]
    BY <1>1 DEF P!Answered
  <2>2. ASSUME NEW r \in Requests, req'[r] # req[r]
        PROVE  RequestTyped(r)' /\ req'[r].pc \notin {"dead", "archive"} /\ req'[r].owner \in {req[r].owner, NoProc}
    <3>1. req[r].pc = "closing" /\ (req'[r] = P!NoRequest \/ req'[r] = [req[r] EXCEPT !.pc = "wait"])
      BY <2>1, <2>2
    <3>2. RequestTyped(r)
      BY DEF ProjectInv
    <3>3. \/ req'[r] = [pc |-> "idle", by |-> NoProc, dir |-> NoDir, id |-> 0, owner |-> NoProc]
          \/ req'[r] = [pc |-> "wait", by |-> req[r].by, dir |-> req[r].dir, id |-> req[r].id, owner |-> req[r].owner]
      BY <3>1, <3>2 DEF RequestTyped, P!NoRequest
    <3> QED
      BY <3>1, <3>2, <3>3 DEF RequestTyped
  <2> QED
    BY <2>1, <2>2
<1>12. DbTyped'
  BY <1>2 DEF FilesTyped, DbTyped
<1> QED
  BY <1>2, <1>3, <1>7, <1>8, <1>9, <1>10, <1>11, <1>12, ManagerAndRequest

LEMMA DbWritten ==
    ASSUME DbTyped, NEW d \in Dirs, NEW id, NEW ver, NEW saved,
           db' = [db EXCEPT ![d] = [id |-> id, ver |-> ver, saved |-> saved]]
    PROVE  DbTyped' /\ db'[d].id = id /\ \A e \in Dirs \ {d} : db'[e] = db[e]
<1>1. db' = [e \in Dirs |-> IF e = d THEN [id |-> id, ver |-> ver, saved |-> saved] ELSE db[e]]
  BY DEF DbTyped
<1> QED
  BY <1>1 DEF DbTyped

LEMMA FactoryKept ==
    ASSUME P!ProjectInstancesAssumption, ProjectInv, NEW p \in Procs,
           P!FactoryCreate(p) \/ P!FactoryOpen(p), UNCHANGED load
    PROVE  ProjectInv'
<1>1. /\ ManagerIsSound(p) /\ FilesTyped /\ P!Alive(p) /\ holder[p].pc = "factory" /\ holder[p].dir \in Dirs
      /\ UNCHANGED <<lock, req>>
  BY DEF ProjectInv, P!FactoryCreate, P!FactoryOpen, P!Step, ManagerIsSound, ManagerTyped, Owning, Directed
<1>2. /\ Has(p, holder[p].dir) /\ lock[holder[p].dir].by = p /\ lock[holder[p].dir].open /\ holder[p].act = NoDir
      /\ holder[p].maint = "none"
  BY <1>1 DEF ManagerIsSound, HoldingIsSound, WorkIsSound, Has, Owning, Directed, Leaving
<1>3. PICK id, ver, saved : db' = [db EXCEPT ![holder[p].dir] = [id |-> id, ver |-> ver, saved |-> saved]]
                         /\ holder' = [holder EXCEPT ![p].pc = "list", ![p].act = holder[p].dir,
                                                     ![p].id = id, ![p].handle = TRUE]
  <2>1. CASE P!FactoryCreate(p)
    BY <2>1 DEF P!FactoryCreate
  <2>2. CASE P!FactoryOpen(p)
    <3>1. db[holder[p].dir] = [id |-> db[holder[p].dir].id, ver |-> db[holder[p].dir].ver, saved |-> db[holder[p].dir].saved]
      BY <1>1 DEF FilesTyped, DbTyped
    <3>2. PICK m : m = db[holder[p].dir]
      OBVIOUS
    <3>3. \E v, s : P!UpgradeToCurrent(m) = [id |-> m.id, ver |-> v, saved |-> s]
      <4>1. m = [id |-> m.id, ver |-> m.ver, saved |-> m.saved]
        BY <3>1, <3>2
      <4>2. P!UpgradeToCurrent(m) = [id |-> m.id, ver |-> "current", saved |-> TRUE]
            \/ P!UpgradeToCurrent(m) = [id |-> m.id, ver |-> m.ver, saved |-> m.saved]
        BY <4>1 DEF P!UpgradeToCurrent, P!MigrationSteps, P!MigrationBackup
      <4> QED
        BY <4>2
    <3>4. db' = [db EXCEPT ![holder[p].dir] = P!UpgradeToCurrent(m)]
          /\ holder' = [holder EXCEPT ![p].pc = "list", ![p].act = holder[p].dir, ![p].id = m.id, ![p].handle = TRUE]
      BY <2>2, <3>2 DEF P!FactoryOpen
    <3> QED
      BY <3>3, <3>4
  <2> QED
    BY <2>1, <2>2
<1>4. DbTyped' /\ db'[holder[p].dir].id = id /\ \A e \in Dirs \ {holder[p].dir} : db'[e] = db[e]
  BY <1>1, <1>3, DbWritten DEF FilesTyped
<1>5. /\ holder' = [q \in Procs |-> holder'[q]] /\ \A q \in Procs \ {p} : holder'[q] = holder[q]
      /\ holder'[p] = [holder[p] EXCEPT !.pc = "list", !.act = holder[p].dir, !.id = id, !.handle = TRUE]
  BY <1>3, <1>1 DEF FilesTyped
<1>6. /\ ManagerTyped(p)' /\ holder'[p].life = holder[p].life /\ holder'[p].act = holder[p].dir
      /\ holder'[p].id = id /\ holder'[p].maint = holder[p].maint
      /\ holder'[p].handle /\ holder'[p].pc = "list" /\ holder'[p].op = holder[p].op /\ holder'[p].dir = holder[p].dir
  BY <1>1, <1>5 DEF ManagerIsSound, ManagerTyped, Owning, Listing, Directed
<1>7. WorkIsSound(p)' /\ holder'[p].life # "off"
  BY <1>1, <1>2, <1>6 DEF ManagerIsSound, WorkIsSound, Owning, Listing, Directed, P!ProjectInstancesAssumption, P!Alive
<1>8. HoldingIsSound(p)'
  BY <1>1, <1>2, <1>4, <1>6 DEF HoldingIsSound, Has, Uses, Owning, P!ProjectInstancesAssumption
<1>9. LockTyped'
  BY <1>1 DEF FilesTyped, LockTyped
<1> QED
  BY <1>1, <1>2, <1>4, <1>5, <1>6, <1>7, <1>8, <1>9, ManagerStep DEF LockMoves

(* A step that leaves lock files and databases alone. *)
LEMMA QuietStep ==
    ASSUME P!ProjectInstancesAssumption, ProjectInv, NEW p \in Procs, P!Alive(p), NEW m,
           holder' = [holder EXCEPT ![p] = m], m.life \in {"up", "leaving"}, m.pc # "unlink",
           ManagerTyped(p)', WorkIsSound(p)', \A d \in Dirs : Has(p, d)' => Has(p, d),
           m.handle => m.act # NoDir /\ db[m.act].id = m.id,
           UNCHANGED <<lock, db, req, load>>
    PROVE  ProjectInv'
<1>1. ManagerIsSound(p) /\ FilesTyped
  BY DEF ProjectInv
<1>2. /\ holder' = [q \in Procs |-> holder'[q]] /\ \A q \in Procs \ {p} : holder'[q] = holder[q]
      /\ holder'[p] = m
  BY <1>1 DEF FilesTyped
<1>3. HoldingIsSound(p)'
  BY <1>1, <1>2 DEF ManagerIsSound, HoldingIsSound, P!Alive
<1>4. LockTyped' /\ DbTyped'
  BY <1>1 DEF FilesTyped, LockTyped, DbTyped
<1> QED
  BY <1>2, <1>3, <1>4, ManagerStep DEF LockMoves

LEMMA GivingUpKept ==
    ASSUME P!ProjectInstancesAssumption, ProjectInv, NEW p \in Procs, P!FactoryFails(p) \/ P!RecordFails(p), UNCHANGED load
    PROVE  ProjectInv'
<1>1. ManagerIsSound(p) /\ FilesTyped /\ P!Alive(p) /\ UNCHANGED <<lock, db, req, load>>
  BY DEF ProjectInv, P!FactoryFails, P!RecordFails, P!Step
<1>2. PICK m : /\ holder' = [holder EXCEPT ![p] = m]
               /\ m = [life |-> holder[p].life, pc |-> "free", op |-> holder[p].op, dir |-> holder[p].dir,
                       act |-> NoDir, id |-> m.id, handle |-> FALSE, maint |-> "none", list |-> m.list, jobs |-> m.jobs]
               /\ Has(p, holder[p].dir) /\ holder[p].dir \in Dirs
  <2>1. CASE P!FactoryFails(p)
    <3>1. holder[p].pc = "factory" /\ holder[p].dir \in Dirs /\ holder[p].op # "delete"
      BY <1>1, <2>1 DEF P!FactoryFails, P!Step, ManagerIsSound, ManagerTyped, WorkIsSound, Owning, Directed
    <3>2. holder[p].act = NoDir /\ ~holder[p].handle /\ holder[p].maint = "none" /\ holder[p].handle \in BOOLEAN
      BY <1>1, <3>1 DEF ManagerIsSound, ManagerTyped, WorkIsSound, HoldingIsSound, Owning, Directed, Leaving
    <3>3. PICK m : m = [holder[p] EXCEPT !.pc = "free"] /\ holder' = [holder EXCEPT ![p] = m]
      BY <1>1, <2>1 DEF P!FactoryFails, P!Goto, FilesTyped
    <3>4. m = [life |-> holder[p].life, pc |-> "free", op |-> holder[p].op, dir |-> holder[p].dir,
               act |-> NoDir, id |-> holder[p].id, handle |-> FALSE, maint |-> "none",
               list |-> holder[p].list, jobs |-> holder[p].jobs]
      BY <1>1, <3>2, <3>3 DEF ManagerIsSound, ManagerTyped
    <3>5. m.id = holder[p].id /\ m.list = holder[p].list /\ m.jobs = holder[p].jobs
      BY <3>4
    <3>6. Has(p, holder[p].dir)
      BY <3>1 DEF Has, Owning
    <3> QED
      BY <3>1, <3>3, <3>4, <3>5, <3>6
  <2>2. CASE P!RecordFails(p)
    <3>1. /\ holder[p].pc = "record" /\ holder[p].dir = holder[p].act /\ holder[p].act \in Dirs /\ holder[p].handle
      BY <1>1, <2>2 DEF P!RecordFails, P!Step, ManagerIsSound, ManagerTyped, WorkIsSound, Listing
    <3>2. PICK v : v = P!Vacant(holder[p])
      OBVIOUS
    <3>3. v = [life |-> holder[p].life, pc |-> "idle", op |-> "none", dir |-> NoDir, act |-> NoDir,
               id |-> 0, handle |-> FALSE, maint |-> "none", list |-> <<>>, jobs |-> FALSE]
      BY <3>2 DEF P!Vacant, P!Off
    <3>4. PICK m : m = [v EXCEPT !.pc = "free", !.op = holder[p].op, !.dir = holder[p].dir]
                   /\ holder' = [holder EXCEPT ![p] = m]
      BY <2>2, <3>2 DEF P!RecordFails
    <3>5. m = [life |-> holder[p].life, pc |-> "free", op |-> holder[p].op, dir |-> holder[p].dir,
               act |-> NoDir, id |-> 0, handle |-> FALSE, maint |-> "none", list |-> <<>>, jobs |-> FALSE]
      BY <3>3, <3>4
    <3>6. m.id = 0 /\ m.list = <<>> /\ m.jobs = FALSE
      BY <3>5
    <3>7. Has(p, holder[p].dir)
      BY <3>1 DEF Has, Uses
    <3> QED
      BY <3>1, <3>4, <3>5, <3>6, <3>7
  <2> QED
    BY <2>1, <2>2
<1>3. holder'[p] = m
  BY <1>1, <1>2 DEF FilesTyped
<1>4. /\ m.life = holder[p].life /\ m.pc = "free" /\ m.op = holder[p].op /\ m.dir = holder[p].dir
      /\ m.act = NoDir /\ m.handle = FALSE /\ m.maint = "none"
  BY <1>2
<1>5. ManagerTyped(p)' /\ m.life \in {"up", "leaving"}
  BY <1>1, <1>2, <1>3, <1>4 DEF ManagerIsSound, ManagerTyped, Owning, Listing, Directed, P!Alive
<1>6. WorkIsSound(p)' /\ \A d \in Dirs : Has(p, d)' => Has(p, d)
  BY <1>2, <1>3, <1>4 DEF WorkIsSound, Owning, Listing, Directed, Leaving, Has, Uses, P!Sessions, P!ProjectInstancesAssumption
<1> QED
  BY <1>1, <1>2, <1>4, <1>5, <1>6, QuietStep

LEMMA ListedKept ==
    ASSUME P!ProjectInstancesAssumption, ProjectInv, NEW p \in Procs, P!Listed(p) \/ P!Record(p) \/ P!Work(p), UNCHANGED load
    PROVE  ProjectInv'
<1>1. /\ ManagerIsSound(p) /\ P!Alive(p) /\ holder = [q \in Procs |-> holder[q]] /\ UNCHANGED <<lock, db, req, load>>
  BY DEF ProjectInv, FilesTyped, P!Listed, P!Record, P!Work, P!Step
<1>2. PICK m : /\ holder' = [holder EXCEPT ![p] = m]
               /\ m = [life |-> holder[p].life, pc |-> m.pc, op |-> m.op, dir |-> holder[p].dir,
                       act |-> holder[p].act, id |-> holder[p].id, handle |-> holder[p].handle,
                       maint |-> holder[p].maint, list |-> m.list, jobs |-> m.jobs]
               /\ m.pc = "idle" \/ (/\ m.pc = "record" /\ holder[p].dir = holder[p].act
                                    /\ holder[p].act # NoDir /\ holder[p].handle)
  <2>0. holder[p] = [life |-> holder[p].life, pc |-> holder[p].pc, op |-> holder[p].op, dir |-> holder[p].dir,
                    act |-> holder[p].act, id |-> holder[p].id, handle |-> holder[p].handle,
                    maint |-> holder[p].maint, list |-> holder[p].list, jobs |-> holder[p].jobs]
    BY <1>1 DEF ManagerIsSound, ManagerTyped
  <2>1. CASE P!Listed(p)
    <3>1. PICK m : m = [holder[p] EXCEPT !.pc = "record", !.list = recent] /\ holder' = [holder EXCEPT ![p] = m]
      BY <2>1, <1>1 DEF P!Listed
    <3>2. m = [life |-> holder[p].life, pc |-> "record", op |-> holder[p].op, dir |-> holder[p].dir,
               act |-> holder[p].act, id |-> holder[p].id, handle |-> holder[p].handle,
               maint |-> holder[p].maint, list |-> recent, jobs |-> holder[p].jobs]
      BY <2>0, <3>1
    <3>3. m.pc = "record" /\ m.op = holder[p].op /\ m.list = recent /\ m.jobs = holder[p].jobs
      BY <3>2
    <3>4. holder[p].dir = holder[p].act /\ holder[p].act # NoDir /\ holder[p].handle
      BY <2>1, <1>1 DEF P!Listed, P!Step, ManagerIsSound, WorkIsSound, Listing
    <3> QED
      BY <3>1, <3>2, <3>3, <3>4
  <2>2. CASE P!Record(p)
    <3>1. PICK m : m = [holder[p] EXCEPT !.pc = "idle", !.op = "none", !.list = <<>>] /\ holder' = [holder EXCEPT ![p] = m]
      BY <2>2, <1>1 DEF P!Record
    <3>2. m = [life |-> holder[p].life, pc |-> "idle", op |-> "none", dir |-> holder[p].dir,
               act |-> holder[p].act, id |-> holder[p].id, handle |-> holder[p].handle,
               maint |-> holder[p].maint, list |-> <<>>, jobs |-> holder[p].jobs]
      BY <2>0, <3>1
    <3>3. m.pc = "idle" /\ m.op = "none" /\ m.list = <<>> /\ m.jobs = holder[p].jobs
      BY <3>2
    <3> QED
      BY <3>1, <3>2, <3>3
  <2>3. CASE P!Work(p)
    <3>1. PICK j : j = ~holder[p].jobs
      OBVIOUS
    <3>2. holder' = [holder EXCEPT ![p].jobs = j] /\ holder[p].pc = "idle"
      BY <3>1, <2>3 DEF P!Work, P!Step
    <3>3. PICK m : m = [holder[p] EXCEPT !.jobs = j] /\ holder' = [holder EXCEPT ![p] = m]
      BY <3>2, <1>1
    <3>4. m = [life |-> holder[p].life, pc |-> "idle", op |-> holder[p].op, dir |-> holder[p].dir,
               act |-> holder[p].act, id |-> holder[p].id, handle |-> holder[p].handle,
               maint |-> holder[p].maint, list |-> holder[p].list, jobs |-> j]
      BY <2>0, <3>2, <3>3
    <3>5. m.pc = "idle" /\ m.op = holder[p].op /\ m.list = holder[p].list /\ m.jobs = j
      BY <3>4
    <3> QED
      BY <3>3, <3>4, <3>5
  <2> QED
    BY <2>1, <2>2, <2>3
<1>4. /\ holder'[p] = m /\ m.life = holder[p].life /\ m.dir = holder[p].dir /\ m.act = holder[p].act
      /\ m.id = holder[p].id /\ m.handle = holder[p].handle /\ m.maint = holder[p].maint
  BY <1>1, <1>2
<1>5. ManagerTyped(p)'
  BY <1>1, <1>2, <1>4 DEF ManagerIsSound, ManagerTyped, Owning, Listing, Directed
<1>6. WorkIsSound(p)' /\ \A d \in Dirs : Has(p, d)' => Has(p, d)
  BY <1>1, <1>2, <1>4 DEF ManagerIsSound, WorkIsSound, Owning, Listing, Directed, Has, Uses
<1>7. (m.handle => m.act # NoDir /\ db[m.act].id = m.id) /\ m.life \in {"up", "leaving"} /\ m.pc # "unlink"
  BY <1>1, <1>2, <1>4 DEF ManagerIsSound, HoldingIsSound, P!Alive
<1> QED
  BY <1>1, <1>2, <1>5, <1>6, <1>7, QuietStep

LEMMA CloseHandleKept ==
    ASSUME P!ProjectInstancesAssumption, ProjectInv, NEW p \in Procs, P!Step(p, "idle"),
           P!CloseHandle(p, "close") \/ P!HandleFails(p), UNCHANGED <<lock, db, req, load>>
    PROVE  ProjectInv'
<1>1. /\ ManagerIsSound(p) /\ P!Alive(p) /\ holder = [q \in Procs |-> holder[q]]
      /\ holder[p].pc = "idle" /\ holder[p].act # NoDir /\ holder[p].maint = "none" /\ holder[p].handle
  BY DEF ProjectInv, FilesTyped, P!Step, P!CloseHandle, P!HandleFails, P!CanClose, P!Preflight
<1>2. PICK m : /\ holder' = [holder EXCEPT ![p] = m]
               /\ m = [life |-> holder[p].life, pc |-> m.pc, op |-> m.op, dir |-> m.dir,
                       act |-> holder[p].act, id |-> holder[p].id, handle |-> FALSE,
                       maint |-> holder[p].maint, list |-> holder[p].list, jobs |-> holder[p].jobs]
               /\ m.pc = "idle" \/ (m.pc = "free" /\ m.op = "close" /\ m.dir = holder[p].act)
  <2>0. holder[p] = [life |-> holder[p].life, pc |-> "idle", op |-> holder[p].op, dir |-> holder[p].dir,
                    act |-> holder[p].act, id |-> holder[p].id, handle |-> holder[p].handle,
                    maint |-> holder[p].maint, list |-> holder[p].list, jobs |-> holder[p].jobs]
    BY <1>1 DEF ManagerIsSound, ManagerTyped
  <2>1. CASE P!CloseHandle(p, "close")
    <3>1. PICK m : /\ m = [holder[p] EXCEPT !.pc = "free", !.op = "close", !.dir = holder[p].act, !.handle = FALSE]
                   /\ holder' = [holder EXCEPT ![p] = m]
      BY <1>1, <2>1 DEF P!CloseHandle
    <3>2. m = [life |-> holder[p].life, pc |-> "free", op |-> "close", dir |-> holder[p].act,
               act |-> holder[p].act, id |-> holder[p].id, handle |-> FALSE,
               maint |-> holder[p].maint, list |-> holder[p].list, jobs |-> holder[p].jobs]
      BY <2>0, <3>1
    <3>3. m.pc = "free" /\ m.op = "close" /\ m.dir = holder[p].act
      BY <3>2
    <3> QED
      BY <3>1, <3>2, <3>3
  <2>2. CASE P!HandleFails(p)
    <3>0. PICK h : h = FALSE
      OBVIOUS
    <3>1. PICK m : m = [holder[p] EXCEPT !.handle = h] /\ holder' = [holder EXCEPT ![p] = m]
      BY <1>1, <2>2, <3>0 DEF P!HandleFails
    <3>2. m = [life |-> holder[p].life, pc |-> "idle", op |-> holder[p].op, dir |-> holder[p].dir,
               act |-> holder[p].act, id |-> holder[p].id, handle |-> h,
               maint |-> holder[p].maint, list |-> holder[p].list, jobs |-> holder[p].jobs]
      BY <2>0, <3>1
    <3>3. m.pc = "idle" /\ m.op = holder[p].op /\ m.dir = holder[p].dir
      BY <3>2
    <3> QED
      BY <3>0, <3>1, <3>2, <3>3
  <2> QED
    BY <2>1, <2>2
<1>4. /\ holder'[p] = m /\ m.life = holder[p].life /\ m.act = holder[p].act /\ m.id = holder[p].id
      /\ m.handle = FALSE /\ m.maint = holder[p].maint
  BY <1>1, <1>2
<1>5. ManagerTyped(p)' /\ m.life \in {"up", "leaving"} /\ ~m.handle /\ m.pc # "unlink"
  BY <1>1, <1>2, <1>4 DEF ManagerIsSound, ManagerTyped, Owning, Listing, Directed, P!Alive
<1>6. WorkIsSound(p)' /\ \A d \in Dirs : Has(p, d)' => Has(p, d)
  BY <1>1, <1>2, <1>4 DEF ManagerIsSound, WorkIsSound, Owning, Listing, Directed, Leaving, Has, Uses, P!Sessions
<1> QED
  BY <1>1, <1>2, <1>5, <1>6, QuietStep

LEMMA DeleteRecentKept ==
    ASSUME P!ProjectInstancesAssumption, ProjectInv, NEW p \in Procs, P!DeleteRecent(p), UNCHANGED load
    PROVE  ProjectInv'
<1>1. /\ ManagerIsSound(p) /\ P!Alive(p) /\ holder = [q \in Procs |-> holder[q]]
      /\ holder[p].pc = "idle" /\ UNCHANGED <<lock, db, req, load>>
  BY DEF ProjectInv, FilesTyped, P!Step, P!DeleteRecent
<1>2. PICK d \in Dirs \ {holder[p].act} :
        holder' = [holder EXCEPT ![p].pc = "acquire", ![p].op = "delete", ![p].dir = d]
  BY DEF P!DeleteRecent
<1>3. PICK m : /\ m = [holder[p] EXCEPT !.pc = "acquire", !.op = "delete", !.dir = d]
               /\ holder' = [holder EXCEPT ![p] = m]
  BY <1>1, <1>2
<1>4. /\ holder'[p] = m
      /\ m = [life |-> holder[p].life, pc |-> "acquire", op |-> "delete", dir |-> d,
              act |-> holder[p].act, id |-> holder[p].id, handle |-> holder[p].handle,
              maint |-> holder[p].maint, list |-> holder[p].list, jobs |-> holder[p].jobs]
  BY <1>1, <1>3 DEF ManagerIsSound, ManagerTyped
<1>5. ManagerTyped(p)' /\ m.pc # "unlink"
  BY <1>1, <1>4 DEF ManagerIsSound, ManagerTyped, Directed
<1>6. WorkIsSound(p)' /\ \A e \in Dirs : Has(p, e)' => Has(p, e)
  BY <1>1, <1>4 DEF ManagerIsSound, WorkIsSound, Owning, Listing, Directed, Leaving, Has, Uses
<1>7. (m.handle => m.act # NoDir /\ db[m.act].id = m.id) /\ m.life \in {"up", "leaving"}
  BY <1>1, <1>4 DEF ManagerIsSound, HoldingIsSound, P!Alive
<1> QED
  BY <1>1, <1>3, <1>5, <1>6, <1>7, QuietStep

LEMMA SessionKept ==
    ASSUME P!ProjectInstancesAssumption, ProjectInv, NEW p \in Procs,
           P!AcquireMaintenance(p) \/ P!CloseConnections(p) \/ P!Reopen(p), UNCHANGED load
    PROVE  ProjectInv'
<1>1. /\ ManagerIsSound(p) /\ P!Alive(p) /\ holder = [q \in Procs |-> holder[q]]
      /\ holder[p].pc = "idle" /\ UNCHANGED <<lock, db, req, load>>
  BY DEF ProjectInv, FilesTyped, P!Step, P!AcquireMaintenance, P!CloseConnections, P!Reopen
<1>0. holder[p] = [life |-> holder[p].life, pc |-> holder[p].pc, op |-> holder[p].op, dir |-> holder[p].dir,
                   act |-> holder[p].act, id |-> holder[p].id, handle |-> holder[p].handle,
                   maint |-> holder[p].maint, list |-> holder[p].list, jobs |-> holder[p].jobs]
  BY <1>1 DEF ManagerIsSound, ManagerTyped
<1>2. PICK session, handle :
        /\ holder' = [holder EXCEPT ![p] = [holder[p] EXCEPT !.maint = session, !.handle = handle]]
        /\ handle \in BOOLEAN
        /\ handle => db[holder[p].act].id = holder[p].id
        /\ session # "none" \/ handle => holder[p].act # NoDir /\ Uses(p)
  <2>1. CASE P!AcquireMaintenance(p)
    <3>1. holder' = [holder EXCEPT ![p] = [holder[p] EXCEPT !.maint = "restore", !.handle = holder[p].handle]]
      BY <1>0, <1>1, <2>1 DEF P!AcquireMaintenance
    <3>2. holder[p].handle /\ holder[p].handle \in BOOLEAN
      BY <1>1, <2>1 DEF P!AcquireMaintenance, ManagerIsSound, ManagerTyped
    <3> QED
      BY <1>1, <3>1, <3>2 DEF ManagerIsSound, HoldingIsSound, Uses
  <2>2. CASE P!CloseConnections(p)
    <3>1. holder' = [holder EXCEPT ![p] = [holder[p] EXCEPT !.maint = holder[p].maint, !.handle = FALSE]]
      BY <1>0, <1>1, <2>2 DEF P!CloseConnections
    <3>2. holder[p].act # NoDir /\ Uses(p)
      BY <1>1, <2>2 DEF P!CloseConnections, ManagerIsSound, WorkIsSound, Uses
    <3> QED
      BY <3>1, <3>2
  <2>3. CASE P!Reopen(p)
    <3>1. holder' = [holder EXCEPT ![p] = [holder[p] EXCEPT !.maint = holder[p].maint, !.handle = TRUE]]
      BY <1>0, <1>1, <2>3 DEF P!Reopen
    <3>2. holder[p].act # NoDir /\ db[holder[p].act].id = holder[p].id /\ Uses(p)
      BY <1>1, <2>3 DEF P!Reopen, ManagerIsSound, WorkIsSound, Uses, P!Sessions
    <3> QED
      BY <3>1, <3>2
  <2> QED
    BY <2>1, <2>2, <2>3
<1>3. PICK m : /\ m = [holder[p] EXCEPT !.maint = session, !.handle = handle]
               /\ holder' = [holder EXCEPT ![p] = m]
  BY <1>2
<1>4. /\ holder'[p] = m
      /\ m = [life |-> holder[p].life, pc |-> holder[p].pc, op |-> holder[p].op, dir |-> holder[p].dir,
              act |-> holder[p].act, id |-> holder[p].id, handle |-> handle,
              maint |-> session, list |-> holder[p].list, jobs |-> holder[p].jobs]
  BY <1>0, <1>1, <1>3
<1>5. ManagerTyped(p)' /\ m.pc # "unlink"
  BY <1>1, <1>2, <1>4 DEF ManagerIsSound, ManagerTyped, Owning, Listing, Directed
<1>6. WorkIsSound(p)' /\ \A e \in Dirs : Has(p, e)' => Has(p, e)
  BY <1>1, <1>2, <1>4 DEF ManagerIsSound, WorkIsSound, Owning, Listing, Directed, Has, Uses, P!Sessions
<1>7. (m.handle => m.act # NoDir /\ db[m.act].id = m.id) /\ m.life \in {"up", "leaving"}
  BY <1>1, <1>2, <1>4 DEF P!Alive
<1> QED
  BY <1>1, <1>3, <1>5, <1>6, <1>7, QuietStep

LEMMA ReleaseMaintenanceKept ==
    ASSUME P!ProjectInstancesAssumption, ProjectInv, NEW p \in Procs, P!ReleaseMaintenance(p), UNCHANGED load
    PROVE  ProjectInv'
<1>1. /\ ManagerIsSound(p) /\ P!Alive(p) /\ holder = [q \in Procs |-> holder[q]]
      /\ holder[p].pc = "idle" /\ UNCHANGED <<lock, db, req, load>>
  BY DEF ProjectInv, FilesTyped, P!Step, P!ReleaseMaintenance
<1>2. CASE holder' = [holder EXCEPT ![p].maint = "none"]
  <2>1. PICK m : /\ m = [holder[p] EXCEPT !.maint = "none"]
                 /\ holder' = [holder EXCEPT ![p] = m]
    BY <1>1, <1>2
  <2>2. /\ holder'[p] = m
        /\ m = [life |-> holder[p].life, pc |-> holder[p].pc, op |-> holder[p].op, dir |-> holder[p].dir,
                act |-> holder[p].act, id |-> holder[p].id, handle |-> holder[p].handle,
                maint |-> "none", list |-> holder[p].list, jobs |-> holder[p].jobs]
    BY <1>1, <2>1 DEF ManagerIsSound, ManagerTyped
  <2>3. ManagerTyped(p)' /\ m.pc # "unlink"
    BY <1>1, <2>2 DEF ManagerIsSound, ManagerTyped
  <2>4. WorkIsSound(p)' /\ \A e \in Dirs : Has(p, e)' => Has(p, e)
    BY <1>1, <2>2 DEF ManagerIsSound, WorkIsSound, Owning, Listing, Directed, Has, Uses, P!Sessions
  <2>5. (m.handle => m.act # NoDir /\ db[m.act].id = m.id) /\ m.life \in {"up", "leaving"}
    BY <1>1, <2>2 DEF ManagerIsSound, HoldingIsSound, P!Alive
  <2> QED
    BY <1>1, <2>1, <2>3, <2>4, <2>5, QuietStep
<1>3. CASE /\ holder[p].maint = "adopt" /\ ~holder[p].handle
           /\ holder' = [holder EXCEPT ![p].pc = "free", ![p].op = "adopt", ![p].dir = holder[p].act,
                                       ![p].maint = "ended"]
  <2>1. PICK m : /\ m = [holder[p] EXCEPT !.pc = "free", !.op = "adopt", !.dir = holder[p].act, !.maint = "ended"]
                 /\ holder' = [holder EXCEPT ![p] = m]
    BY <1>1, <1>3
  <2>2. /\ holder'[p] = m
        /\ m = [life |-> holder[p].life, pc |-> "free", op |-> "adopt", dir |-> holder[p].act,
                act |-> holder[p].act, id |-> holder[p].id, handle |-> holder[p].handle,
                maint |-> "ended", list |-> holder[p].list, jobs |-> holder[p].jobs]
    BY <1>1, <2>1 DEF ManagerIsSound, ManagerTyped
  <2>a. holder[p].act # NoDir
    BY <1>1, <1>3 DEF ManagerIsSound, WorkIsSound
  <2>3. ManagerTyped(p)' /\ m.pc # "unlink" /\ ~m.handle /\ m.life \in {"up", "leaving"}
    BY <1>1, <1>3, <2>2, <2>a DEF ManagerIsSound, ManagerTyped, Owning, Listing, Directed, P!Alive
  <2>4. WorkIsSound(p)' /\ \A e \in Dirs : Has(p, e)' => Has(p, e)
    BY <1>1, <1>3, <2>2, <2>a DEF ManagerIsSound, WorkIsSound, Owning, Listing, Directed, Leaving, Has, Uses, P!Sessions
  <2> QED
    BY <1>1, <2>1, <2>3, <2>4, QuietStep
<1> QED
  BY <1>2, <1>3 DEF P!ReleaseMaintenance

LEMMA RemoveDatabaseKept ==
    ASSUME P!ProjectInstancesAssumption, ProjectInv, NEW p \in Procs, P!RemoveDatabase(p), UNCHANGED load
    PROVE  ProjectInv'
<1>1. /\ ManagerIsSound(p) /\ FilesTyped /\ P!Alive(p) /\ holder[p].pc = "remove" /\ holder[p].dir \in Dirs
      /\ UNCHANGED <<req, load>> /\ UNCHANGED lock
  BY DEF ProjectInv, P!RemoveDatabase, P!Step, ManagerIsSound, ManagerTyped, Owning, Directed
<1>2. lock[holder[p].dir].by = p /\ (holder[p].act = NoDir \/ holder[p].dir # holder[p].act)
  BY <1>1 DEF ManagerIsSound, HoldingIsSound, WorkIsSound, Has, Owning, Directed, Leaving
<1>3. PICK m : /\ m = [holder[p] EXCEPT !.pc = "free"]
               /\ holder' = [holder EXCEPT ![p] = m]
  BY <1>1 DEF P!RemoveDatabase, P!Goto, FilesTyped
<1>4. /\ holder'[p] = m /\ holder' = [q \in Procs |-> holder'[q]] /\ \A q \in Procs \ {p} : holder'[q] = holder[q]
      /\ m = [life |-> holder[p].life, pc |-> "free", op |-> holder[p].op, dir |-> holder[p].dir,
              act |-> holder[p].act, id |-> holder[p].id, handle |-> holder[p].handle,
              maint |-> holder[p].maint, list |-> holder[p].list, jobs |-> holder[p].jobs]
  BY <1>1, <1>3 DEF FilesTyped, ManagerIsSound, ManagerTyped
<1>5. ManagerTyped(p)' /\ holder'[p].life # "off"
  BY <1>1, <1>4 DEF ManagerIsSound, ManagerTyped, Owning, Directed, P!Alive
<1>6. WorkIsSound(p)'
  <2>1. holder[p].op # "delete" => holder[p].act = NoDir /\ ~holder[p].handle /\ holder[p].maint = "none"
    BY <1>1 DEF ManagerIsSound, ManagerTyped, WorkIsSound, HoldingIsSound, Owning, Directed, Leaving
  <2> QED
    BY <1>1, <1>4, <2>1 DEF ManagerIsSound, WorkIsSound, Owning, Listing, Directed, Leaving, Uses, P!Sessions
<1>7. LockTyped'
  BY <1>1 DEF FilesTyped, LockTyped
<1>8. DbTyped' /\ \A e \in Dirs \ {holder[p].dir} : db'[e] = db[e]
  <2>1. CASE UNCHANGED db
    BY <1>1, <2>1 DEF FilesTyped, DbTyped
  <2>2. CASE db' = [db EXCEPT ![holder[p].dir] = [id |-> 0, ver |-> "current", saved |-> FALSE]]
    BY <1>1, <2>2, DbWritten DEF FilesTyped
  <2> QED
    BY <2>1, <2>2 DEF P!RemoveDatabase, P!NoDb
<1>9. HoldingIsSound(p)'
  <2>2. \A d \in Dirs : Has(p, d)' => lock'[d].by = p /\ lock'[d].open
    BY <1>1, <1>4 DEF ManagerIsSound, HoldingIsSound, Has, Uses, Owning
  <2>3. ASSUME holder'[p].handle PROVE holder'[p].act # NoDir /\ db'[holder'[p].act].id = holder'[p].id
    <3>1. holder[p].act # NoDir /\ db[holder[p].act].id = holder[p].id /\ holder[p].act \in Dirs
      BY <1>1, <1>4, <2>3 DEF ManagerIsSound, ManagerTyped, HoldingIsSound
    <3> QED
      BY <1>2, <1>4, <1>8, <3>1
  <2> QED
    BY <1>4, <2>2, <2>3 DEF HoldingIsSound
<1>10. \A e \in Dirs : LockMoves(p, e)
  BY <1>1 DEF LockMoves
<1>11. \A e \in Dirs : db'[e].id = db[e].id \/ lock[e].by \in {p, NoProc}
  BY <1>2, <1>8
<1> QED
  BY <1>1, <1>4, <1>5, <1>6, <1>7, <1>8, <1>9, <1>10, <1>11, ManagerStep

LEMMA AdoptKept ==
    ASSUME P!ProjectInstancesAssumption, ProjectInv, NEW p \in Procs, P!AcquireRestoredTarget(p), UNCHANGED load
    PROVE  ProjectInv'
<1>n. NoProc \notin Procs /\ NoDir \notin Dirs
  BY DEF P!ProjectInstancesAssumption
<1>1. /\ ManagerIsSound(p) /\ FilesTyped /\ P!Alive(p) /\ holder[p].pc = "idle" /\ holder[p].act = NoDir
      /\ UNCHANGED <<req, load>>
  BY DEF ProjectInv, P!AcquireRestoredTarget, P!Step
<1>2. PICK d \in Dirs :
        /\ lock[d] = P!NoLock
        /\ lock' = [lock EXCEPT ![d] = [by |-> p, full |-> TRUE, open |-> TRUE]]
        /\ db' = [db EXCEPT ![d] = [id |-> 1, ver |-> "current", saved |-> FALSE]]
        /\ holder' = [holder EXCEPT ![p].act = d, ![p].id = 1, ![p].maint = "adopt"]
  BY DEF P!AcquireRestoredTarget
<1>3. PICK m : /\ m = [holder[p] EXCEPT !.act = d, !.id = 1, !.maint = "adopt"]
               /\ holder' = [holder EXCEPT ![p] = m]
  BY <1>1, <1>2 DEF FilesTyped
<1>4. /\ holder'[p] = m /\ holder' = [q \in Procs |-> holder'[q]] /\ \A q \in Procs \ {p} : holder'[q] = holder[q]
      /\ m = [life |-> holder[p].life, pc |-> holder[p].pc, op |-> holder[p].op, dir |-> holder[p].dir,
              act |-> d, id |-> 1, handle |-> holder[p].handle,
              maint |-> "adopt", list |-> holder[p].list, jobs |-> holder[p].jobs]
  BY <1>1, <1>3 DEF FilesTyped, ManagerIsSound, ManagerTyped
<1>5. ManagerTyped(p)' /\ holder'[p].life # "off"
  BY <1>1, <1>4 DEF ManagerIsSound, ManagerTyped, P!Alive
<1>6. WorkIsSound(p)'
  BY <1>1, <1>4, <1>n DEF ManagerIsSound, WorkIsSound, Owning, Listing, Directed
<1>7. LockTyped' /\ lock'[d] = [by |-> p, full |-> TRUE, open |-> TRUE] /\ \A e \in Dirs \ {d} : lock'[e] = lock[e]
  BY <1>1, <1>2, LockWritten DEF FilesTyped
<1>8. DbTyped' /\ \A e \in Dirs \ {d} : db'[e] = db[e]
  BY <1>1, <1>2, DbWritten DEF FilesTyped
<1>9. ~holder[p].handle
  BY <1>1 DEF ManagerIsSound, HoldingIsSound
<1>10. HoldingIsSound(p)'
  BY <1>1, <1>4, <1>7, <1>9 DEF HoldingIsSound, Has, Uses, Owning, P!Alive
<1>11. lock[d].by = NoProc /\ lock'[d].by = p
  BY <1>2, <1>7 DEF P!NoLock
<1> QED
  BY <1>1, <1>4, <1>5, <1>6, <1>7, <1>8, <1>10, <1>11, ManagerStep DEF LockMoves

LEMMA StartKept ==
    ASSUME P!ProjectInstancesAssumption, ProjectInv, NEW p \in Procs, P!Start(p), UNCHANGED load
    PROVE  ProjectInv'
<1>1. /\ ManagerIsSound(p) /\ FilesTyped /\ holder[p] = P!Off /\ UNCHANGED <<lock, db, req, load>>
      /\ (\A d \in Dirs : lock[d].by # p) /\ (\A r \in Requests : req[r].owner # p)
  BY DEF ProjectInv, P!Start, ManagerIsSound, StartIsFresh
<1>2. /\ holder' = [q \in Procs |-> holder'[q]] /\ \A q \in Procs \ {p} : holder'[q] = holder[q]
      /\ holder'[p] = [P!Off EXCEPT !.life = "up"]
  BY <1>1 DEF FilesTyped, P!Start
<1>3. holder'[p] = [life |-> "up", pc |-> "idle", op |-> "none", dir |-> NoDir, act |-> NoDir, id |-> 0,
                    handle |-> FALSE, maint |-> "none", list |-> <<>>, jobs |-> FALSE]
  BY <1>2 DEF P!Off
<1>4. ManagerIsSound(p)'
  <2>1. ManagerTyped(p)'
    BY <1>3 DEF ManagerTyped, Lives, Owning, Listing, Directed
  <2>2. WorkIsSound(p)' /\ StartIsFresh(p)'
    BY <1>3 DEF WorkIsSound, StartIsFresh, Owning, Listing, Directed
  <2>3. HoldingIsSound(p)'
    BY <1>3 DEF HoldingIsSound, Has, Uses, P!Sessions, Owning, P!ProjectInstancesAssumption
  <2> QED
    BY <2>1, <2>2, <2>3 DEF ManagerIsSound
<1>5. ASSUME NEW q \in Procs \ {p} PROVE ManagerIsSound(q)'
  <2>1. ManagerIsSound(q) /\ holder'[q] = holder[q]
    BY <1>2 DEF ProjectInv
  <2> QED
    BY <1>1, <2>1 DEF ManagerIsSound, ManagerTyped, WorkIsSound, HoldingIsSound, StartIsFresh, Has, Uses, P!Alive
<1>6. ASSUME NEW r \in Requests PROVE RequestTyped(r)' /\ ArchivesDead(r)'
  BY <1>1, <1>2 DEF ProjectInv, RequestTyped, ArchivesDead, P!Alive
<1>7. FilesTyped'
  BY <1>1, <1>2 DEF FilesTyped, LockTyped, DbTyped
<1> QED
  BY <1>4, <1>5, <1>6, <1>7 DEF ProjectInv

LEMMA ExitKept ==
    ASSUME P!ProjectInstancesAssumption, ProjectInv, NEW p \in Procs, P!Alive(p), NEW how \in {"dead", "gone"},
           P!Exit(p, how), UNCHANGED load
    PROVE  ProjectInv'
<1>1. /\ ManagerIsSound(p) /\ FilesTyped /\ UNCHANGED <<lock, db, load>>
      /\ holder' = [holder EXCEPT ![p] = [P!Off EXCEPT !.life = how]]
      /\ req' = [r \in Requests |-> IF req[r].by = p THEN P!NoRequest ELSE req[r]]
  BY DEF ProjectInv, P!Exit
<1>2. /\ holder' = [q \in Procs |-> holder'[q]] /\ \A q \in Procs \ {p} : holder'[q] = holder[q]
      /\ holder'[p] = [P!Off EXCEPT !.life = how]
  BY <1>1 DEF FilesTyped
<1>3. holder'[p] = [life |-> how, pc |-> "idle", op |-> "none", dir |-> NoDir, act |-> NoDir, id |-> 0,
                    handle |-> FALSE, maint |-> "none", list |-> <<>>, jobs |-> FALSE]
  BY <1>2 DEF P!Off
<1>4. ManagerIsSound(p)'
  <2>1. ManagerTyped(p)'
    BY <1>3 DEF ManagerTyped, Lives, Owning, Listing, Directed
  <2>2. WorkIsSound(p)' /\ StartIsFresh(p)'
    BY <1>3 DEF WorkIsSound, StartIsFresh, Owning, Listing, Directed
  <2>3. HoldingIsSound(p)'
    BY <1>3 DEF HoldingIsSound, P!Alive
  <2> QED
    BY <2>1, <2>2, <2>3 DEF ManagerIsSound
<1>5. ASSUME NEW q \in Procs \ {p} PROVE ManagerIsSound(q)'
  <2>1. ManagerIsSound(q) /\ holder'[q] = holder[q]
    BY <1>2 DEF ProjectInv
  <2>2. q # NoProc /\ \A r \in Requests : req'[r] = req[r] \/ req'[r].owner = NoProc
    BY <1>1 DEF P!NoRequest, P!ProjectInstancesAssumption
  <2> QED
    BY <1>1, <2>1, <2>2 DEF ManagerIsSound, ManagerTyped, WorkIsSound, HoldingIsSound, StartIsFresh, Has, Uses, P!Alive
<1>6. ASSUME NEW r \in Requests PROVE RequestTyped(r)' /\ ArchivesDead(r)'
  <2>1. CASE req'[r] = P!NoRequest
    BY <2>1 DEF RequestTyped, ArchivesDead, P!NoRequest
  <2>2. CASE req'[r] = req[r]
    BY <1>1, <1>2, <1>3, <2>2 DEF ProjectInv, RequestTyped, ArchivesDead, P!Alive
  <2> QED
    BY <1>1, <2>1, <2>2
<1>7. FilesTyped'
  BY <1>1, <1>2 DEF FilesTyped, LockTyped, DbTyped
<1> QED
  BY <1>4, <1>5, <1>6, <1>7 DEF ProjectInv

(* The steps of one request that leave managers and files alone. *)
LEMMA RequestStep ==
    ASSUME P!ProjectInstancesAssumption, ProjectInv, NEW r \in Requests, NEW m,
           req' = [req EXCEPT ![r] = m],
           m = [pc |-> m.pc, by |-> m.by, dir |-> m.dir, id |-> m.id, owner |-> m.owner],
           IF m.pc = "idle" THEN m.owner = NoProc
           ELSE /\ m.dir \in Dirs /\ m.owner \in Procs /\ holder[m.owner].life # "off" /\ r \in load.requests
                /\ m.pc \in {"dead", "archive"} => ~P!Alive(m.owner)
                /\ m.pc = "archive" => lock[m.dir].by = m.owner,
           UNCHANGED <<holder, lock, db, load>>
    PROVE  ProjectInv'
<1>1. req' = [s \in Requests |-> req'[s]] /\ req'[r] = m /\ \A s \in Requests \ {r} : req'[s] = req[s]
  BY DEF ProjectInv, FilesTyped
<1>2. ASSUME NEW q \in Procs PROVE ManagerIsSound(q)'
  <2>1. ManagerIsSound(q) /\ q # NoProc
    BY DEF ProjectInv, P!ProjectInstancesAssumption
  <2>2. ManagerTyped(q)' /\ WorkIsSound(q)' /\ HoldingIsSound(q)'
    BY <2>1 DEF ManagerIsSound, ManagerTyped, WorkIsSound, HoldingIsSound, Has, Uses, P!Alive
  <2>3. StartIsFresh(q)'
    <3>1. holder[q].life = "off" => m.owner # q
      BY <2>1
    <3> QED
      BY <3>1, <2>1, <1>1 DEF ManagerIsSound, StartIsFresh
  <2> QED
    BY <2>2, <2>3 DEF ManagerIsSound
<1>3. ASSUME NEW s \in Requests PROVE RequestTyped(s)' /\ ArchivesDead(s)'
  <2>1. CASE s = r
    BY <1>1, <2>1 DEF RequestTyped, ArchivesDead, P!Alive
  <2>2. CASE s # r
    BY <1>1, <2>2 DEF ProjectInv, RequestTyped, ArchivesDead, P!Alive
  <2> QED
    BY <2>1, <2>2
<1>4. FilesTyped'
  BY <1>1 DEF ProjectInv, FilesTyped, LockTyped, DbTyped
<1> QED
  BY <1>2, <1>3, <1>4 DEF ProjectInv

LEMMA CloseOtherKept ==
    ASSUME P!ProjectInstancesAssumption, ProjectInv, NEW r \in Requests, P!CloseOther(r), UNCHANGED load
    PROVE  ProjectInv'
<1>1. PICK p \in Procs, d \in Dirs :
        /\ lock[d].full
        /\ req' = [req EXCEPT ![r] = [pc |-> "post", by |-> p, dir |-> d, id |-> db[d].id, owner |-> lock[d].by]]
  BY DEF P!CloseOther
<1>2. lock[d].by \in Procs
  BY <1>1 DEF ProjectInv, FilesTyped, LockTyped
<1>3. holder[lock[d].by].life # "off"
  BY <1>2 DEF ProjectInv, ManagerIsSound, StartIsFresh
<1>4. PICK m : m = [pc |-> "post", by |-> p, dir |-> d, id |-> db[d].id, owner |-> lock[d].by]
  OBVIOUS
<1> QED
  BY <1>1, <1>2, <1>3, <1>4, RequestStep DEF P!CloseOther

(* A request goes on or ends. *)
LEMMA RequestMoves ==
    ASSUME P!ProjectInstancesAssumption, ProjectInv, NEW r \in Requests, req[r].pc # "idle",
           \/ P!RequestEnds(r)
           \/ \E to : /\ P!RequestTo(r, to) /\ to # "idle"
                      /\ to \in {"dead", "archive"} => ~P!Alive(req[r].owner)
                      /\ to = "archive" => lock[req[r].dir].by = req[r].owner,
           UNCHANGED <<holder, lock, db, load>>
    PROVE  ProjectInv'
<1>1. /\ req[r] = [pc |-> req[r].pc, by |-> req[r].by, dir |-> req[r].dir, id |-> req[r].id, owner |-> req[r].owner]
      /\ req[r].dir \in Dirs /\ req[r].owner \in Procs /\ r \in load.requests /\ holder[req[r].owner].life # "off"
  BY DEF ProjectInv, RequestTyped, ManagerIsSound, StartIsFresh
<1>2. CASE P!RequestEnds(r)
  <2>1. PICK m : m = P!NoRequest /\ req' = [req EXCEPT ![r] = m]
    BY <1>2 DEF P!RequestEnds
  <2>2. m = [pc |-> "idle", by |-> NoProc, dir |-> NoDir, id |-> 0, owner |-> NoProc]
    BY <2>1 DEF P!NoRequest
  <2> QED
    BY <2>1, <2>2, RequestStep
<1>3. ASSUME NEW to, P!RequestTo(r, to), to # "idle",
             to \in {"dead", "archive"} => ~P!Alive(req[r].owner),
             to = "archive" => lock[req[r].dir].by = req[r].owner
      PROVE  ProjectInv'
  <2>1. PICK m : m = [req[r] EXCEPT !.pc = to] /\ req' = [req EXCEPT ![r] = m]
    BY <1>3 DEF P!RequestTo, ProjectInv, FilesTyped
  <2>2. m = [pc |-> to, by |-> req[r].by, dir |-> req[r].dir, id |-> req[r].id, owner |-> req[r].owner]
    BY <2>1, <1>1
  <2> QED
    BY <1>1, <1>3, <2>1, <2>2, RequestStep
<1> QED
  BY <1>2, <1>3

LEMMA ServedKept ==
    ASSUME P!ProjectInstancesAssumption, ProjectInv, NEW r \in Requests,
           P!ServeCurrent(r) \/ P!AwaitUnlock(r) \/ P!Probe(r) \/ P!VerifyOwner(r), UNCHANGED load
    PROVE  ProjectInv'
<1>1. req[r].pc # "idle" /\ UNCHANGED <<holder, lock, db, load>>
  BY DEF P!ServeCurrent, P!AwaitUnlock, P!Probe, P!VerifyOwner
<1>2. CASE P!ServeCurrent(r)
  BY <1>1, <1>2, RequestMoves DEF P!ServeCurrent
<1>3. CASE P!AwaitUnlock(r)
  BY <1>1, <1>3, RequestMoves DEF P!AwaitUnlock
<1>4. CASE P!Probe(r)
  BY <1>1, <1>4, RequestMoves DEF P!Probe
<1>5. CASE P!VerifyOwner(r)
  <2>1. req[r].pc = "dead" /\ ~P!Alive(req[r].owner)
    BY <1>5 DEF P!VerifyOwner, ProjectInv, ArchivesDead
  <2>2. P!RequestEnds(r) \/ (P!RequestTo(r, "archive") /\ lock[req[r].dir].by = req[r].owner)
    BY <1>5 DEF P!VerifyOwner, P!SameOwner
  <2> QED
    BY <1>1, <2>1, <2>2, RequestMoves
<1> QED
  BY <1>2, <1>3, <1>4, <1>5

LEMMA ServeCloseKept ==
    ASSUME P!ProjectInstancesAssumption, ProjectInv, NEW r \in Requests, P!ServeClose(r), UNCHANGED load
    PROVE  ProjectInv'
<1>1. PICK p : p = req[r].owner
  OBVIOUS
<1>2. /\ p \in Procs /\ ManagerIsSound(p) /\ FilesTyped /\ P!Alive(p) /\ holder[p].pc = "idle" /\ req[r].pc = "serve"
      /\ UNCHANGED <<lock, db, load>>
  BY <1>1 DEF P!ServeClose, P!Step, P!Alive, ProjectInv, RequestTyped
<1>3. CASE P!RequestEnds(r) /\ UNCHANGED holder
  BY <1>2, <1>3, RequestMoves
<1>r. RequestTyped(r)
  BY DEF ProjectInv
<1>4. ASSUME NEW m, NEW life \in {holder[p].life, "leaving"}, NEW at \in {"idle", "free"}, NEW op, NEW dir,
             NEW handle \in BOOLEAN, holder' = [holder EXCEPT ![p] = m],
             P!RequestTo(r, "wait") \/ P!RequestTo(r, "closing") \/ P!RequestEnds(r),
             m = [life |-> life, pc |-> at, op |-> op, dir |-> dir,
                  act |-> holder[p].act, id |-> holder[p].id, handle |-> handle,
                  maint |-> holder[p].maint, list |-> holder[p].list, jobs |-> holder[p].jobs],
             at = "free" => /\ holder[p].act # NoDir /\ op = "serve" /\ dir = holder[p].act
                            /\ ~handle /\ holder[p].maint = "none" /\ holder[p].handle,
             handle => holder[p].handle
      PROVE  ProjectInv'
  <2>1. holder' = [q \in Procs |-> holder'[q]] /\ holder'[p] = m /\ \A q \in Procs \ {p} : holder'[q] = holder[q]
    BY <1>2, <1>4 DEF FilesTyped
  <2>2. ManagerTyped(p)' /\ holder'[p].life # "off"
    BY <1>2, <1>4, <2>1 DEF ManagerIsSound, ManagerTyped, Owning, Listing, Directed, Lives, P!Alive
  <2>3. WorkIsSound(p)'
    BY <1>2, <1>4, <2>1 DEF ManagerIsSound, WorkIsSound, Owning, Listing, Directed, Leaving, Uses, P!Sessions
  <2>a. \A d \in Dirs : Has(p, d)' => Has(p, d)
    BY <1>2, <1>4, <2>1 DEF Has, Uses, Owning
  <2>4. HoldingIsSound(p)'
    <3>1. \A d \in Dirs : Has(p, d)' => lock'[d].by = p /\ lock'[d].open
      BY <1>2, <2>a DEF ManagerIsSound, HoldingIsSound
    <3>2. holder'[p].handle => holder'[p].act # NoDir /\ db'[holder'[p].act].id = holder'[p].id
      BY <1>2, <1>4, <2>1 DEF ManagerIsSound, HoldingIsSound
    <3> QED
      BY <1>4, <2>1, <3>1, <3>2 DEF HoldingIsSound
  <2>5. LockTyped' /\ DbTyped'
    BY <1>2 DEF FilesTyped, LockTyped, DbTyped
  <2>6. PICK n : /\ req' = [req EXCEPT ![r] = n]
                 /\ n = P!NoRequest \/ n = [req[r] EXCEPT !.pc = "wait"] \/ n = [req[r] EXCEPT !.pc = "closing"]
    BY <1>2, <1>4 DEF P!RequestTo, P!RequestEnds, FilesTyped
  <2>r. \/ n = [pc |-> "wait", by |-> req[r].by, dir |-> req[r].dir, id |-> req[r].id, owner |-> req[r].owner]
        \/ n = [pc |-> "closing", by |-> req[r].by, dir |-> req[r].dir, id |-> req[r].id, owner |-> req[r].owner]
        \/ n = [pc |-> "idle", by |-> NoProc, dir |-> NoDir, id |-> 0, owner |-> NoProc]
    BY <1>r, <2>6 DEF RequestTyped, P!NoRequest
  <2>8. req' = [s \in Requests |-> req'[s]] /\ req'[r] = n /\ \A s \in Requests \ {r} : req'[s] = req[s]
    BY <1>2, <2>6 DEF FilesTyped
  <2>9. RequestTyped(r)' /\ req'[r].pc \notin {"dead", "archive"} /\ req'[r].owner \in {req[r].owner, NoProc}
    BY <1>2, <1>r, <2>r, <2>8 DEF RequestTyped
  <2>10. \A d \in Dirs : LockMoves(p, d)
    BY <1>2 DEF LockMoves
  <2> QED
    BY <1>2, <2>1, <2>2, <2>3, <2>4, <2>5, <2>8, <2>9, <2>10, ManagerAndRequest
<1>5. holder[p] = [life |-> holder[p].life, pc |-> holder[p].pc, op |-> holder[p].op, dir |-> holder[p].dir,
                   act |-> holder[p].act, id |-> holder[p].id, handle |-> holder[p].handle,
                   maint |-> holder[p].maint, list |-> holder[p].list, jobs |-> holder[p].jobs]
  BY <1>2 DEF ManagerIsSound, ManagerTyped
<1>6. CASE P!CloseHandle(p, "serve") /\ P!RequestTo(r, "closing")
  <2>1. PICK m : m = [holder[p] EXCEPT !.pc = "free", !.op = "serve", !.dir = holder[p].act, !.handle = FALSE]
                 /\ holder' = [holder EXCEPT ![p] = m]
    BY <1>2, <1>6 DEF P!CloseHandle, FilesTyped
  <2>2. m = [life |-> holder[p].life, pc |-> "free", op |-> "serve", dir |-> holder[p].act,
             act |-> holder[p].act, id |-> holder[p].id, handle |-> FALSE,
             maint |-> holder[p].maint, list |-> holder[p].list, jobs |-> holder[p].jobs]
    BY <1>5, <2>1
  <2>3. holder[p].act # NoDir /\ holder[p].maint = "none" /\ holder[p].handle
    BY <1>6 DEF P!CloseHandle, P!CanClose, P!Preflight
  <2>4. PICK handle \in BOOLEAN : handle = FALSE
    OBVIOUS
  <2> QED
    BY <1>4, <1>6, <2>1, <2>2, <2>3, <2>4
<1>h. CASE P!HandleFails(p) /\ P!RequestEnds(r)
  <2>1. PICK m : m = [holder[p] EXCEPT !.handle = FALSE] /\ holder' = [holder EXCEPT ![p] = m]
    BY <1>2, <1>h DEF P!HandleFails, FilesTyped
  <2>2. m = [life |-> holder[p].life, pc |-> "idle", op |-> holder[p].op, dir |-> holder[p].dir,
             act |-> holder[p].act, id |-> holder[p].id, handle |-> FALSE,
             maint |-> holder[p].maint, list |-> holder[p].list, jobs |-> holder[p].jobs]
    BY <1>2, <1>5, <2>1
  <2> QED
    BY <1>4, <1>h, <2>1, <2>2
<1>7. CASE P!RequestTo(r, "wait") /\ holder' = [holder EXCEPT ![p].life = "leaving"]
  <2>1. PICK m : m = [holder[p] EXCEPT !.life = "leaving"] /\ holder' = [holder EXCEPT ![p] = m]
    BY <1>2, <1>7 DEF FilesTyped
  <2>2. m = [life |-> "leaving", pc |-> "idle", op |-> holder[p].op, dir |-> holder[p].dir,
             act |-> holder[p].act, id |-> holder[p].id, handle |-> holder[p].handle,
             maint |-> holder[p].maint, list |-> holder[p].list, jobs |-> holder[p].jobs]
    BY <1>2, <1>5, <2>1
  <2>3. holder[p].handle \in BOOLEAN
    BY <1>2 DEF ManagerIsSound, ManagerTyped
  <2> QED
    BY <1>4, <1>7, <2>1, <2>2, <2>3
<1> QED
  BY <1>1, <1>3, <1>6, <1>h, <1>7 DEF P!ServeClose

LEMMA ArchiveLockKept ==
    ASSUME P!ProjectInstancesAssumption, RenamesAreSafe, ProjectInv, NEW r \in Requests, P!ArchiveLock(r), UNCHANGED load
    PROVE  ProjectInv'
<1>1. /\ req[r].pc = "archive" /\ P!RequestEnds(r) /\ UNCHANGED <<holder, db, load>> /\ FilesTyped
      /\ RequestTyped(r) /\ ArchivesDead(r)
  BY DEF P!ArchiveLock, ProjectInv
<1>2. CASE UNCHANGED lock
  BY <1>1, <1>2, RequestMoves
<1>3. CASE P!RemoveLock(req[r].dir) /\ (load.renames \/ ~P!HeldOpen(req[r].dir))
  <2>1. ~P!HeldOpen(req[r].dir) /\ (load.renames => ~P!Alive(lock[req[r].dir].by))
    BY <1>1, <1>3 DEF ArchivesDead, P!HeldOpen
  <2>2. LockTyped' /\ \A e \in Dirs : IF e = req[r].dir THEN lock'[e] = P!NoLock ELSE lock'[e] = lock[e]
    BY <1>1, <1>3, LockRemoved DEF FilesTyped
  <2>3. /\ req' = [s \in Requests |-> req'[s]] /\ req'[r] = P!NoRequest
        /\ \A s \in Requests \ {r} : req'[s] = req[s]
    BY <1>1 DEF FilesTyped, P!RequestEnds
  <2>4. ASSUME NEW q \in Procs PROVE ManagerIsSound(q)'
    <3>1. ManagerIsSound(q) /\ q # NoProc
      BY DEF ProjectInv, P!ProjectInstancesAssumption
    <3>2. ManagerTyped(q)' /\ WorkIsSound(q)'
      BY <1>1, <3>1 DEF ManagerIsSound, ManagerTyped, WorkIsSound, Uses
    <3>3. HoldingIsSound(q)'
      <4>1. ASSUME P!Alive(q), NEW d \in Dirs, Has(q, d) PROVE lock[d].by = q /\ lock[d].open /\ lock'[d] = lock[d]
        BY <2>1, <2>2, <3>1, <4>1 DEF ManagerIsSound, HoldingIsSound, P!HeldOpen
      <4>2. ASSUME P!Alive(q), holder[q].pc = "unlink", load.renames
            PROVE  lock'[holder[q].dir].by = q
        BY <2>1, <2>2, <3>1, <4>2 DEF ManagerIsSound, ManagerTyped, HoldingIsSound, Directed
      <4>3. (P!Alive(q)' <=> P!Alive(q)) /\ \A d : Has(q, d)' <=> Has(q, d)
        BY <1>1 DEF Has, Uses, P!Alive
      <4> QED
        BY <1>1, <3>1, <4>1, <4>2, <4>3 DEF ManagerIsSound, HoldingIsSound
    <3>4. StartIsFresh(q)'
      BY <1>1, <2>2, <2>3, <3>1 DEF ManagerIsSound, StartIsFresh, P!NoLock, P!NoRequest
    <3> QED
      BY <3>2, <3>3, <3>4 DEF ManagerIsSound
  <2>5. ASSUME NEW s \in Requests PROVE RequestTyped(s)' /\ ArchivesDead(s)'
    <3>1. CASE s = r
      BY <2>3, <3>1 DEF RequestTyped, ArchivesDead, P!NoRequest
    <3>2. CASE s # r
      <4>1. RequestTyped(s) /\ ArchivesDead(s) /\ req'[s] = req[s]
        BY <2>3, <3>2 DEF ProjectInv
      <4>2. load.renames => req[s].pc = "idle"
        BY <1>1, <3>2, <4>1 DEF FilesTyped, RenamesAreSafe, RequestTyped
      <4> QED
        BY <1>1, <4>1, <4>2 DEF RequestTyped, ArchivesDead, P!Alive
    <3> QED
      BY <3>1, <3>2
  <2> QED
    BY <1>1, <2>2, <2>3, <2>4, <2>5 DEF ProjectInv, FilesTyped, DbTyped
<1> QED
  BY <1>2, <1>3 DEF P!ArchiveLock

LEMMA ProjectStep ==
    ASSUME P!ProjectInstancesAssumption, RenamesAreSafe, ProjectInv, P!Next PROVE ProjectInv'
<1>1. ASSUME NEW p \in Procs, P!Manage(p), UNCHANGED load PROVE ProjectInv'
  <2>1. CASE P!Crash(p) \/ P!Shutdown(p)
    <3>1. P!Alive(p)
      BY <2>1 DEF P!Crash, P!Shutdown, P!Step
    <3>2. \/ \E how \in {"dead", "gone"} : P!Exit(p, how)
          \/ P!Step(p, "idle") /\ (P!CloseHandle(p, "close") \/ P!HandleFails(p)) /\ UNCHANGED <<lock, db, req>>
      BY <2>1 DEF P!Crash, P!Shutdown
    <3> QED
      BY <1>1, <3>1, <3>2, ExitKept, CloseHandleKept
  <2>2. CASE P!Close(p)
    BY <1>1, <2>2, CloseHandleKept DEF P!Close
  <2>3. CASE P!Start(p) \/ P!Install(p) \/ P!TakeLock(p) \/ P!WriteOwner(p) \/ P!FactoryCreate(p) \/ P!FactoryOpen(p)
             \/ P!FactoryFails(p) \/ P!RecordFails(p) \/ P!CloseLock(p) \/ P!Unlink(p)
    BY <1>1, <2>3, StartKept, InstallBeginsKept, AcquireKept, WriteOwnerKept, FactoryKept,
       GivingUpKept, CloseLockKept, UnlinkKept DEF P!TakeLock
  <2>4. CASE P!Listed(p) \/ P!Record(p) \/ P!Work(p) \/ P!DeleteRecent(p) \/ P!RemoveDatabase(p)
             \/ P!AcquireMaintenance(p) \/ P!AcquireRestoredTarget(p) \/ P!CloseConnections(p)
             \/ P!Reopen(p) \/ P!ReleaseMaintenance(p)
    BY <1>1, <2>4, ListedKept, DeleteRecentKept, RemoveDatabaseKept, SessionKept, AdoptKept, ReleaseMaintenanceKept
  <2> QED
    BY <1>1, <2>1, <2>2, <2>3, <2>4 DEF P!Manage
<1>2. ASSUME NEW r \in Requests, P!Serve(r), UNCHANGED load PROVE ProjectInv'
  BY <1>2, CloseOtherKept, ServedKept, ServeCloseKept, ArchiveLockKept DEF P!Serve
<1> QED
  BY <1>1, <1>2 DEF P!Next

LEMMA ProjectStarts ==
    ASSUME P!ProjectInstancesAssumption, P!Init PROVE ProjectInv
<1>1. /\ lock = [d \in Dirs |-> P!NoLock] /\ holder = [p \in Procs |-> P!Off]
      /\ req = [r \in Requests |-> P!NoRequest] /\ load \in Loads
      /\ db \in [Dirs -> {[id |-> 1, ver |-> v, saved |-> FALSE] : v \in {"old", "current", "newer"}}]
  BY DEF P!Init
<1>2. FilesTyped
  <2>1. LockTyped
    BY <1>1 DEF LockTyped, P!NoLock
  <2>2. DbTyped
    BY <1>1 DEF DbTyped
  <2> QED
    BY <1>1, <2>1, <2>2 DEF FilesTyped
<1>3. ASSUME NEW p \in Procs PROVE ManagerIsSound(p)
  <2>1. holder[p] = [life |-> "off", pc |-> "idle", op |-> "none", dir |-> NoDir, act |-> NoDir, id |-> 0,
                     handle |-> FALSE, maint |-> "none", list |-> <<>>, jobs |-> FALSE]
    BY <1>1 DEF P!Off
  <2>2. ManagerTyped(p)
    BY <2>1 DEF ManagerTyped, Lives, Owning, Listing, Directed
  <2>3. WorkIsSound(p) /\ HoldingIsSound(p)
    BY <2>1 DEF WorkIsSound, HoldingIsSound, Owning, Listing, Directed, P!Alive
  <2>4. StartIsFresh(p)
    BY <1>1 DEF StartIsFresh, P!NoLock, P!NoRequest, P!ProjectInstancesAssumption
  <2> QED
    BY <2>2, <2>3, <2>4 DEF ManagerIsSound
<1>4. ASSUME NEW r \in Requests PROVE RequestTyped(r) /\ ArchivesDead(r)
  BY <1>1 DEF RequestTyped, ArchivesDead, P!NoRequest
<1> QED
  BY <1>2, <1>3, <1>4 DEF ProjectInv

LEMMA ProjectStutters ==
    ASSUME ProjectInv, UNCHANGED projectVars PROVE ProjectInv'
<1>1. UNCHANGED <<lock, db, holder, req, load>>
  BY DEF projectVars
<1>2. FilesTyped'
  BY <1>1 DEF ProjectInv, FilesTyped, LockTyped, DbTyped
<1>3. ASSUME NEW p \in Procs PROVE ManagerIsSound(p)'
  BY <1>1 DEF ProjectInv, ManagerIsSound, ManagerTyped, WorkIsSound, HoldingIsSound, StartIsFresh, Has, Uses, P!Alive
<1>4. ASSUME NEW r \in Requests PROVE RequestTyped(r)' /\ ArchivesDead(r)'
  BY <1>1 DEF ProjectInv, RequestTyped, ArchivesDead, P!Alive
<1> QED
  BY <1>2, <1>3, <1>4 DEF ProjectInv

-----------------------------------------------------------------------------
(* Managers, lock files, databases and close requests agree in every       *)
(* state, however many processes open, close, delete, maintain and end.    *)
THEOREM ProjectInvariant ==
    ASSUME RenamesAreSafe PROVE MaintenanceSpec => []ProjectInv
<1>1. MaintenanceInit => ProjectInv
  BY ProjectStarts, InstancesAssumption DEF MaintenanceInit
<1>2. ProjectInv /\ [MaintenanceNext]_<<vars, projectVars, targetVars, scene>> => ProjectInv'
  BY ProjectStep, ProjectStutters, InstancesAssumption DEF MaintenanceNext
<1> QED
  BY <1>1, <1>2, PTL DEF MaintenanceSpec

(* HolderIsAlone of ProjectInstances: a live process that has a database   *)
(* open or a restore session is named by the lock file of its directory,   *)
(* and the database under its handle is the one it opened.                 *)
THEOREM LockNamesHolder ==
    ASSUME RenamesAreSafe PROVE MaintenanceSpec => []P!HolderIsAlone
<1>1. ProjectInv => P!HolderIsAlone
  <2>1. SUFFICES ASSUME ProjectInv, NEW p \in Procs, P!Alive(p), Uses(p)
                 PROVE  /\ holder[p].act \in Dirs /\ lock[holder[p].act].by = p
                        /\ holder[p].handle => db[holder[p].act].id = holder[p].id
    BY DEF P!HolderIsAlone, Uses
  <2>2. ManagerIsSound(p)
    BY <2>1 DEF ProjectInv
  <2>3. holder[p].act \in Dirs /\ Has(p, holder[p].act)
    BY <2>1, <2>2 DEF ManagerIsSound, ManagerTyped, WorkIsSound, HoldingIsSound, Has, Uses, P!Sessions
  <2> QED
    BY <2>1, <2>2, <2>3 DEF ManagerIsSound, HoldingIsSound
<1> QED
  BY <1>1, ProjectInvariant, PTL

(* A step of a manager changes no lock file that another process has open. *)
LEMMA OwnLockOnly ==
    ASSUME P!ProjectInstancesAssumption, ProjectInv, NEW p \in Procs, P!Manage(p),
           NEW d \in Dirs, lock'[d] # lock[d], P!HeldOpen(d)
    PROVE  holder'[lock[d].by] # holder[lock[d].by]
<1>1. ManagerIsSound(p) /\ FilesTyped /\ lock[d].by # NoProc /\ lock[d].by \in Procs
  BY DEF ProjectInv, P!HeldOpen, P!Alive, P!ProjectInstancesAssumption
<1>2. CASE P!Acquire(p) \/ P!AcquireRestoredTarget(p)
  <2>1. PICK e \in Dirs : lock[e] = P!NoLock /\ \E rec : lock' = [lock EXCEPT ![e] = rec]
    BY <1>1, <1>2 DEF P!Acquire, P!AcquireRestoredTarget, P!Step, ManagerIsSound, ManagerTyped, Directed
  <2>2. e = d
    BY <1>1, <2>1 DEF FilesTyped, LockTyped
  <2> QED
    BY <1>1, <2>1, <2>2 DEF P!NoLock
<1>3. ASSUME NEW to, holder' = [holder EXCEPT ![p].pc = to], to # holder[p].pc, Has(p, holder[p].dir),
             NEW rec, lock' = [lock EXCEPT ![holder[p].dir] = rec], P!Alive(p)
      PROVE  holder'[lock[d].by] # holder[lock[d].by]
  <2>1. d = holder[p].dir
    BY <1>1, <1>3 DEF FilesTyped, LockTyped
  <2>2. lock[d].by = p
    BY <1>1, <1>3, <2>1 DEF ManagerIsSound, HoldingIsSound
  <2>3. holder'[p].pc = to
    BY <1>1, <1>3 DEF FilesTyped, ManagerIsSound, ManagerTyped
  <2> QED
    BY <1>3, <2>2, <2>3
<1>4. CASE P!WriteOwner(p)
  <2>1. P!Alive(p) /\ holder[p].pc = "own" /\ Has(p, holder[p].dir)
    BY <1>4 DEF P!WriteOwner, P!Step, Has, Owning
  <2>2. PICK to \in {"remove", "factory"} : holder' = [holder EXCEPT ![p].pc = to]
    BY <1>4 DEF P!WriteOwner, P!Goto
  <2>3. \E rec : lock' = [lock EXCEPT ![holder[p].dir] = rec]
    BY <1>4 DEF P!WriteOwner
  <2> QED
    BY <1>3, <2>1, <2>2, <2>3
<1>5. CASE P!CloseLock(p)
  <2>1. P!Alive(p) /\ holder[p].pc = "free" /\ Has(p, holder[p].dir) /\ holder' = [holder EXCEPT ![p].pc = "unlink"]
    BY <1>5 DEF P!CloseLock, P!Step, P!Goto, Has, Owning
  <2>2. \E rec : lock' = [lock EXCEPT ![holder[p].dir] = rec]
    BY <1>5 DEF P!CloseLock
  <2> QED
    BY <1>3, <2>1, <2>2
<1>6. CASE P!Unlink(p)
  <2>1. /\ P!Alive(p) /\ holder[p].pc = "unlink" /\ P!RemoveLock(holder[p].dir)
        /\ load.renames \/ ~P!HeldOpen(holder[p].dir)
        /\ \E failed \in BOOLEAN : P!Released(p, failed)
    BY <1>6 DEF P!Unlink, P!Step
  <2>2. d = holder[p].dir
    BY <1>1, <2>1 DEF FilesTyped, LockTyped, P!RemoveLock
  <2>3. lock[d].by = p
    BY <1>1, <2>1, <2>2 DEF ManagerIsSound, HoldingIsSound
  <2>4. PICK failed \in BOOLEAN : P!Released(p, failed)
    BY <1>6 DEF P!Unlink
  <2>5. holder'[p].pc = "idle"
    BY <1>1, <2>4 DEF P!Released, P!Vacant, P!Off, FilesTyped, ManagerIsSound, ManagerTyped
  <2> QED
    BY <2>1, <2>3, <2>5
<1>10. lock' # lock
  OBVIOUS
<1>11. ~(\/ P!Start(p) \/ P!Crash(p) \/ P!Install(p) \/ P!FactoryCreate(p) \/ P!FactoryOpen(p) \/ P!FactoryFails(p)
         \/ P!Listed(p) \/ P!Record(p) \/ P!RecordFails(p) \/ P!Work(p) \/ P!Close(p) \/ P!Shutdown(p)
         \/ P!DeleteRecent(p) \/ P!RemoveDatabase(p) \/ P!AcquireMaintenance(p) \/ P!CloseConnections(p)
         \/ P!Reopen(p) \/ P!ReleaseMaintenance(p))
  BY <1>10 DEF P!Start, P!Crash, P!Exit, P!Install, P!FactoryCreate, P!FactoryOpen, P!FactoryFails, P!Listed,
     P!Record, P!RecordFails, P!Work, P!Close, P!Shutdown, P!DeleteRecent, P!RemoveDatabase, P!AcquireMaintenance,
     P!CloseConnections, P!Reopen, P!ReleaseMaintenance
<1> QED
  BY <1>2, <1>4, <1>5, <1>6, <1>11 DEF P!Manage, P!TakeLock

(* LiveKeepsLock: the lock file that a live process has open is removed or *)
(* replaced in a step of that process only.                                *)
THEOREM LiveKeepsLockHolds ==
    ASSUME RenamesAreSafe PROVE MaintenanceSpec => LiveKeepsLock
<1>1. ASSUME ProjectInv, [MaintenanceNext]_<<vars, projectVars, targetVars, scene>>
      PROVE  [\A d \in Dirs : lock'[d] # lock[d] /\ P!HeldOpen(d)
                                => holder'[lock[d].by] # holder[lock[d].by]]_P!vars
  <2>1. CASE P!Next
    <3>1. SUFFICES ASSUME NEW d \in Dirs, lock'[d] # lock[d], P!HeldOpen(d)
                   PROVE  holder'[lock[d].by] # holder[lock[d].by]
      OBVIOUS
    <3>2. CASE \E p \in Procs : P!Manage(p)
      BY <1>1, <3>1, <3>2, OwnLockOnly, InstancesAssumption
    <3>3. ASSUME NEW r \in Requests, P!Serve(r) PROVE FALSE
      <4>1. P!ArchiveLock(r)
        BY <3>1, <3>3 DEF P!Serve, P!CloseOther, P!ServeCurrent, P!ServeClose, P!AwaitUnlock, P!Probe, P!VerifyOwner
      <4>2. /\ FilesTyped /\ ArchivesDead(r) /\ req[r].pc = "archive"
            /\ lock' # lock => P!RemoveLock(req[r].dir) /\ (load.renames \/ ~P!HeldOpen(req[r].dir))
        BY <1>1, <4>1 DEF ProjectInv, P!ArchiveLock
      <4>3. d = req[r].dir
        BY <3>1, <4>2 DEF FilesTyped, LockTyped, P!RemoveLock
      <4> QED
        BY <3>1, <4>2, <4>3 DEF ArchivesDead, P!HeldOpen
    <3> QED
      BY <2>1, <3>2, <3>3 DEF P!Next
  <2>2. CASE UNCHANGED projectVars
    BY <2>2 DEF projectVars, P!vars
  <2> QED
    BY <1>1, <2>1, <2>2 DEF MaintenanceNext
<1> QED
  BY <1>1, ProjectInvariant, PTL DEF MaintenanceSpec, LiveKeepsLock, P!LiveKeepsLock

-------------------------------------------------------------------------------
(***************************************************************************)
(* The selection of an empty folder (RestoreTargets), for any number of    *)
(* folders, requests, selections, restores and failing calls.              *)
(***************************************************************************)
Places == Folders \cup {Home, T!Nowhere}
AtWork == {"take", "acquire", "return", "install", "reopen"}
Leased == {"acquire", "return"}
Session == {"install", "reopen"}
Locking == {"lock", "reserve"}
Done == {"succeeded", "held"}

Selections == [folder : Folders, unused : BOOLEAN]
Preflights == [pc : {"idle", "registry", "offer"} \cup Locking, generation : Nat,
               state : {"", "matched", "required", "confirmed"}, current : Places]
Restores == [generation : Nat, status : {"queued", "failed", "open"} \cup Done]
Executions == [pc : {"idle"} \cup AtWork, job : Nat, generation : Nat]

TargetsTyped ==
    /\ folder \in [Folders -> [lock : {"none", "held", "stale"}, entries : SUBSET {"project.db", "file"}]]
    /\ selections \in Seq(Selections) /\ restores \in Seq(Restores)
    /\ reserved \in [Folders -> Nat] /\ leaving \subseteq Folders /\ registered \in Places
    /\ manager \in [active : Places, restored : BOOLEAN, opened : BOOLEAN]
    /\ preflights \in [Preflighters -> Preflights] /\ executor \in Executions
    /\ offers \subseteq [generation : DOMAIN selections, state : {"", "matched", "required", "confirmed"}]
    /\ challenges \subseteq [generation : DOMAIN selections, current : Places]

(* The selection a generation comes from; a queued Job is executed.        *)
GenerationsExist ==
    /\ \A f \in Folders : reserved[f] # 0 => reserved[f] \in DOMAIN selections /\ T!Where(reserved[f]) = f
    /\ \A c \in Preflighters : preflights[c].pc # "idle" => preflights[c].generation \in DOMAIN selections
    /\ \A j \in DOMAIN restores : restores[j].generation \in DOMAIN selections
    /\ executor.pc # "idle" => executor.job \in DOMAIN restores /\ restores[executor.job].status = "queued"
    /\ executor.pc \in Leased => executor.generation \in DOMAIN selections /\ T!Where(executor.generation) = T!Target

(* Who holds the lock of a folder. *)
Reserving(c, f) == preflights[c].pc = "reserve" /\ T!Where(preflights[c].generation) = f
Lent(f) == executor.pc \in Leased /\ T!Target = f

LockHasOneHolder(f) ==
    /\ folder[f].lock = "held" <=> (\/ \E c \in Preflighters : Reserving(c, f)
                                    \/ reserved[f] # 0 \/ Lent(f) \/ manager.active = f \/ f \in leaving)
    /\ \A c, d \in Preflighters : Reserving(c, f) /\ Reserving(d, f) => c = d
    /\ (\E c \in Preflighters : Reserving(c, f)) =>
          reserved[f] = 0 /\ ~Lent(f) /\ manager.active # f /\ f \notin leaving
    /\ reserved[f] # 0 => ~Lent(f) /\ manager.active # f /\ f \notin leaving
    /\ Lent(f) => manager.active # f /\ f \notin leaving
    /\ manager.active = f => f \notin leaving
    /\ f \in leaving => running # "running"

(* Where a generation still is on its way to its one restore. *)
Fresh(g) == g \in DOMAIN selections /\ selections[g].unused
Looked(c, g) == preflights[c].pc \in Locking /\ preflights[c].generation = g
Kept(g) == \E f \in Folders : reserved[f] = g
Taken(g) == executor.pc \in Leased /\ executor.generation = g

(* The generation has left every place before the execution. *)
Given(g) == ~Fresh(g) /\ (\A c \in Preflighters : ~Looked(c, g)) /\ ~Kept(g)

GenerationIsOnce(g) ==
    /\ \A c, d \in Preflighters : Looked(c, g) /\ Looked(d, g) => c = d
    /\ (\E c \in Preflighters : Looked(c, g)) => ~Fresh(g) /\ ~Kept(g)
    /\ Kept(g) => ~Fresh(g)
    /\ Taken(g) => Given(g)

(* The restore under way: its target, its generation and its session. *)
ExecutionIsSound ==
    LET g == restores[executor.job].generation IN
    /\ executor.pc # "idle" => \A i \in DOMAIN restores : restores[i].status \in Done => restores[i].generation # g
    /\ executor.pc = "take" => Given(g) \/ reserved[T!Where(g)] = g
    /\ executor.pc \in Leased \cup Session => Given(g)
    /\ running = "running" /\ executor.pc = "take" => reserved[T!Where(g)] = g
    /\ running = "running" /\ executor.pc \in Leased \cup Session => executor.generation = g
    /\ executor.pc \in Session => manager = [active |-> T!Target, restored |-> TRUE, opened |-> FALSE]
    /\ executor.pc = "reopen" => "project.db" \in folder[T!Target].entries

RestoresAreSound ==
    /\ \A i \in DOMAIN restores : restores[i].status \in Done =>
         Given(restores[i].generation) /\ ~Taken(restores[i].generation)
    /\ \A i, j \in DOMAIN restores :
         restores[i].status \in Done /\ restores[j].status \in Done
         /\ restores[i].generation = restores[j].generation => i = j

TargetInv ==
    /\ TargetsTyped /\ GenerationsExist
    /\ \A f \in Folders : LockHasOneHolder(f)
    /\ \A g \in Nat \ {0} : GenerationIsOnce(g)
    /\ ExecutionIsSound /\ RestoresAreSound /\ T!RegisteredIsRestored

LEMMA Numbered ==
    ASSUME TargetsTyped
    PROVE  /\ Len(selections) \in Nat /\ DOMAIN selections = 1 .. Len(selections)
           /\ Len(restores) \in Nat /\ DOMAIN restores = 1 .. Len(restores)
           /\ \A i \in DOMAIN selections : selections[i] \in Selections /\ T!Where(i) \in Folders
           /\ \A j \in DOMAIN restores : restores[j] \in Restores
<1>1. selections \in Seq(Selections) /\ restores \in Seq(Restores)
  BY DEF TargetsTyped
<1>2. /\ Len(selections) \in Nat /\ DOMAIN selections = 1 .. Len(selections)
      /\ Len(restores) \in Nat /\ DOMAIN restores = 1 .. Len(restores)
  BY <1>1, LenProperties
<1>3. /\ \A i \in DOMAIN selections : selections[i] \in Selections
      /\ \A j \in DOMAIN restores : restores[j] \in Restores
  BY <1>1, <1>2, ElementOfSeq
<1> QED
  BY <1>2, <1>3 DEF Selections, T!Where

(* A step that moves a preflight past its reservation, or starts one with  *)
(* a confirmation, and nothing that holds a lock or a generation.          *)
LEMMA PreflightMoves ==
    ASSUME T!RestoreTargetsAssumption, TargetInv, NEW c \in Preflighters, NEW m \in Preflights,
           preflights' = [preflights EXCEPT ![c] = m], preflights[c].pc \notin Locking, m.pc \notin Locking,
           m.pc # "idle" => m.generation \in DOMAIN selections,
           offers' \subseteq [generation : DOMAIN selections, state : {"", "matched", "required", "confirmed"}],
           challenges' \subseteq [generation : DOMAIN selections, current : Places],
           UNCHANGED <<folder, registered, selections, reserved, manager, restores, executor, leaving, running>>
    PROVE  TargetInv'
<1>1. TargetsTyped
  BY DEF TargetInv
<1>2. /\ preflights' \in [Preflighters -> Preflights] /\ preflights'[c] = m
      /\ \A d \in Preflighters \ {c} : preflights'[d] = preflights[d]
  BY <1>1 DEF TargetsTyped
<1>3. TargetsTyped'
  BY <1>1, <1>2 DEF TargetsTyped
<1>4. GenerationsExist'
  BY <1>2 DEF TargetInv, GenerationsExist, T!Where, T!Target
<1>5. \A d \in Preflighters, f \in Folders : Reserving(d, f)' <=> Reserving(d, f)
  BY <1>2 DEF Reserving, Locking, T!Where
<1>6. \A f \in Folders : LockHasOneHolder(f)'
  BY <1>5 DEF TargetInv, LockHasOneHolder, Lent, T!Where, T!Target
<1>7. \A g : (Fresh(g)' <=> Fresh(g)) /\ (Kept(g)' <=> Kept(g)) /\ (Taken(g)' <=> Taken(g))
             /\ \A d \in Preflighters : Looked(d, g)' <=> Looked(d, g)
  BY <1>2 DEF Fresh, Kept, Taken, Looked
<1>8. \A g : Given(g)' <=> Given(g)
  BY <1>7 DEF Given
<1>9. \A g \in Nat \ {0} : GenerationIsOnce(g)'
  BY <1>7, <1>8 DEF TargetInv, GenerationIsOnce
<1>10. ExecutionIsSound'
  BY <1>8 DEF TargetInv, ExecutionIsSound, T!Where, T!Target
<1>11. RestoresAreSound'
  BY <1>7, <1>8 DEF TargetInv, RestoresAreSound
<1>12. T!RegisteredIsRestored'
  BY DEF TargetInv, T!RegisteredIsRestored, T!Where
<1> QED
  BY <1>3, <1>4, <1>6, <1>9, <1>10, <1>11, <1>12 DEF TargetInv

LEMMA PreflightEnds == T!NoPreflight \in Preflights /\ T!NoPreflight.pc = "idle"
  BY DEF T!NoPreflight, Preflights, Places

LEMMA ResolveRegistryKept ==
    ASSUME T!RestoreTargetsAssumption, TargetInv, NEW c \in Preflighters, T!ResolveRegistry(c) PROVE TargetInv'
<1>1. /\ TargetsTyped /\ preflights[c] \in Preflights /\ preflights[c].pc = "registry"
      /\ preflights[c].generation \in DOMAIN selections
      /\ UNCHANGED <<folder, registered, selections, reserved, offers, challenges, manager, restores, executor, leaving, running>>
  BY DEF TargetInv, TargetsTyped, GenerationsExist, T!ResolveRegistry
<1>2. PICK m \in Preflights : /\ preflights' = [preflights EXCEPT ![c] = m] /\ m.pc \in {"offer", "idle"}
                              /\ m.pc # "idle" => m.generation = preflights[c].generation
  <2>1. CASE preflights' = [preflights EXCEPT ![c] = T!NoPreflight]
    BY <2>1, PreflightEnds
  <2>2. CASE \E state \in {"matched", "required"} : preflights' = [preflights EXCEPT ![c].pc = "offer", ![c].current = registered, ![c].state = state]
    <3>1. PICK state \in {"matched", "required"} :
            preflights' = [preflights EXCEPT ![c].pc = "offer", ![c].current = registered, ![c].state = state]
      BY <2>2
    <3>2. PICK m : m = [preflights[c] EXCEPT !.pc = "offer", !.current = registered, !.state = state]
                   /\ preflights' = [preflights EXCEPT ![c] = m]
      BY <1>1, <3>1 DEF TargetsTyped
    <3>3. m \in Preflights /\ m.pc = "offer" /\ m.generation = preflights[c].generation
      BY <1>1, <3>2 DEF TargetsTyped, Preflights
    <3> QED
      BY <3>2, <3>3
  <2> QED
    BY <2>1, <2>2 DEF T!ResolveRegistry
<1> QED
  BY <1>1, <1>2, PreflightMoves DEF TargetsTyped, Locking

LEMMA ConfirmMigrationKept ==
    ASSUME T!RestoreTargetsAssumption, TargetInv, NEW c \in Preflighters, T!ConfirmMigration(c) PROVE TargetInv'
<1>1. /\ TargetsTyped /\ preflights[c].pc = "idle"
      /\ UNCHANGED <<folder, registered, selections, reserved, offers, manager, restores, executor, leaving, running>>
  BY DEF TargetInv, T!ConfirmMigration
<1>2. PICK challenge \in challenges :
        /\ challenges' = challenges \ {challenge}
        /\ \/ preflights' = [preflights EXCEPT ![c] = [pc |-> "offer", generation |-> challenge.generation, state |-> "confirmed", current |-> registered]]
           \/ preflights' = [preflights EXCEPT ![c] = T!NoPreflight]
  BY DEF T!ConfirmMigration
<1>3. challenge.generation \in DOMAIN selections /\ challenge.generation \in Nat /\ registered \in Places
  <2>1. challenge \in [generation : DOMAIN selections, current : Places] /\ registered \in Places
    BY <1>1, <1>2 DEF TargetsTyped
  <2> QED
    BY <1>1, <2>1, Numbered
<1>4. PICK m \in Preflights : /\ preflights' = [preflights EXCEPT ![c] = m] /\ m.pc \in {"offer", "idle"}
                              /\ m.pc # "idle" => m.generation \in DOMAIN selections
  <2>1. CASE preflights' = [preflights EXCEPT ![c] = T!NoPreflight]
    BY <2>1, PreflightEnds
  <2>2. [pc |-> "offer", generation |-> challenge.generation, state |-> "confirmed", current |-> registered] \in Preflights
    BY <1>3 DEF Preflights
  <2> QED
    BY <1>2, <1>3, <2>1, <2>2
<1>5. /\ offers' \subseteq [generation : DOMAIN selections, state : {"", "matched", "required", "confirmed"}]
      /\ challenges' \subseteq [generation : DOMAIN selections, current : Places]
  BY <1>1, <1>2 DEF TargetsTyped
<1> QED
  BY <1>1, <1>4, <1>5, PreflightMoves DEF Locking

LEMMA OfferKept ==
    ASSUME T!RestoreTargetsAssumption, TargetInv, NEW c \in Preflighters, T!Offer(c) PROVE TargetInv'
<1>1. /\ TargetsTyped /\ preflights[c] \in Preflights /\ preflights[c].pc = "offer"
      /\ preflights[c].generation \in DOMAIN selections /\ preflights' = [preflights EXCEPT ![c] = T!NoPreflight]
      /\ UNCHANGED <<folder, registered, selections, reserved, manager, restores, executor, leaving, running>>
  BY DEF TargetInv, TargetsTyped, GenerationsExist, T!Offer
<1>2. /\ preflights[c].state \in {"", "matched", "required", "confirmed"} /\ preflights[c].current \in Places
  BY <1>1 DEF Preflights
<1>3. challenges' \subseteq [generation : DOMAIN selections, current : Places]
  <2>1. \/ challenges' = challenges
        \/ challenges' = challenges \cup {[generation |-> preflights[c].generation, current |-> preflights[c].current]}
    BY DEF T!Offer
  <2>2. [generation |-> preflights[c].generation, current |-> preflights[c].current] \in [generation : DOMAIN selections, current : Places]
    BY <1>1, <1>2
  <2> QED
    BY <1>1, <2>1, <2>2 DEF TargetsTyped
<1>4. offers' \subseteq [generation : DOMAIN selections, state : {"", "matched", "required", "confirmed"}]
  <2>1. \/ offers' = offers
        \/ offers' = offers \cup {[generation |-> preflights[c].generation, state |-> preflights[c].state]}
    BY DEF T!Offer
  <2>2. [generation |-> preflights[c].generation, state |-> preflights[c].state]
          \in [generation : DOMAIN selections, state : {"", "matched", "required", "confirmed"}]
    BY <1>1, <1>2
  <2> QED
    BY <1>1, <2>1, <2>2 DEF TargetsTyped
<1> QED
  BY <1>1, <1>3, <1>4, PreflightEnds, PreflightMoves DEF Locking

(* A step that leaves every holder, generation and restore where it is:    *)
(* other files, another project, an expired preflight.                     *)
LEMMA SurroundingsKept ==
    ASSUME T!RestoreTargetsAssumption, TargetInv,
           T!OpenHome \/ T!PreflightExpires \/ T!FileAppears PROVE TargetInv'
<1>1. TargetsTyped /\ UNCHANGED <<selections, reserved, challenges, preflights, restores, executor, leaving, running>>
  BY DEF TargetInv, T!OpenHome, T!PreflightExpires, T!FileAppears
<1>t. executor.pc # "idle" => T!Target \in Folders
  BY <1>1, Numbered DEF TargetInv, GenerationsExist, T!Target
<1>f. ASSUME T!FileAppears
      PROVE  /\ folder' \in [Folders -> [lock : {"none", "held", "stale"}, entries : SUBSET {"project.db", "file"}]]
             /\ \A f \in Folders : folder'[f].lock = folder[f].lock /\ folder[f].entries \subseteq folder'[f].entries
  <2>1. PICK f \in Folders : folder' = [folder EXCEPT ![f].entries = @ \cup {"file"}]
    BY <1>f DEF T!FileAppears
  <2>2. PICK m : m = [folder[f] EXCEPT !.entries = folder[f].entries \cup {"file"}] /\ folder' = [folder EXCEPT ![f] = m]
    BY <2>1
  <2>3. /\ folder \in [Folders -> [lock : {"none", "held", "stale"}, entries : SUBSET {"project.db", "file"}]]
        /\ folder[f] \in [lock : {"none", "held", "stale"}, entries : SUBSET {"project.db", "file"}]
    BY <1>1 DEF TargetsTyped
  <2>4. /\ m \in [lock : {"none", "held", "stale"}, entries : SUBSET {"project.db", "file"}]
        /\ m.lock = folder[f].lock /\ folder[f].entries \subseteq m.entries
    BY <2>2, <2>3
  <2> QED
    BY <2>2, <2>3, <2>4
<1>2. TargetsTyped'
  <2>1. CASE T!OpenHome
    BY <1>1, <2>1 DEF TargetsTyped, T!OpenHome, Places
  <2>2. CASE T!PreflightExpires
    <3>1. offers' \subseteq offers
      BY <2>2 DEF T!PreflightExpires
    <3> QED
      BY <1>1, <2>2, <3>1 DEF TargetsTyped, T!PreflightExpires
  <2>3. CASE T!FileAppears
    BY <1>1, <1>f, <2>3 DEF TargetsTyped, T!FileAppears
  <2> QED
    BY <2>1, <2>2, <2>3
<1>3. /\ \A f \in Folders : folder'[f].lock = folder[f].lock /\ folder[f].entries \subseteq folder'[f].entries
      /\ \A f \in Folders : manager'.active = f <=> manager.active = f
      /\ executor.pc \in Session => manager' = manager
      /\ registered' \in Folders => registered' = registered
  <2>1. CASE T!OpenHome
    <3>1. manager.active = T!Nowhere /\ manager'.active = Home /\ T!Nowhere \notin Folders /\ Home \notin Folders
          /\ folder' = folder /\ registered' = Home
      BY <2>1 DEF T!OpenHome, T!RestoreTargetsAssumption
    <3>2. executor.pc \in Session => manager.active = T!Target /\ executor.pc # "idle"
      BY DEF TargetInv, ExecutionIsSound, Session
    <3> QED
      BY <1>t, <3>1, <3>2
  <2>2. CASE T!PreflightExpires
    BY <2>2 DEF T!PreflightExpires
  <2>3. CASE T!FileAppears
    BY <1>f, <2>3 DEF T!FileAppears
  <2> QED
    BY <2>1, <2>2, <2>3
<1>4. GenerationsExist'
  BY <1>1 DEF TargetInv, GenerationsExist, T!Where, T!Target
<1>5. \A f \in Folders : LockHasOneHolder(f)'
  BY <1>1, <1>3 DEF TargetInv, LockHasOneHolder, Reserving, Lent, T!Where, T!Target
<1>6. \A g : Given(g)' <=> Given(g)
  BY <1>1 DEF Given, Fresh, Looked, Kept
<1>7. \A g \in Nat \ {0} : GenerationIsOnce(g)'
  BY <1>1, <1>6 DEF TargetInv, GenerationIsOnce, Fresh, Looked, Kept, Taken
<1>8. RestoresAreSound'
  BY <1>1, <1>6 DEF TargetInv, RestoresAreSound, Taken
<1>9. ExecutionIsSound'
  <2>1. executor.pc \in Session => T!Target \in Folders
    BY <1>t DEF Session
  <2> QED
    BY <1>1, <1>3, <1>6, <2>1 DEF TargetInv, ExecutionIsSound, Session, T!Where, T!Target
<1>10. T!RegisteredIsRestored'
  BY <1>1, <1>3 DEF TargetInv, T!RegisteredIsRestored, T!Where
<1> QED
  BY <1>2, <1>4, <1>5, <1>7, <1>8, <1>9, <1>10 DEF TargetInv

LEMMA SelectKept ==
    ASSUME T!RestoreTargetsAssumption, TargetInv, T!Select PROVE TargetInv'
<1>1. TargetsTyped /\ UNCHANGED <<folder, registered, reserved, offers, challenges, manager, preflights, restores, executor, leaving, running>>
  BY DEF TargetInv, T!Select
<1>2. PICK f \in Folders : selections' = Append(selections, [folder |-> f, unused |-> TRUE])
  BY DEF T!Select
<1>3. [folder |-> f, unused |-> TRUE] \in Selections /\ selections \in Seq(Selections)
  BY <1>1 DEF Selections, TargetsTyped
<1>4. /\ selections' \in Seq(Selections) /\ Len(selections') = Len(selections) + 1
      /\ \A i \in 1 .. Len(selections) : selections'[i] = selections[i]
      /\ selections'[Len(selections) + 1] = [folder |-> f, unused |-> TRUE]
  BY <1>2, <1>3, AppendProperties
<1>5. /\ Len(selections) \in Nat /\ DOMAIN selections = 1 .. Len(selections)
      /\ DOMAIN selections' = 1 .. (Len(selections) + 1)
  BY <1>1, <1>4, Numbered, LenProperties
<1>6. /\ DOMAIN selections \subseteq DOMAIN selections'
      /\ \A i \in DOMAIN selections : selections'[i] = selections[i] /\ T!Where(i)' = T!Where(i)
  BY <1>4, <1>5 DEF T!Where
<1>7. TargetsTyped'
  <2>1. /\ offers' \subseteq [generation : DOMAIN selections', state : {"", "matched", "required", "confirmed"}]
        /\ challenges' \subseteq [generation : DOMAIN selections', current : Places]
    BY <1>1, <1>6 DEF TargetsTyped
  <2> QED
    BY <1>1, <1>4, <2>1 DEF TargetsTyped
<1>8. executor.pc # "idle" => T!Target' = T!Target
  BY <1>1, <1>6 DEF TargetInv, GenerationsExist, T!Target, T!Where
<1>9. GenerationsExist'
  BY <1>1, <1>6, <1>8 DEF TargetInv, GenerationsExist, Leased, T!Where
<1>10. /\ \A d \in Preflighters, e \in Folders : Reserving(d, e)' <=> Reserving(d, e)
       /\ \A e \in Folders : Lent(e)' <=> Lent(e)
  BY <1>1, <1>6, <1>8 DEF TargetInv, GenerationsExist, Reserving, Lent, Leased
<1>11. \A e \in Folders : LockHasOneHolder(e)'
  BY <1>1, <1>10 DEF TargetInv, LockHasOneHolder
<1>12. \A g \in DOMAIN selections : (Fresh(g)' <=> Fresh(g)) /\ (Given(g)' <=> Given(g))
  BY <1>1, <1>6 DEF Fresh, Given, Looked, Kept
<1>13. \A g \in Nat \ {0} : GenerationIsOnce(g)'
  <2>1. SUFFICES ASSUME NEW g \in Nat \ {0} PROVE GenerationIsOnce(g)'
    OBVIOUS
  <2>2. GenerationIsOnce(g)
    BY DEF TargetInv
  <2>3. CASE g \in DOMAIN selections
    BY <1>1, <1>12, <2>2, <2>3 DEF GenerationIsOnce, Looked, Kept, Taken
  <2>4. CASE g \notin DOMAIN selections
    BY <1>1, <2>2, <2>4 DEF TargetInv, GenerationsExist, GenerationIsOnce, Looked, Kept, Taken, Locking, Leased
  <2> QED
    BY <2>3, <2>4
<1>14. RestoresAreSound'
  BY <1>1, <1>12 DEF TargetInv, RestoresAreSound, GenerationsExist, Taken
<1>15. ExecutionIsSound'
  <2>1. executor.pc # "idle" => restores[executor.job].generation \in DOMAIN selections
    BY DEF TargetInv, GenerationsExist
  <2> QED
    BY <1>1, <1>6, <1>8, <1>12, <2>1 DEF TargetInv, ExecutionIsSound, Leased, Session
<1>16. T!RegisteredIsRestored'
  BY <1>1, <1>6 DEF TargetInv, GenerationsExist, T!RegisteredIsRestored
<1> QED
  BY <1>7, <1>9, <1>11, <1>13, <1>14, <1>15, <1>16 DEF TargetInv

LEMMA ResolveEmptyKept ==
    ASSUME T!RestoreTargetsAssumption, TargetInv, NEW c \in Preflighters, T!ResolveEmpty(c) PROVE TargetInv'
<1>1. TargetsTyped /\ preflights[c].pc = "idle"
      /\ UNCHANGED <<folder, registered, reserved, offers, challenges, manager, restores, executor, leaving, running>>
  BY DEF TargetInv, T!ResolveEmpty
<1>i. PICK i \in DOMAIN selections :
        /\ selections[i].unused /\ selections' = [selections EXCEPT ![i].unused = FALSE]
        /\ \E m \in {T!NoPreflight, [T!NoPreflight EXCEPT !.pc = "lock", !.generation = i]} :
             preflights' = [preflights EXCEPT ![c] = m]
  BY DEF T!ResolveEmpty
<1>m. PICK m : /\ preflights' = [preflights EXCEPT ![c] = m]
               /\ m = T!NoPreflight \/ m = [T!NoPreflight EXCEPT !.pc = "lock", !.generation = i]
  BY <1>i
<1>2. /\ selections[i].unused /\ selections' = [selections EXCEPT ![i].unused = FALSE]
      /\ preflights' = [preflights EXCEPT ![c] = m]
  BY <1>i, <1>m
<1>n. Len(selections) \in Nat /\ DOMAIN selections = 1 .. Len(selections)
  BY <1>1, Numbered
<1>3. m \in Preflights /\ (m.pc = "idle" \/ (m.pc = "lock" /\ m.generation = i))
  <2>1. CASE m = T!NoPreflight
    BY <2>1, PreflightEnds
  <2>2. CASE m = [T!NoPreflight EXCEPT !.pc = "lock", !.generation = i]
    <3>1. m = [pc |-> "lock", generation |-> i, state |-> "", current |-> T!Nowhere]
      BY <2>2 DEF T!NoPreflight
    <3>0. i \in DOMAIN selections
      BY <1>i
    <3>4. i \in Nat
      BY <3>0, <1>n
    <3>2. i \in Nat /\ m.pc = "lock" /\ m.generation = i
      BY <3>1, <3>4
    <3>3. T!Nowhere \in Places
      BY DEF Places
    <3>5. m \in Preflights
      BY <3>1, <3>2, <3>3 DEF Preflights, Locking
    <3> QED
      BY <3>2, <3>5
  <2> QED
    BY <1>m, <2>1, <2>2
<1>4. /\ preflights' \in [Preflighters -> Preflights] /\ preflights'[c] = m
      /\ \A d \in Preflighters \ {c} : preflights'[d] = preflights[d]
  BY <1>1, <1>2, <1>3 DEF TargetsTyped
<1>5. /\ selections' \in Seq(Selections) /\ DOMAIN selections' = DOMAIN selections
      /\ \A j \in DOMAIN selections : selections'[j].folder = selections[j].folder
      /\ \A j \in DOMAIN selections \ {i} : selections'[j] = selections[j]
      /\ ~selections'[i].unused
  <2>1. PICK s : s = [selections[i] EXCEPT !.unused = FALSE] /\ selections' = [selections EXCEPT ![i] = s]
    BY <1>2
  <2>2. selections[i] \in Selections /\ selections \in Seq(Selections)
    BY <1>1, Numbered DEF TargetsTyped
  <2>3. s \in Selections /\ s.folder = selections[i].folder /\ ~s.unused
    BY <2>1, <2>2 DEF Selections
  <2>4. selections' \in Seq(Selections) /\ Len(selections') = Len(selections)
    BY <1>n, <2>1, <2>2, <2>3, ExceptSeq
  <2> QED
    BY <1>n, <2>1, <2>3, <2>4
<1>6. \A j \in DOMAIN selections : T!Where(j)' = T!Where(j)
  BY <1>5 DEF T!Where
<1>7. TargetsTyped'
  BY <1>1, <1>4, <1>5 DEF TargetsTyped
<1>8. executor.pc # "idle" => T!Target' = T!Target
  BY <1>1, <1>6 DEF TargetInv, GenerationsExist, T!Target
<1>9. GenerationsExist'
  BY <1>1, <1>2, <1>3, <1>4, <1>5, <1>6, <1>8 DEF TargetInv, GenerationsExist, Leased
<1>10. /\ \A d \in Preflighters, e \in Folders : Reserving(d, e)' <=> Reserving(d, e)
       /\ \A e \in Folders : Lent(e)' <=> Lent(e)
  BY <1>1, <1>3, <1>4, <1>6, <1>8 DEF TargetInv, GenerationsExist, Reserving, Lent, Leased
<1>11. \A e \in Folders : LockHasOneHolder(e)'
  BY <1>1, <1>10 DEF TargetInv, LockHasOneHolder
<1>12. ~Kept(i) /\ ~Taken(i) /\ (\A d \in Preflighters : ~Looked(d, i)) /\ ~Given(i)
  BY <1>2, <1>n DEF TargetInv, GenerationIsOnce, Given, Fresh
<1>13. \A g : /\ Kept(g)' <=> Kept(g)
              /\ Taken(g)' <=> Taken(g)
              /\ g # i => (Fresh(g)' <=> Fresh(g))
              /\ \A d \in Preflighters : Looked(d, g)' => Looked(d, g) \/ (d = c /\ g = i)
              /\ \A d \in Preflighters : Looked(d, g) => Looked(d, g)'
              /\ Given(g) => Given(g)'
  <2>1. \A g : (Kept(g)' <=> Kept(g)) /\ (Taken(g)' <=> Taken(g)) /\ (g # i => (Fresh(g)' <=> Fresh(g)))
    BY <1>1, <1>5 DEF Kept, Taken, Fresh
  <2>2. \A g : \A d \in Preflighters : (Looked(d, g)' => Looked(d, g) \/ (d = c /\ g = i)) /\ (Looked(d, g) => Looked(d, g)')
    BY <1>1, <1>3, <1>4 DEF Looked, Locking
  <2> QED
    BY <1>12, <2>1, <2>2 DEF Given
<1>14. \A g \in Nat \ {0} : GenerationIsOnce(g)'
  <2>1. SUFFICES ASSUME NEW g \in Nat \ {0} PROVE GenerationIsOnce(g)'
    OBVIOUS
  <2>2. GenerationIsOnce(g) /\ (g = i => ~Fresh(g)')
    BY <1>5 DEF TargetInv, Fresh
  <2> QED
    BY <1>12, <1>13, <2>2 DEF GenerationIsOnce
<1>15. RestoresAreSound'
  BY <1>1, <1>13 DEF TargetInv, RestoresAreSound
<1>16. ExecutionIsSound'
  <2>1. executor.pc # "idle" => restores[executor.job].generation \in DOMAIN selections
    BY DEF TargetInv, GenerationsExist
  <2> QED
    BY <1>1, <1>6, <1>8, <1>13, <2>1 DEF TargetInv, ExecutionIsSound, Leased, Session
<1>17. T!RegisteredIsRestored'
  BY <1>1, <1>6 DEF TargetInv, GenerationsExist, T!RegisteredIsRestored
<1> QED
  BY <1>7, <1>9, <1>11, <1>14, <1>15, <1>16, <1>17 DEF TargetInv

(* What a preflight that has the lock, or is about to take it, means.      *)
LEMMA LockTargetKept ==
    ASSUME T!RestoreTargetsAssumption, TargetInv, NEW c \in Preflighters, T!LockTarget(c) PROVE TargetInv'
<1>1. /\ TargetsTyped /\ preflights[c] \in Preflights /\ preflights[c].pc = "lock"
      /\ preflights[c].generation \in DOMAIN selections
      /\ UNCHANGED <<registered, selections, reserved, offers, challenges, manager, restores, executor, leaving, running>>
  BY DEF TargetInv, TargetsTyped, GenerationsExist, T!LockTarget
<1>2. PICK f : f = T!Where(preflights[c].generation)
  OBVIOUS
<1>3. f \in Folders
  BY <1>1, <1>2, Numbered
<1>4. PICK m : /\ preflights' = [preflights EXCEPT ![c] = m] /\ m \in Preflights
               /\ \/ m = T!NoPreflight /\ folder' = folder
                  \/ /\ m.pc = "reserve" /\ m.generation = preflights[c].generation
                     /\ folder[f].lock = "none" /\ folder' = [folder EXCEPT ![f].lock = "held"]
  <2>1. CASE preflights' = [preflights EXCEPT ![c] = T!NoPreflight] /\ folder' = folder
    BY <2>1, PreflightEnds
  <2>2. CASE preflights' = [preflights EXCEPT ![c].pc = "reserve"]
             /\ folder[f].lock = "none" /\ folder' = [folder EXCEPT ![f].lock = "held"]
    <3>1. PICK m : m = [preflights[c] EXCEPT !.pc = "reserve"] /\ preflights' = [preflights EXCEPT ![c] = m]
      BY <2>2
    <3>2. m \in Preflights /\ m.pc = "reserve" /\ m.generation = preflights[c].generation
      BY <1>1, <3>1 DEF Preflights, Locking
    <3> QED
      BY <2>2, <3>1, <3>2
  <2> QED
    BY <1>2, <2>1, <2>2 DEF T!LockTarget, T!Locks
<1>5. /\ preflights' \in [Preflighters -> Preflights] /\ preflights'[c] = m
      /\ \A d \in Preflighters \ {c} : preflights'[d] = preflights[d]
  BY <1>1, <1>4 DEF TargetsTyped
<1>6. /\ folder' \in [Folders -> [lock : {"none", "held", "stale"}, entries : SUBSET {"project.db", "file"}]]
      /\ \A e \in Folders \ {f} : folder'[e] = folder[e]
      /\ folder'[f].lock = (IF m.pc = "reserve" THEN "held" ELSE folder[f].lock)
      /\ folder'[f].entries = folder[f].entries
  <2>1. /\ folder \in [Folders -> [lock : {"none", "held", "stale"}, entries : SUBSET {"project.db", "file"}]]
        /\ folder[f] \in [lock : {"none", "held", "stale"}, entries : SUBSET {"project.db", "file"}]
    BY <1>1, <1>3 DEF TargetsTyped
  <2>2. CASE folder' = folder /\ m.pc # "reserve"
    BY <2>1, <2>2
  <2>3. CASE folder' = [folder EXCEPT ![f].lock = "held"] /\ m.pc = "reserve"
    <3>1. PICK n : n = [folder[f] EXCEPT !.lock = "held"] /\ folder' = [folder EXCEPT ![f] = n]
      BY <2>3
    <3>2. n \in [lock : {"none", "held", "stale"}, entries : SUBSET {"project.db", "file"}]
          /\ n.lock = "held" /\ n.entries = folder[f].entries
      BY <2>1, <3>1
    <3> QED
      BY <1>3, <2>1, <2>3, <3>1, <3>2
  <2> QED
    BY <1>4, <2>2, <2>3, PreflightEnds
<1>7. TargetsTyped'
  BY <1>1, <1>5, <1>6 DEF TargetsTyped
<1>8. GenerationsExist'
  BY <1>1, <1>4, <1>5, PreflightEnds DEF TargetInv, GenerationsExist, T!Where, T!Target
<1>9. /\ \A d \in Preflighters, e \in Folders :
            Reserving(d, e)' <=> Reserving(d, e) \/ (d = c /\ e = f /\ m.pc = "reserve")
      /\ \A e \in Folders : Lent(e)' <=> Lent(e)
  BY <1>1, <1>2, <1>4, <1>5, PreflightEnds DEF Reserving, Lent, T!Where, T!Target
<1>10. \A e \in Folders : LockHasOneHolder(e)'
  <2>1. ASSUME NEW e \in Folders PROVE LockHasOneHolder(e)'
    <3>1. LockHasOneHolder(e)
      BY DEF TargetInv
    <3>2. CASE e = f /\ m.pc = "reserve"
      <4>1. /\ \A d \in Preflighters : ~Reserving(d, f)
            /\ reserved[f] = 0 /\ ~Lent(f) /\ manager.active # f /\ f \notin leaving
        BY <1>4, <3>1, <3>2, PreflightEnds DEF LockHasOneHolder
      <4> QED
        BY <1>1, <1>6, <1>9, <3>2, <4>1 DEF LockHasOneHolder
    <3>3. CASE ~(e = f /\ m.pc = "reserve")
      BY <1>1, <1>3, <1>6, <1>9, <3>1, <3>3 DEF LockHasOneHolder
    <3> QED
      BY <3>2, <3>3
  <2> QED
    BY <2>1
<1>11. \A g : /\ (Fresh(g)' <=> Fresh(g)) /\ (Kept(g)' <=> Kept(g)) /\ (Taken(g)' <=> Taken(g))
              /\ \A d \in Preflighters : Looked(d, g)' => Looked(d, g)
  BY <1>1, <1>4, <1>5, PreflightEnds DEF Fresh, Kept, Taken, Looked, Locking
<1>12. \A g : Given(g) => Given(g)'
  BY <1>11 DEF Given
<1>13. \A g \in Nat \ {0} : GenerationIsOnce(g)'
  BY <1>11, <1>12 DEF TargetInv, GenerationIsOnce
<1>14. RestoresAreSound'
  BY <1>1, <1>11, <1>12 DEF TargetInv, RestoresAreSound
<1>15. ExecutionIsSound'
  <2>1. executor.pc # "idle" => T!Target \in Folders
    BY <1>1, Numbered DEF TargetInv, GenerationsExist, T!Target
  <2>2. \A e \in Folders : folder'[e].entries = folder[e].entries
    BY <1>6
  <2> QED
    BY <1>1, <1>12, <2>1, <2>2 DEF TargetInv, ExecutionIsSound, T!Where, T!Target
<1>16. T!RegisteredIsRestored'
  BY <1>1, <1>6 DEF TargetInv, T!RegisteredIsRestored, T!Where
<1> QED
  BY <1>7, <1>8, <1>10, <1>13, <1>14, <1>15, <1>16 DEF TargetInv

LEMMA ReserveTargetKept ==
    ASSUME T!RestoreTargetsAssumption, TargetInv, NEW c \in Preflighters, T!ReserveTarget(c) PROVE TargetInv'
<1>1. /\ TargetsTyped /\ preflights[c] \in Preflights /\ preflights[c].pc = "reserve"
      /\ preflights[c].generation \in DOMAIN selections
      /\ UNCHANGED <<registered, selections, offers, challenges, manager, restores, executor, leaving, running>>
  BY DEF TargetInv, TargetsTyped, GenerationsExist, T!ReserveTarget
<1>2. PICK f, g : g = preflights[c].generation /\ f = T!Where(g)
  OBVIOUS
<1>3. f \in Folders /\ g \in Nat \ {0} /\ g \in DOMAIN selections
  BY <1>1, <1>2, Numbered
<1>4. PICK m : /\ preflights' = [preflights EXCEPT ![c] = m] /\ m \in Preflights /\ m.pc \in {"idle", "registry"}
               /\ m.pc # "idle" => m.generation = g
               /\ \/ reserved[f] = 0 /\ reserved' = [reserved EXCEPT ![f] = g] /\ folder' = folder
                  \/ reserved' = reserved /\ folder' = [folder EXCEPT ![f].lock = "none"]
  <2>1. CASE preflights' = [preflights EXCEPT ![c] = T!NoPreflight]
             /\ reserved' = reserved /\ folder' = [folder EXCEPT ![f].lock = "none"]
    BY <2>1, PreflightEnds
  <2>2. CASE preflights' = [preflights EXCEPT ![c].pc = "registry"]
             /\ reserved[f] = 0 /\ reserved' = [reserved EXCEPT ![f] = g] /\ folder' = folder
    <3>1. PICK m : m = [preflights[c] EXCEPT !.pc = "registry"] /\ preflights' = [preflights EXCEPT ![c] = m]
      BY <2>2
    <3>2. m \in Preflights /\ m.pc = "registry" /\ m.generation = preflights[c].generation
      BY <1>1, <3>1 DEF Preflights, Locking
    <3> QED
      BY <1>2, <2>2, <3>1, <3>2
  <2> QED
    BY <1>2, <2>1, <2>2 DEF T!ReserveTarget, T!Locks
<1>5. /\ preflights' \in [Preflighters -> Preflights] /\ preflights'[c] = m
      /\ \A d \in Preflighters \ {c} : preflights'[d] = preflights[d]
  BY <1>1, <1>4 DEF TargetsTyped
<1>6. /\ folder' \in [Folders -> [lock : {"none", "held", "stale"}, entries : SUBSET {"project.db", "file"}]]
      /\ \A e \in Folders \ {f} : folder'[e] = folder[e] /\ reserved'[e] = reserved[e]
      /\ folder'[f].entries = folder[f].entries
      /\ reserved' \in [Folders -> Nat]
      /\ \/ reserved[f] = 0 /\ reserved'[f] = g /\ folder'[f] = folder[f]
         \/ reserved'[f] = reserved[f] /\ folder'[f].lock = "none"
  <2>1. /\ folder \in [Folders -> [lock : {"none", "held", "stale"}, entries : SUBSET {"project.db", "file"}]]
        /\ folder[f] \in [lock : {"none", "held", "stale"}, entries : SUBSET {"project.db", "file"}]
        /\ reserved \in [Folders -> Nat]
    BY <1>1, <1>3 DEF TargetsTyped
  <2>2. CASE folder' = folder /\ reserved[f] = 0 /\ reserved' = [reserved EXCEPT ![f] = g]
    BY <1>3, <2>1, <2>2
  <2>3. CASE folder' = [folder EXCEPT ![f].lock = "none"] /\ reserved' = reserved
    <3>1. PICK n : n = [folder[f] EXCEPT !.lock = "none"] /\ folder' = [folder EXCEPT ![f] = n]
      BY <2>3
    <3>2. n \in [lock : {"none", "held", "stale"}, entries : SUBSET {"project.db", "file"}]
          /\ n.lock = "none" /\ n.entries = folder[f].entries
      BY <2>1, <3>1
    <3> QED
      BY <1>3, <2>1, <2>3, <3>1, <3>2
  <2> QED
    BY <1>4, <2>2, <2>3
<1>7. TargetsTyped'
  BY <1>1, <1>5, <1>6 DEF TargetsTyped
<1>8. GenerationsExist'
  <2>1. \A e \in Folders : reserved'[e] # 0 => reserved'[e] \in DOMAIN selections /\ T!Where(reserved'[e]) = e
    BY <1>1, <1>2, <1>3, <1>6 DEF TargetInv, GenerationsExist
  <2> QED
    BY <1>1, <1>3, <1>4, <1>5, <2>1 DEF TargetInv, GenerationsExist, T!Where, T!Target
<1>9. /\ \A d \in Preflighters, e \in Folders : Reserving(d, e)' <=> Reserving(d, e) /\ d # c
      /\ \A e \in Folders : Lent(e)' <=> Lent(e)
      /\ Reserving(c, f) /\ \A e \in Folders : Reserving(c, e) => e = f
  BY <1>1, <1>2, <1>4, <1>5 DEF Reserving, Lent, T!Where, T!Target
<1>10. \A e \in Folders : LockHasOneHolder(e)'
  <2>1. ASSUME NEW e \in Folders PROVE LockHasOneHolder(e)'
    <3>1. LockHasOneHolder(e)
      BY DEF TargetInv
    <3>2. CASE e = f
      <4>1. /\ \A d \in Preflighters : ~Reserving(d, f)'
            /\ reserved[f] = 0 /\ ~Lent(f) /\ manager.active # f /\ f \notin leaving /\ folder[f].lock = "held"
        BY <1>3, <1>9, <3>1, <3>2 DEF LockHasOneHolder
      <4> QED
        BY <1>1, <1>3, <1>6, <1>9, <3>2, <4>1 DEF LockHasOneHolder
    <3>3. CASE e # f
      BY <1>1, <1>3, <1>6, <1>9, <3>1, <3>3 DEF LockHasOneHolder
    <3> QED
      BY <3>2, <3>3
  <2> QED
    BY <2>1
<1>11. /\ \A h : (Fresh(h)' <=> Fresh(h)) /\ (Taken(h)' <=> Taken(h))
       /\ \A h : Kept(h)' => Kept(h) \/ h = g
       /\ \A d \in Preflighters : \A h : Looked(d, h)' <=> Looked(d, h) /\ d # c
       /\ \A h : Looked(c, h) <=> h = g
  <2>1. \A h : (Fresh(h)' <=> Fresh(h)) /\ (Taken(h)' <=> Taken(h))
    BY <1>1 DEF Fresh, Taken
  <2>2. \A h : Kept(h)' => Kept(h) \/ h = g
    BY <1>6 DEF Kept
  <2>3. /\ \A d \in Preflighters : \A h : Looked(d, h)' <=> Looked(d, h) /\ d # c
        /\ \A h : Looked(c, h) <=> h = g
    BY <1>1, <1>2, <1>4, <1>5 DEF Looked, Locking
  <2> QED
    BY <2>1, <2>2, <2>3
<1>12. \A h : Given(h) => Given(h)'
  BY <1>11 DEF Given
<1>13. \A h \in Nat \ {0} : GenerationIsOnce(h)'
  <2>1. ASSUME NEW h \in Nat \ {0} PROVE GenerationIsOnce(h)'
    <3>1. GenerationIsOnce(h)
      BY DEF TargetInv
    <3>2. CASE h = g
      BY <1>11, <1>12, <3>1, <3>2 DEF GenerationIsOnce, Given
    <3>3. CASE h # g
      BY <1>11, <1>12, <3>1, <3>3 DEF GenerationIsOnce
    <3> QED
      BY <3>2, <3>3
  <2> QED
    BY <2>1
<1>14. RestoresAreSound'
  BY <1>1, <1>11, <1>12 DEF TargetInv, RestoresAreSound
<1>15. ExecutionIsSound'
  <2>1. executor.pc # "idle" => T!Target \in Folders /\ restores[executor.job].generation \in Nat \ {0}
    BY <1>1, Numbered DEF TargetInv, GenerationsExist, T!Target
  <2>2. \A e \in Folders : folder'[e].entries = folder[e].entries
    BY <1>6
  <2>3. \A h \in Nat \ {0} : \A e \in Folders : reserved[e] = h => reserved'[e] = h
    BY <1>3, <1>6
  <2>4. executor.pc # "idle" => T!Where(restores[executor.job].generation) \in Folders
    BY <2>1 DEF T!Target
  <2> QED
    BY <1>1, <1>12, <2>1, <2>2, <2>3, <2>4 DEF TargetInv, ExecutionIsSound, T!Where, T!Target
<1>16. T!RegisteredIsRestored'
  BY <1>1, <1>6 DEF TargetInv, T!RegisteredIsRestored, T!Where
<1> QED
  BY <1>7, <1>8, <1>10, <1>13, <1>14, <1>15, <1>16 DEF TargetInv

LEMMA SubmitKept ==
    ASSUME T!RestoreTargetsAssumption, TargetInv, T!Submit PROVE TargetInv'
<1>1. TargetsTyped /\ executor.pc = "idle"
      /\ UNCHANGED <<folder, registered, selections, reserved, offers, challenges, manager, preflights, executor, leaving, running>>
  BY DEF TargetInv, T!Submit, T!MutexFree
<1>2. PICK g \in DOMAIN selections : restores' = Append(restores, [generation |-> g, status |-> "queued"])
  BY <1>1 DEF T!Submit, TargetsTyped
<1>3. restores \in Seq(Restores) /\ [generation |-> g, status |-> "queued"] \in Restores
  <2>1. g \in Nat
    BY <1>1, <1>2, Numbered
  <2> QED
    BY <1>1, <2>1 DEF TargetsTyped, Restores
<1>4. /\ restores' \in Seq(Restores) /\ Len(restores') = Len(restores) + 1
      /\ \A i \in 1 .. Len(restores) : restores'[i] = restores[i]
      /\ restores'[Len(restores) + 1] = [generation |-> g, status |-> "queued"]
  BY <1>2, <1>3, AppendProperties
<1>5. /\ Len(restores) \in Nat /\ DOMAIN restores = 1 .. Len(restores)
      /\ DOMAIN restores' = 1 .. (Len(restores) + 1)
  BY <1>1, <1>4, Numbered, LenProperties
<1>6. /\ \A i \in DOMAIN restores : i \in DOMAIN restores' /\ restores'[i] = restores[i]
      /\ \A i \in DOMAIN restores' : i \notin DOMAIN restores => restores'[i].generation = g /\ restores'[i].status = "queued"
  BY <1>4, <1>5
<1>7. TargetsTyped'
  BY <1>1, <1>4 DEF TargetsTyped
<1>8. GenerationsExist'
  BY <1>1, <1>2, <1>6 DEF TargetInv, GenerationsExist, Leased, T!Where
<1>9. \A f \in Folders : LockHasOneHolder(f)'
  BY <1>1 DEF TargetInv, LockHasOneHolder, Reserving, Lent, Leased, T!Where
<1>10. \A h : Given(h)' <=> Given(h)
  BY <1>1 DEF Given, Fresh, Looked, Kept
<1>11. \A h \in Nat \ {0} : GenerationIsOnce(h)'
  BY <1>1, <1>10 DEF TargetInv, GenerationIsOnce, Fresh, Looked, Kept, Taken
<1>12. RestoresAreSound'
  BY <1>1, <1>6, <1>10 DEF TargetInv, RestoresAreSound, Taken, Done
<1>13. ExecutionIsSound'
  BY <1>1 DEF ExecutionIsSound, Leased, Session
<1>14. T!RegisteredIsRestored'
  BY <1>1, <1>6 DEF TargetInv, T!RegisteredIsRestored, T!Where
<1> QED
  BY <1>7, <1>8, <1>9, <1>11, <1>12, <1>13, <1>14 DEF TargetInv

(* A Job that gets another status keeps its generation. *)
LEMMA StatusSet ==
    ASSUME TargetsTyped, NEW j \in DOMAIN restores, NEW status \in {"failed"} \cup Done,
           restores' = [restores EXCEPT ![j].status = status]
    PROVE  /\ restores' \in Seq(Restores) /\ DOMAIN restores' = DOMAIN restores
           /\ \A i \in DOMAIN restores : restores'[i].generation = restores[i].generation
           /\ \A i \in DOMAIN restores \ {j} : restores'[i].status = restores[i].status
           /\ restores'[j].status = status
<1>1. /\ Len(restores) \in Nat /\ DOMAIN restores = 1 .. Len(restores)
      /\ restores \in Seq(Restores) /\ restores[j] \in Restores
  BY Numbered DEF TargetsTyped
<1>2. PICK m : m = [restores[j] EXCEPT !.status = status] /\ restores' = [restores EXCEPT ![j] = m]
  OBVIOUS
<1>3. m \in Restores /\ m.generation = restores[j].generation /\ m.status = status
  BY <1>1, <1>2 DEF Restores, Done
<1>4. restores' \in Seq(Restores) /\ Len(restores') = Len(restores)
  BY <1>1, <1>2, <1>3, ExceptSeq
<1>5. DOMAIN restores' = DOMAIN restores
  BY <1>2
<1> QED
  BY <1>1, <1>2, <1>3, <1>4, <1>5

LEMMA RevalidateKept ==
    ASSUME T!RestoreTargetsAssumption, TargetInv, T!Revalidate PROVE TargetInv'
<1>1. TargetsTyped /\ executor.pc = "idle"
      /\ UNCHANGED <<folder, registered, selections, reserved, offers, challenges, manager, preflights, leaving, running>>
  BY DEF TargetInv, T!Revalidate, T!MutexFree
<1>2. PICK j \in DOMAIN restores :
        /\ restores[j].status = "queued"
        /\ \/ /\ reserved[T!Where(restores[j].generation)] = restores[j].generation
              /\ executor' = [pc |-> "take", job |-> j, generation |-> 0] /\ restores' = restores
           \/ restores' = [restores EXCEPT ![j].status = "failed"] /\ executor' = executor
  BY DEF T!Revalidate, T!Revalidated
<1>3. /\ Len(restores) \in Nat /\ DOMAIN restores = 1 .. Len(restores)
      /\ \A g \in DOMAIN selections : g \in Nat \ {0} /\ T!Where(g) \in Folders
  BY <1>1, Numbered
<1>4. restores[j].generation \in DOMAIN selections /\ j \in Nat
  BY <1>2, <1>3 DEF TargetInv, GenerationsExist
<1>5. \A h : (Given(h)' <=> Given(h)) /\ (Fresh(h)' <=> Fresh(h)) /\ (Kept(h)' <=> Kept(h))
             /\ \A d \in Preflighters : Looked(d, h)' <=> Looked(d, h)
  BY <1>1 DEF Given, Fresh, Looked, Kept
<1>6. CASE /\ reserved[T!Where(restores[j].generation)] = restores[j].generation
           /\ executor' = [pc |-> "take", job |-> j, generation |-> 0] /\ restores' = restores
  <2>1. executor' \in Executions /\ executor'.pc = "take" /\ executor'.job = j
    BY <1>4, <1>6 DEF Executions, AtWork
  <2>2. TargetsTyped'
    BY <1>1, <1>6, <2>1 DEF TargetsTyped
  <2>3. GenerationsExist'
    BY <1>1, <1>2, <1>6, <2>1 DEF TargetInv, GenerationsExist, Leased, T!Where
  <2>4. \A f \in Folders : LockHasOneHolder(f)'
    BY <1>1, <2>1 DEF TargetInv, LockHasOneHolder, Reserving, Lent, Leased, T!Where
  <2>5. (\A h : ~Taken(h) /\ ~Taken(h)')
    BY <1>1, <2>1 DEF Taken, Leased
  <2>6. \A h \in Nat \ {0} : GenerationIsOnce(h)'
    BY <1>5, <2>5 DEF TargetInv, GenerationIsOnce
  <2>7. RestoresAreSound'
    BY <1>5, <1>6, <2>5 DEF TargetInv, RestoresAreSound
  <2>8. \A i \in DOMAIN restores : restores[i].status \in Done => restores[i].generation # restores[j].generation
    BY <1>3, <1>4, <1>6 DEF TargetInv, RestoresAreSound, Given, Kept
  <2>9. ExecutionIsSound'
    BY <1>1, <1>2, <1>6, <2>1, <2>8 DEF ExecutionIsSound, Leased, Session, T!Where
  <2>10. T!RegisteredIsRestored'
    BY <1>1, <1>6 DEF TargetInv, T!RegisteredIsRestored, T!Where
  <2> QED
    BY <2>2, <2>3, <2>4, <2>6, <2>7, <2>9, <2>10 DEF TargetInv
<1>7. CASE restores' = [restores EXCEPT ![j].status = "failed"] /\ executor' = executor
  <2>1. /\ restores' \in Seq(Restores) /\ DOMAIN restores' = DOMAIN restores
        /\ \A i \in DOMAIN restores : restores'[i].generation = restores[i].generation
        /\ \A i \in DOMAIN restores \ {j} : restores'[i].status = restores[i].status
        /\ restores'[j].status = "failed"
    BY <1>1, <1>7, StatusSet
  <2>2. TargetsTyped'
    BY <1>1, <1>7, <2>1 DEF TargetsTyped
  <2>3. GenerationsExist'
    BY <1>1, <1>7, <2>1 DEF TargetInv, GenerationsExist, Leased, T!Where
  <2>4. \A f \in Folders : LockHasOneHolder(f)'
    BY <1>1, <1>7 DEF TargetInv, LockHasOneHolder, Reserving, Lent, Leased, T!Where
  <2>5. (\A h : ~Taken(h) /\ ~Taken(h)')
    BY <1>1, <1>7 DEF Taken, Leased
  <2>6. \A h \in Nat \ {0} : GenerationIsOnce(h)'
    BY <1>5, <2>5 DEF TargetInv, GenerationIsOnce
  <2>7. RestoresAreSound'
    BY <1>2, <1>5, <2>1, <2>5 DEF TargetInv, RestoresAreSound, Done
  <2>9. ExecutionIsSound'
    BY <1>1, <1>7 DEF ExecutionIsSound, Leased, Session
  <2>10. T!RegisteredIsRestored'
    BY <1>1, <1>2, <2>1 DEF TargetInv, T!RegisteredIsRestored, T!Where
  <2> QED
    BY <2>2, <2>3, <2>4, <2>6, <2>7, <2>9, <2>10 DEF TargetInv
<1> QED
  BY <1>2, <1>6, <1>7

(* What an execution is about while it holds the mutex. *)
LEMMA ExecutionFacts ==
    ASSUME TargetInv, executor.pc # "idle"
    PROVE  /\ TargetsTyped /\ executor.job \in DOMAIN restores /\ restores[executor.job].status = "queued"
           /\ restores[executor.job].generation \in DOMAIN selections
           /\ restores[executor.job].generation \in Nat \ {0}
           /\ T!Target \in Folders /\ T!Target = T!Where(restores[executor.job].generation)
           /\ executor.job \in Nat
  BY Numbered DEF TargetInv, GenerationsExist, T!Target

(* A Job that fails without a session. *)
LEMMA JobFails ==
    ASSUME T!RestoreTargetsAssumption, TargetInv, executor.pc = "take", T!EndsJob("failed"),
           UNCHANGED <<folder, registered, selections, reserved, offers, challenges, manager, preflights, leaving, running>>
    PROVE  TargetInv'
<1>1. /\ TargetsTyped /\ executor.job \in DOMAIN restores /\ restores[executor.job].status = "queued"
      /\ executor'.pc = "idle" /\ executor' \in Executions
  BY ExecutionFacts DEF T!EndsJob, T!NoExecution, Executions
<1>2. /\ restores' \in Seq(Restores) /\ DOMAIN restores' = DOMAIN restores
      /\ \A i \in DOMAIN restores : restores'[i].generation = restores[i].generation
      /\ \A i \in DOMAIN restores \ {executor.job} : restores'[i].status = restores[i].status
      /\ restores'[executor.job].status = "failed"
  BY <1>1, StatusSet DEF T!EndsJob
<1>3. TargetsTyped'
  BY <1>1, <1>2 DEF TargetsTyped
<1>4. GenerationsExist'
  BY <1>1, <1>2 DEF TargetInv, GenerationsExist, Leased, T!Where
<1>5. \A f \in Folders : LockHasOneHolder(f)'
  BY <1>1 DEF TargetInv, LockHasOneHolder, Reserving, Lent, Leased, T!Where
<1>6. \A h : /\ ~Taken(h) /\ ~Taken(h)'
             /\ (Given(h)' <=> Given(h)) /\ (Fresh(h)' <=> Fresh(h)) /\ (Kept(h)' <=> Kept(h))
             /\ \A d \in Preflighters : Looked(d, h)' <=> Looked(d, h)
  BY <1>1 DEF Taken, Leased, Given, Fresh, Looked, Kept
<1>7. \A h \in Nat \ {0} : GenerationIsOnce(h)'
  BY <1>6 DEF TargetInv, GenerationIsOnce
<1>8. RestoresAreSound'
  BY <1>1, <1>2, <1>6 DEF TargetInv, RestoresAreSound, Done
<1>9. ExecutionIsSound'
  BY <1>1 DEF ExecutionIsSound, Leased, Session
<1>10. T!RegisteredIsRestored'
  BY <1>1, <1>2 DEF TargetInv, T!RegisteredIsRestored, T!Where
<1> QED
  BY <1>3, <1>4, <1>5, <1>7, <1>8, <1>9, <1>10 DEF TargetInv

LEMMA TakeReservationKept ==
    ASSUME T!RestoreTargetsAssumption, TargetInv, T!TakeReservation PROVE TargetInv'
<1>1. executor.pc = "take" /\ UNCHANGED <<folder, registered, selections, offers, challenges, manager, preflights, leaving, running>>
  BY DEF T!TakeReservation
<1>2. PICK f, g, h : f = T!Target /\ g = restores[executor.job].generation /\ h = reserved[f]
  OBVIOUS
<1>3. /\ TargetsTyped /\ executor.job \in DOMAIN restores /\ restores[executor.job].status = "queued"
      /\ g \in DOMAIN selections /\ g \in Nat \ {0} /\ f \in Folders /\ f = T!Where(g) /\ executor.job \in Nat
  BY <1>1, <1>2, ExecutionFacts
<1>4. CASE reserved' = reserved /\ T!EndsJob("failed")
  BY <1>1, <1>4, JobFails
<1>5. CASE /\ h # 0 /\ reserved' = [reserved EXCEPT ![f] = 0] /\ restores' = restores
           /\ executor' = [executor EXCEPT !.pc = "acquire", !.generation = h]
  <2>1. /\ reserved \in [Folders -> Nat] /\ h \in Nat \ {0} /\ h \in DOMAIN selections /\ T!Where(h) = f
    BY <1>2, <1>3, <1>5 DEF TargetsTyped, TargetInv, GenerationsExist
  <2>2. /\ executor' \in Executions /\ executor'.pc = "acquire" /\ executor'.job = executor.job /\ executor'.generation = h
    BY <1>3, <1>5, <2>1 DEF TargetsTyped, Executions, AtWork
  <2>3. reserved' \in [Folders -> Nat] /\ reserved'[f] = 0 /\ \A e \in Folders \ {f} : reserved'[e] = reserved[e]
    BY <1>3, <1>5, <2>1
  <2>4. TargetsTyped'
    BY <1>1, <1>3, <1>5, <2>2, <2>3 DEF TargetsTyped
  <2>5. T!Target' = f /\ \A i : T!Where(i)' = T!Where(i)
    BY <1>1, <1>2, <1>5, <2>2 DEF T!Target, T!Where
  <2>6. GenerationsExist'
    BY <1>1, <1>3, <1>5, <2>1, <2>2, <2>3, <2>5 DEF TargetInv, GenerationsExist
  <2>7. /\ \A d \in Preflighters, e \in Folders : Reserving(d, e)' <=> Reserving(d, e)
        /\ \A e \in Folders : ~Lent(e) /\ (Lent(e)' <=> e = f)
    BY <1>1, <2>2, <2>5 DEF Reserving, Lent, Leased, T!Where
  <2>8. \A e \in Folders : LockHasOneHolder(e)'
    <3>1. ASSUME NEW e \in Folders PROVE LockHasOneHolder(e)'
      <4>1. LockHasOneHolder(e)
        BY DEF TargetInv
      <4>2. CASE e = f
        BY <1>1, <1>2, <1>5, <2>3, <2>7, <4>1, <4>2 DEF LockHasOneHolder
      <4>3. CASE e # f
        BY <1>1, <2>3, <2>7, <4>1, <4>3 DEF LockHasOneHolder
      <4> QED
        BY <4>2, <4>3
    <3> QED
      BY <3>1
  <2>9. \A x : /\ (Fresh(x)' <=> Fresh(x)) /\ (\A d \in Preflighters : Looked(d, x)' <=> Looked(d, x))
               /\ ~Taken(x) /\ (Taken(x)' <=> x = h)
    BY <1>1, <2>2 DEF Fresh, Looked, Taken, Leased
  <2>10. /\ \A x \in Nat \ {0} : Kept(x)' <=> Kept(x) /\ x # h
         /\ Kept(h)
    <3>1. \A e \in Folders : reserved[e] = h => e = f
      BY <2>1 DEF TargetInv, GenerationsExist
    <3> QED
      BY <1>2, <1>3, <2>3, <3>1 DEF Kept
  <2>11. \A x \in Nat \ {0} : Given(x) => Given(x)' /\ x # h
    BY <2>9, <2>10 DEF Given
  <2>12. Given(h)'
    BY <2>1, <2>9, <2>10 DEF TargetInv, GenerationIsOnce, Given
  <2>13. \A x \in Nat \ {0} : GenerationIsOnce(x)'
    BY <2>1, <2>9, <2>10, <2>11, <2>12 DEF TargetInv, GenerationIsOnce
  <2>14. \A i \in DOMAIN restores : restores[i].generation \in Nat \ {0}
    BY <1>3, Numbered DEF TargetInv, GenerationsExist
  <2>15. RestoresAreSound'
    BY <1>5, <2>9, <2>11, <2>14 DEF TargetInv, RestoresAreSound
  <2>16. Given(g)' /\ (running = "running" => g = h)
    <3>1. Given(g) \/ g = h
      BY <1>1, <1>2, <1>3 DEF TargetInv, ExecutionIsSound
    <3>2. running = "running" => g = h
      BY <1>1, <1>2, <1>3 DEF TargetInv, ExecutionIsSound
    <3> QED
      BY <1>3, <2>11, <2>12, <3>1, <3>2
  <2>17. ExecutionIsSound'
    <3>1. \A i \in DOMAIN restores : restores[i].status \in Done => restores[i].generation # g
      BY <1>1, <1>2 DEF TargetInv, ExecutionIsSound
    <3> QED
      BY <1>1, <1>2, <1>5, <2>2, <2>16, <3>1 DEF ExecutionIsSound, Leased, Session
  <2>18. T!RegisteredIsRestored'
    BY <1>1, <1>5 DEF TargetInv, T!RegisteredIsRestored, T!Where
  <2> QED
    BY <2>4, <2>6, <2>8, <2>13, <2>15, <2>17, <2>18 DEF TargetInv
<1> QED
  BY <1>2, <1>4, <1>5 DEF T!TakeReservation

LEMMA AcquireRestoredTargetKept ==
    ASSUME T!RestoreTargetsAssumption, TargetInv, T!AcquireRestoredTarget PROVE TargetInv'
<1>1. executor.pc = "acquire"
      /\ UNCHANGED <<folder, registered, selections, reserved, offers, challenges, preflights, restores, leaving, running>>
  BY DEF T!AcquireRestoredTarget
<1>2. PICK f, g, h : f = T!Target /\ g = restores[executor.job].generation /\ h = executor.generation
  OBVIOUS
<1>3. /\ TargetsTyped /\ executor.job \in DOMAIN restores /\ restores[executor.job].status = "queued"
      /\ g \in DOMAIN selections /\ f \in Folders /\ executor \in Executions
  BY <1>1, <1>2, ExecutionFacts DEF TargetsTyped
<1>4. PICK to \in {"install", "return"} :
        /\ executor' = [executor EXCEPT !.pc = to]
        /\ IF to = "install" THEN /\ manager.active = T!Nowhere
                                  /\ manager' = [active |-> f, restored |-> TRUE, opened |-> FALSE]
           ELSE manager' = manager
  BY <1>2 DEF T!AcquireRestoredTarget
<1>5. /\ executor' \in Executions /\ executor'.pc = to /\ executor'.job = executor.job
      /\ executor'.generation = executor.generation
  BY <1>3, <1>4 DEF Executions, AtWork
<1>6. TargetsTyped'
  <2>1. [active |-> f, restored |-> TRUE, opened |-> FALSE] \in [active : Places, restored : BOOLEAN, opened : BOOLEAN]
    BY <1>3 DEF Places
  <2>2. manager' \in [active : Places, restored : BOOLEAN, opened : BOOLEAN]
    BY <1>3, <1>4, <2>1 DEF TargetsTyped
  <2> QED
    BY <1>1, <1>3, <1>5, <2>2 DEF TargetsTyped
<1>7. T!Target' = f /\ \A i : T!Where(i)' = T!Where(i)
  BY <1>1, <1>2, <1>5 DEF T!Target, T!Where
<1>8. GenerationsExist'
  BY <1>1, <1>2, <1>3, <1>5, <1>7 DEF TargetInv, GenerationsExist, Leased
<1>9. /\ \A d \in Preflighters, e \in Folders : Reserving(d, e)' <=> Reserving(d, e)
      /\ \A e \in Folders : (Lent(e) <=> e = f) /\ (Lent(e)' <=> e = f /\ to = "return")
  BY <1>1, <1>2, <1>5, <1>7 DEF Reserving, Lent, Leased, T!Where
<1>10. \A e \in Folders : IF to = "install" THEN manager.active # e /\ (manager'.active = e <=> e = f)
                          ELSE manager'.active = manager.active
  BY <1>4 DEF T!RestoreTargetsAssumption
<1>11. \A e \in Folders : LockHasOneHolder(e)'
  <2>1. ASSUME NEW e \in Folders PROVE LockHasOneHolder(e)'
    <3>1. LockHasOneHolder(e)
      BY DEF TargetInv
    <3>2. CASE e = f
      BY <1>1, <1>4, <1>9, <1>10, <3>1, <3>2 DEF LockHasOneHolder
    <3>3. CASE e # f
      BY <1>1, <1>4, <1>9, <1>10, <3>1, <3>3 DEF LockHasOneHolder
    <3> QED
      BY <3>2, <3>3
  <2> QED
    BY <2>1
<1>12. \A x : /\ (Given(x)' <=> Given(x)) /\ (Fresh(x)' <=> Fresh(x)) /\ (Kept(x)' <=> Kept(x))
              /\ (\A d \in Preflighters : Looked(d, x)' <=> Looked(d, x)) /\ (Taken(x)' => Taken(x))
  BY <1>1, <1>5 DEF Given, Fresh, Kept, Looked, Taken, Leased
<1>13. \A x \in Nat \ {0} : GenerationIsOnce(x)'
  BY <1>12 DEF TargetInv, GenerationIsOnce
<1>14. RestoresAreSound'
  BY <1>1, <1>12 DEF TargetInv, RestoresAreSound
<1>15. ExecutionIsSound'
  <2>1. /\ Given(g) /\ (running = "running" => executor.generation = g)
        /\ \A i \in DOMAIN restores : restores[i].status \in Done => restores[i].generation # g
    BY <1>1, <1>2 DEF TargetInv, ExecutionIsSound, Leased
  <2> QED
    BY <1>1, <1>2, <1>4, <1>5, <1>7, <1>12, <2>1 DEF ExecutionIsSound, Leased, Session
<1>16. T!RegisteredIsRestored'
  BY <1>1 DEF TargetInv, T!RegisteredIsRestored, T!Where
<1> QED
  BY <1>6, <1>8, <1>11, <1>13, <1>14, <1>15, <1>16 DEF TargetInv

LEMMA ReturnReservationKept ==
    ASSUME T!RestoreTargetsAssumption, TargetInv, T!ReturnReservation PROVE TargetInv'
<1>1. executor.pc = "return" /\ T!EndsJob("failed")
      /\ UNCHANGED <<folder, registered, selections, offers, challenges, manager, preflights, leaving, running>>
  BY DEF T!ReturnReservation
<1>2. PICK f, h : f = T!Target /\ h = executor.generation
  OBVIOUS
<1>3. /\ TargetsTyped /\ executor.job \in DOMAIN restores /\ restores[executor.job].status = "queued"
      /\ f \in Folders /\ h \in DOMAIN selections /\ T!Where(h) = f
      /\ executor'.pc = "idle" /\ executor' \in Executions
  BY <1>1, <1>2, ExecutionFacts DEF TargetInv, GenerationsExist, Leased, T!EndsJob, T!NoExecution, Executions
<1>n. h \in Nat \ {0}
  BY <1>3, Numbered
<1>4. /\ restores' \in Seq(Restores) /\ DOMAIN restores' = DOMAIN restores
      /\ \A i \in DOMAIN restores : restores'[i].generation = restores[i].generation
      /\ \A i \in DOMAIN restores \ {executor.job} : restores'[i].status = restores[i].status
      /\ restores'[executor.job].status = "failed"
  BY <1>1, <1>3, StatusSet DEF T!EndsJob
<1>5. reserved' \in [Folders -> Nat] /\ reserved'[f] = h /\ \A e \in Folders \ {f} : reserved'[e] = reserved[e]
  BY <1>2, <1>3, <1>n DEF TargetsTyped, T!ReturnReservation
<1>6. TargetsTyped'
  BY <1>1, <1>3, <1>4, <1>5 DEF TargetsTyped
<1>7. \A i : T!Where(i)' = T!Where(i)
  BY <1>1 DEF T!Where
<1>8. GenerationsExist'
  BY <1>1, <1>3, <1>4, <1>5, <1>7 DEF TargetInv, GenerationsExist, Leased
<1>9. /\ \A d \in Preflighters, e \in Folders : Reserving(d, e)' <=> Reserving(d, e)
      /\ \A e \in Folders : (Lent(e) <=> e = f) /\ ~Lent(e)'
  BY <1>1, <1>2, <1>3 DEF Reserving, Lent, Leased, T!Where
<1>10. \A e \in Folders : LockHasOneHolder(e)'
  <2>1. ASSUME NEW e \in Folders PROVE LockHasOneHolder(e)'
    <3>1. LockHasOneHolder(e)
      BY DEF TargetInv
    <3>2. CASE e = f
      BY <1>1, <1>n, <1>5, <1>9, <3>1, <3>2 DEF LockHasOneHolder
    <3>3. CASE e # f
      BY <1>1, <1>5, <1>9, <3>1, <3>3 DEF LockHasOneHolder
    <3> QED
      BY <3>2, <3>3
  <2> QED
    BY <2>1
<1>11. \A x : /\ (Fresh(x)' <=> Fresh(x)) /\ (\A d \in Preflighters : Looked(d, x)' <=> Looked(d, x))
              /\ (Taken(x) <=> x = h) /\ ~Taken(x)' /\ (Kept(x)' => Kept(x) \/ x = h)
  <2>1. \A x : /\ (Fresh(x)' <=> Fresh(x)) /\ (\A d \in Preflighters : Looked(d, x)' <=> Looked(d, x))
               /\ (Taken(x) <=> x = h) /\ ~Taken(x)'
    BY <1>1, <1>2, <1>3 DEF Fresh, Looked, Taken, Leased
  <2>2. \A x : Kept(x)' => Kept(x) \/ x = h
    BY <1>5 DEF Kept
  <2> QED
    BY <2>1, <2>2
<1>12. \A x : Given(x) /\ x # h => Given(x)'
  BY <1>11 DEF Given
<1>13. \A x \in Nat \ {0} : GenerationIsOnce(x)'
  BY <1>n, <1>11 DEF TargetInv, GenerationIsOnce, Given
<1>14. RestoresAreSound'
  BY <1>3, <1>4, <1>11, <1>12 DEF TargetInv, RestoresAreSound, Done
<1>15. ExecutionIsSound'
  BY <1>3 DEF ExecutionIsSound, Leased, Session
<1>16. T!RegisteredIsRestored'
  BY <1>1, <1>3, <1>4 DEF TargetInv, T!RegisteredIsRestored, T!Where
<1> QED
  BY <1>6, <1>8, <1>10, <1>13, <1>14, <1>15, <1>16 DEF TargetInv

(* The end of a session, with the folder's lock given back or not.         *)
LEMMA SessionEndsKept ==
    ASSUME T!RestoreTargetsAssumption, TargetInv, T!Install \/ T!Reopen PROVE TargetInv'
<1>1. executor.pc \in Session
      /\ UNCHANGED <<selections, reserved, offers, challenges, preflights, leaving, running>>
  BY DEF T!Install, T!Reopen, Session
<1>2. PICK f, g : f = T!Target /\ g = restores[executor.job].generation
  OBVIOUS
<1>3. /\ TargetsTyped /\ executor.job \in DOMAIN restores /\ restores[executor.job].status = "queued"
      /\ g \in DOMAIN selections /\ f \in Folders /\ executor \in Executions /\ f = T!Where(g)
      /\ g \in Nat \ {0}
  BY <1>1, <1>2, ExecutionFacts DEF TargetsTyped, Session
<1>4. /\ manager = [active |-> f, restored |-> TRUE, opened |-> FALSE] /\ Given(g)
      /\ running = "running" => executor.generation = g
      /\ \A i \in DOMAIN restores : restores[i].status \in Done => restores[i].generation # g
  BY <1>1, <1>2 DEF TargetInv, ExecutionIsSound, Session
<1>5. folder \in [Folders -> [lock : {"none", "held", "stale"}, entries : SUBSET {"project.db", "file"}]]
      /\ folder[f] \in [lock : {"none", "held", "stale"}, entries : SUBSET {"project.db", "file"}]
  BY <1>3 DEF TargetsTyped
<1>6. \A i : T!Where(i)' = T!Where(i)
  BY <1>1 DEF T!Where
<1>7. \A x : /\ (Given(x)' <=> Given(x)) /\ (Fresh(x)' <=> Fresh(x)) /\ (Kept(x)' <=> Kept(x))
             /\ (\A d \in Preflighters : Looked(d, x)' <=> Looked(d, x)) /\ ~Taken(x)
  BY <1>1 DEF Given, Fresh, Kept, Looked, Taken, Leased, Session
<1>8. /\ \A d \in Preflighters, e \in Folders : Reserving(d, e)' <=> Reserving(d, e)
      /\ \A e \in Folders : ~Lent(e)
  BY <1>1 DEF Reserving, Lent, Leased, Session, T!Where
<1>9. CASE /\ folder' = [folder EXCEPT ![f].entries = @ \cup {"project.db"}] /\ executor' = [executor EXCEPT !.pc = "reopen"]
           /\ UNCHANGED <<manager, restores, registered>>
  <2>1. /\ folder' \in [Folders -> [lock : {"none", "held", "stale"}, entries : SUBSET {"project.db", "file"}]]
        /\ \A e \in Folders : folder'[e].lock = folder[e].lock /\ folder[e].entries \subseteq folder'[e].entries
        /\ "project.db" \in folder'[f].entries
    <3>1. PICK n : n = [folder[f] EXCEPT !.entries = folder[f].entries \cup {"project.db"}] /\ folder' = [folder EXCEPT ![f] = n]
      BY <1>9
    <3>2. n \in [lock : {"none", "held", "stale"}, entries : SUBSET {"project.db", "file"}]
          /\ n.lock = folder[f].lock /\ n.entries = folder[f].entries \cup {"project.db"}
      BY <1>5, <3>1
    <3> QED
      BY <1>3, <1>5, <3>1, <3>2
  <2>2. /\ executor' \in Executions /\ executor'.pc = "reopen" /\ executor'.job = executor.job
        /\ executor'.generation = executor.generation
    BY <1>3, <1>9 DEF Executions, AtWork
  <2>3. TargetsTyped'
    BY <1>1, <1>3, <1>9, <2>1, <2>2 DEF TargetsTyped
  <2>4. GenerationsExist'
    BY <1>1, <1>3, <1>6, <1>9, <2>2 DEF TargetInv, GenerationsExist, Leased
  <2>5. T!Target' = f
    BY <1>2, <1>6, <1>9, <2>2 DEF T!Target
  <2>6. \A e \in Folders : ~Lent(e)'
    BY <2>2 DEF Lent, Leased
  <2>7. \A e \in Folders : LockHasOneHolder(e)'
    <3>1. ASSUME NEW e \in Folders PROVE LockHasOneHolder(e)'
      <4>1. LockHasOneHolder(e)
        BY DEF TargetInv
      <4> QED
        BY <1>1, <1>8, <1>9, <2>1, <2>6, <4>1 DEF LockHasOneHolder
    <3> QED
      BY <3>1
  <2>8. \A x : ~Taken(x)'
    BY <2>2 DEF Taken, Leased
  <2>9. \A x \in Nat \ {0} : GenerationIsOnce(x)'
    BY <1>7, <2>8 DEF TargetInv, GenerationIsOnce
  <2>10. RestoresAreSound'
    BY <1>7, <1>9, <2>8 DEF TargetInv, RestoresAreSound
  <2>11. ExecutionIsSound'
    BY <1>1, <1>2, <1>4, <1>7, <1>9, <2>1, <2>2, <2>5 DEF ExecutionIsSound, Leased, Session
  <2>12. T!RegisteredIsRestored'
    BY <1>6, <1>9, <2>1 DEF TargetInv, T!RegisteredIsRestored
  <2> QED
    BY <2>3, <2>4, <2>7, <2>9, <2>10, <2>11, <2>12 DEF TargetInv
<1>10. ASSUME NEW status \in {"failed"} \cup Done, T!EndsJob(status),
              manager' \in [active : Places, restored : BOOLEAN, opened : BOOLEAN],
              (manager'.active = f /\ folder' = folder)
                \/ (manager' = T!Closed /\ folder' = [folder EXCEPT ![f].lock = "none"]),
              registered' = registered
                \/ (registered' = f /\ status \in Done /\ "project.db" \in folder[f].entries)
       PROVE  TargetInv'
  <2>1. executor'.pc = "idle" /\ executor' \in Executions
    BY <1>10 DEF T!EndsJob, T!NoExecution, Executions
  <2>2. /\ restores' \in Seq(Restores) /\ DOMAIN restores' = DOMAIN restores
        /\ \A i \in DOMAIN restores : restores'[i].generation = restores[i].generation
        /\ \A i \in DOMAIN restores \ {executor.job} : restores'[i].status = restores[i].status
        /\ restores'[executor.job].status = status
    BY <1>3, <1>10, StatusSet DEF T!EndsJob
  <2>3. /\ folder' \in [Folders -> [lock : {"none", "held", "stale"}, entries : SUBSET {"project.db", "file"}]]
        /\ \A e \in Folders : folder'[e].entries = folder[e].entries
        /\ \A e \in Folders \ {f} : folder'[e] = folder[e]
        /\ manager'.active = f => folder'[f].lock = folder[f].lock
        /\ manager'.active # f => folder'[f].lock = "none"
    <3>1. CASE manager'.active = f /\ folder' = folder
      BY <1>3, <1>5, <3>1
    <3>2. CASE manager' = T!Closed /\ folder' = [folder EXCEPT ![f].lock = "none"]
      <4>1. PICK n : n = [folder[f] EXCEPT !.lock = "none"] /\ folder' = [folder EXCEPT ![f] = n]
        BY <3>2
      <4>2. n \in [lock : {"none", "held", "stale"}, entries : SUBSET {"project.db", "file"}]
            /\ n.lock = "none" /\ n.entries = folder[f].entries
        BY <1>5, <4>1
      <4>3. manager'.active # f
        BY <1>3, <3>2 DEF T!Closed, T!RestoreTargetsAssumption
      <4> QED
        BY <1>3, <1>5, <4>1, <4>2, <4>3
    <3> QED
      BY <1>10, <3>1, <3>2
  <2>4. TargetsTyped'
    BY <1>1, <1>3, <1>10, <2>1, <2>2, <2>3 DEF TargetsTyped, Places
  <2>5. GenerationsExist'
    BY <1>1, <1>6, <2>1, <2>2 DEF TargetInv, GenerationsExist, Leased
  <2>6. \A e \in Folders : ~Lent(e)' /\ (manager.active = e <=> e = f) /\ (manager'.active = e => e = f)
    BY <1>4, <1>10, <2>1 DEF Lent, Leased, T!Closed, T!RestoreTargetsAssumption
  <2>7. \A e \in Folders : LockHasOneHolder(e)'
    <3>1. ASSUME NEW e \in Folders PROVE LockHasOneHolder(e)'
      <4>1. LockHasOneHolder(e)
        BY DEF TargetInv
      <4>2. CASE e = f
        BY <1>1, <1>8, <2>3, <2>6, <4>1, <4>2 DEF LockHasOneHolder
      <4>3. CASE e # f
        BY <1>1, <1>8, <2>3, <2>6, <4>1, <4>3 DEF LockHasOneHolder
      <4> QED
        BY <4>2, <4>3
    <3> QED
      BY <3>1
  <2>8. \A x : ~Taken(x)'
    BY <2>1 DEF Taken, Leased
  <2>9. \A x \in Nat \ {0} : GenerationIsOnce(x)'
    BY <1>7, <2>8 DEF TargetInv, GenerationIsOnce
  <2>10. RestoresAreSound'
    <3>1. \A i \in DOMAIN restores : restores'[i].status \in Done => Given(restores[i].generation)
      BY <1>2, <1>4, <2>2 DEF TargetInv, RestoresAreSound
    <3>2. ASSUME NEW i \in DOMAIN restores, NEW x, x = restores'[i].generation, restores'[i].status \in Done
          PROVE  Given(x)' /\ ~Taken(x)'
      <4>1. Given(x)
        BY <2>2, <3>1, <3>2
      <4> QED
        BY <1>7, <2>8, <4>1
    <3>3. \A i, j \in DOMAIN restores :
            restores'[i].status \in Done /\ restores'[j].status \in Done
            /\ restores'[i].generation = restores'[j].generation => i = j
      BY <1>2, <1>4, <2>2 DEF TargetInv, RestoresAreSound
    <3>4. \A i \in DOMAIN restores : restores'[i].status \in Done =>
            Given(restores[i].generation)' /\ ~Taken(restores[i].generation)'
      <4>1. ASSUME NEW i \in DOMAIN restores, restores'[i].status \in Done
            PROVE  Given(restores[i].generation)' /\ ~Taken(restores[i].generation)'
        BY <3>2, <4>1 DEF Given, Taken, Fresh, Looked, Kept
      <4> QED
        BY <4>1
    <3> QED
      BY <2>2, <3>3, <3>4 DEF RestoresAreSound
  <2>11. ExecutionIsSound'
    BY <2>1 DEF ExecutionIsSound, Leased, Session
  <2>12. T!RegisteredIsRestored'
    <3>1. CASE registered' = registered
      <4>1. \A i \in DOMAIN restores : restores[i].status \in Done => restores'[i].status \in Done
        BY <1>3, <2>2 DEF Done
      <4> QED
        BY <1>6, <2>2, <2>3, <3>1, <4>1 DEF TargetInv, T!RegisteredIsRestored, Done
    <3>2. CASE registered' = f /\ status \in Done /\ "project.db" \in folder[f].entries
      BY <2>3, <1>2, <1>3, <1>6, <2>2, <3>2 DEF T!RegisteredIsRestored, Done
    <3> QED
      BY <1>10, <3>1, <3>2
  <2> QED
    BY <2>4, <2>5, <2>7, <2>9, <2>10, <2>11, <2>12 DEF TargetInv
<1>11. /\ manager \in [active : Places, restored : BOOLEAN, opened : BOOLEAN] /\ manager.active = f
       /\ T!Closed \in [active : Places, restored : BOOLEAN, opened : BOOLEAN]
       /\ [active |-> f, restored |-> FALSE, opened |-> TRUE] \in [active : Places, restored : BOOLEAN, opened : BOOLEAN]
       /\ [manager EXCEPT !.opened = TRUE] \in [active : Places, restored : BOOLEAN, opened : BOOLEAN]
       /\ [manager EXCEPT !.opened = TRUE].active = f
  BY <1>3, <1>4 DEF T!Closed, Places
<1>12. CASE T!Install
  <2>1. \/ folder' = [folder EXCEPT ![f].entries = @ \cup {"project.db"}] /\ executor' = [executor EXCEPT !.pc = "reopen"]
           /\ UNCHANGED <<manager, restores, registered>>
        \/ folder' = [folder EXCEPT ![f].lock = "none"] /\ manager' = T!Closed /\ T!EndsJob("failed") /\ registered' = registered
        \/ T!EndsJob("held") /\ UNCHANGED <<folder, manager, registered>>
    BY <1>2, <1>12 DEF T!Install, T!Locks
  <2> QED
    BY <1>9, <1>10, <1>11, <2>1 DEF Done
<1>13. CASE T!Reopen
  <2>1. "project.db" \in folder[f].entries
    BY <1>2, <1>13 DEF T!Reopen, TargetInv, ExecutionIsSound
  <2>2. /\ folder' = folder
        /\ \/ manager' = [active |-> f, restored |-> FALSE, opened |-> TRUE] /\ registered' = f /\ T!EndsJob("succeeded")
           \/ T!EndsJob("held") /\ UNCHANGED <<manager, registered>>
           \/ T!EndsJob("held") /\ manager' = [manager EXCEPT !.opened = TRUE] /\ registered' = f
    BY <1>2, <1>13 DEF T!Reopen
  <2>3. "succeeded" \in Done /\ "held" \in Done
    BY DEF Done
  <2>4. CASE manager' = [active |-> f, restored |-> FALSE, opened |-> TRUE] /\ registered' = f /\ T!EndsJob("succeeded")
    <3>1. manager'.active = f /\ manager' \in [active : Places, restored : BOOLEAN, opened : BOOLEAN]
      BY <1>11, <2>4
    <3> QED
      BY <1>10, <2>1, <2>2, <2>3, <2>4, <3>1
  <2>5. CASE T!EndsJob("held") /\ UNCHANGED <<manager, registered>>
    BY <1>10, <1>11, <2>1, <2>2, <2>3, <2>5
  <2>6. CASE T!EndsJob("held") /\ manager' = [manager EXCEPT !.opened = TRUE] /\ registered' = f
    <3>1. manager'.active = f /\ manager' \in [active : Places, restored : BOOLEAN, opened : BOOLEAN]
      BY <1>11, <2>6
    <3> QED
      BY <1>10, <2>1, <2>2, <2>3, <2>6, <3>1
  <2> QED
    BY <2>2, <2>4, <2>5, <2>6
<1> QED
  BY <1>12, <1>13

(* Everything about generations stays when only the folders' locks, the    *)
(* manager and the taken out reservations change, with no execution then.  *)
LEMMA CloseProjectKept ==
    ASSUME T!RestoreTargetsAssumption, TargetInv, T!CloseProject PROVE TargetInv'
<1>1. /\ manager.opened /\ ~manager.restored /\ manager' = T!Closed
      /\ UNCHANGED <<registered, selections, reserved, offers, challenges, preflights, restores, executor, leaving, running>>
      /\ TargetsTyped
  BY DEF T!CloseProject, TargetInv
<1>2. IF manager.active \in Folders THEN folder' = [folder EXCEPT ![manager.active].lock = "none"] ELSE folder' = folder
  BY DEF T!CloseProject, T!Locks
<1>3. executor.pc \notin Session
  BY <1>1 DEF TargetInv, ExecutionIsSound
<1>4. /\ folder' \in [Folders -> [lock : {"none", "held", "stale"}, entries : SUBSET {"project.db", "file"}]]
      /\ \A e \in Folders : folder'[e].entries = folder[e].entries
      /\ \A e \in Folders : folder'[e].lock = IF e = manager.active THEN "none" ELSE folder[e].lock
  <2>1. CASE manager.active \in Folders
    <3>1. PICK n : n = [folder[manager.active] EXCEPT !.lock = "none"] /\ folder' = [folder EXCEPT ![manager.active] = n]
      BY <1>2, <2>1
    <3>2. folder[manager.active] \in [lock : {"none", "held", "stale"}, entries : SUBSET {"project.db", "file"}]
      BY <1>1, <2>1 DEF TargetsTyped
    <3>3. n \in [lock : {"none", "held", "stale"}, entries : SUBSET {"project.db", "file"}]
          /\ n.lock = "none" /\ n.entries = folder[manager.active].entries
      BY <3>1, <3>2
    <3> QED
      BY <1>1, <2>1, <3>1, <3>3 DEF TargetsTyped
  <2>2. CASE manager.active \notin Folders
    BY <1>1, <1>2, <2>2 DEF TargetsTyped
  <2> QED
    BY <2>1, <2>2
<1>5. /\ manager' \in [active : Places, restored : BOOLEAN, opened : BOOLEAN]
      /\ \A e \in Folders : manager'.active # e
  BY <1>1 DEF T!Closed, Places, T!RestoreTargetsAssumption
<1>6. TargetsTyped'
  BY <1>1, <1>4, <1>5 DEF TargetsTyped
<1>7. T!Target' = T!Target /\ \A i : T!Where(i)' = T!Where(i)
  BY <1>1 DEF T!Target, T!Where
<1>8. GenerationsExist'
  BY <1>1, <1>7 DEF TargetInv, GenerationsExist
<1>9. /\ \A d \in Preflighters, e \in Folders : Reserving(d, e)' <=> Reserving(d, e)
      /\ \A e \in Folders : Lent(e)' <=> Lent(e)
  BY <1>1, <1>7 DEF Reserving, Lent
<1>10. ASSUME NEW e \in Folders PROVE LockHasOneHolder(e)'
  <2>1. LockHasOneHolder(e)
    BY DEF TargetInv
  <2>2. folder'[e].lock = IF e = manager.active THEN "none" ELSE folder[e].lock
    BY <1>4
  <2>3. CASE manager.active = e
    BY <1>1, <1>5, <1>9, <2>1, <2>2, <2>3 DEF LockHasOneHolder
  <2>4. CASE manager.active # e
    BY <1>1, <1>5, <1>9, <2>1, <2>2, <2>4 DEF LockHasOneHolder
  <2> QED
    BY <2>3, <2>4
<1>11. \A x : /\ (Given(x)' <=> Given(x)) /\ (Fresh(x)' <=> Fresh(x)) /\ (Kept(x)' <=> Kept(x))
              /\ (\A d \in Preflighters : Looked(d, x)' <=> Looked(d, x)) /\ (Taken(x)' <=> Taken(x))
  BY <1>1 DEF Given, Fresh, Kept, Looked, Taken
<1>12. \A x \in Nat \ {0} : GenerationIsOnce(x)'
  BY <1>11 DEF TargetInv, GenerationIsOnce
<1>13. RestoresAreSound'
  BY <1>1, <1>11 DEF TargetInv, RestoresAreSound
<1>14. ExecutionIsSound'
  <2>1. running' = "running" => running = "running"
    BY DEF T!CloseProject
  <2> QED
    BY <1>1, <1>3, <1>7, <1>11, <2>1 DEF TargetInv, ExecutionIsSound, Session
<1>15. T!RegisteredIsRestored'
  BY <1>1, <1>4, <1>7 DEF TargetInv, T!RegisteredIsRestored
<1> QED
  BY <1>6, <1>8, <1>10, <1>12, <1>13, <1>14, <1>15 DEF TargetInv

(* Close takes every reservation out, then gives each lock back.           *)
LEMMA CloseTargetsKept ==
    ASSUME T!RestoreTargetsAssumption, TargetInv, T!CloseTargets PROVE TargetInv'
<1>1. /\ running = "running" /\ running' = "closing"
      /\ leaving' = {f \in Folders : reserved[f] # 0} /\ reserved' = [f \in Folders |-> 0]
      /\ UNCHANGED <<folder, registered, selections, offers, challenges, manager, preflights, restores, executor>>
      /\ TargetsTyped
  BY DEF T!CloseTargets, TargetInv
<1>2. TargetsTyped'
  BY <1>1 DEF TargetsTyped
<1>3. T!Target' = T!Target /\ \A i : T!Where(i)' = T!Where(i)
  BY <1>1 DEF T!Target, T!Where
<1>4. \A f \in Folders : reserved'[f] = 0 /\ (f \in leaving' <=> reserved[f] # 0)
  BY <1>1
<1>5. GenerationsExist'
  BY <1>1, <1>3, <1>4 DEF TargetInv, GenerationsExist
<1>6. /\ \A d \in Preflighters, e \in Folders : Reserving(d, e)' <=> Reserving(d, e)
      /\ \A e \in Folders : Lent(e)' <=> Lent(e)
  BY <1>1, <1>3 DEF Reserving, Lent
<1>7. ASSUME NEW e \in Folders PROVE LockHasOneHolder(e)'
  <2>1. LockHasOneHolder(e) /\ e \notin leaving
    BY <1>1 DEF TargetInv, LockHasOneHolder
  <2> QED
    BY <1>1, <1>4, <1>6, <2>1 DEF LockHasOneHolder
<1>8. \A x \in Nat \ {0} : /\ Given(x) => Given(x)'
                           /\ Fresh(x)' <=> Fresh(x)
                           /\ ~Kept(x)'
                           /\ \A d \in Preflighters : Looked(d, x)' <=> Looked(d, x)
                           /\ Taken(x)' <=> Taken(x)
  BY <1>1, <1>4 DEF Given, Fresh, Kept, Looked, Taken
<1>9. \A x \in Nat \ {0} : GenerationIsOnce(x)'
  BY <1>8 DEF TargetInv, GenerationIsOnce
<1>10. \A i \in DOMAIN restores : restores[i].generation \in Nat \ {0}
  BY <1>1, Numbered DEF TargetInv, GenerationsExist
<1>11. RestoresAreSound'
  BY <1>1, <1>8, <1>10 DEF TargetInv, RestoresAreSound
<1>12. ExecutionIsSound'
  <2>1. PICK g : g = restores[executor.job].generation
    OBVIOUS
  <2>2. executor.pc # "idle" => g \in Nat \ {0} /\ executor.job \in DOMAIN restores
    BY <1>10, <2>1 DEF TargetInv, GenerationsExist
  <2>3. executor.pc = "take" => Given(g)'
    <3>1. ASSUME executor.pc = "take" PROVE Given(g)'
      <4>1. GenerationIsOnce(g) /\ g \in Nat \ {0} /\ T!Where(g) \in Folders
        BY <1>1, <2>1, <2>2, <3>1, ExecutionFacts DEF TargetInv
      <4>2. Given(g) \/ Kept(g)
        BY <2>1, <3>1, <4>1 DEF TargetInv, ExecutionIsSound, Kept
      <4>3. (~Fresh(g))' /\ (\A c \in Preflighters : ~Looked(c, g))'
        BY <1>8, <4>1, <4>2 DEF GenerationIsOnce, Given
      <4> QED
        BY <1>8, <4>1, <4>3 DEF Given
    <3> QED
      BY <3>1
  <2>4. executor.pc \in Leased \cup Session => Given(g)'
    BY <1>8, <2>1, <2>2 DEF TargetInv, ExecutionIsSound, Leased, Session
  <2> QED
    BY <1>1, <1>3, <2>1, <2>3, <2>4 DEF TargetInv, ExecutionIsSound
<1>13. T!RegisteredIsRestored'
  BY <1>1, <1>3 DEF TargetInv, T!RegisteredIsRestored
<1> QED
  BY <1>2, <1>5, <1>7, <1>9, <1>11, <1>12, <1>13 DEF TargetInv

LEMMA ReleaseLeavingKept ==
    ASSUME T!RestoreTargetsAssumption, TargetInv, T!ReleaseLeaving PROVE TargetInv'
<1>1. /\ UNCHANGED <<registered, selections, reserved, offers, challenges, manager, preflights, restores, executor, running>>
      /\ TargetsTyped
  BY DEF T!ReleaseLeaving, TargetInv
<1>2. PICK f \in leaving : folder' = [folder EXCEPT ![f].lock = "none"] /\ leaving' = leaving \ {f}
  BY DEF T!ReleaseLeaving, T!Locks
<1>3. f \in Folders
  BY <1>1, <1>2 DEF TargetsTyped
<1>4. /\ folder' \in [Folders -> [lock : {"none", "held", "stale"}, entries : SUBSET {"project.db", "file"}]]
      /\ \A e \in Folders : folder'[e].entries = folder[e].entries
      /\ \A e \in Folders : folder'[e].lock = IF e = f THEN "none" ELSE folder[e].lock
  <2>1. PICK n : n = [folder[f] EXCEPT !.lock = "none"] /\ folder' = [folder EXCEPT ![f] = n]
    BY <1>2
  <2>2. folder[f] \in [lock : {"none", "held", "stale"}, entries : SUBSET {"project.db", "file"}]
    BY <1>1, <1>3 DEF TargetsTyped
  <2>3. n \in [lock : {"none", "held", "stale"}, entries : SUBSET {"project.db", "file"}]
        /\ n.lock = "none" /\ n.entries = folder[f].entries
    BY <2>1, <2>2
  <2> QED
    BY <1>1, <1>3, <2>1, <2>3 DEF TargetsTyped
<1>5. TargetsTyped'
  BY <1>1, <1>2, <1>4 DEF TargetsTyped
<1>6. T!Target' = T!Target /\ \A i : T!Where(i)' = T!Where(i)
  BY <1>1 DEF T!Target, T!Where
<1>7. GenerationsExist'
  BY <1>1, <1>6 DEF TargetInv, GenerationsExist
<1>8. /\ \A d \in Preflighters, e \in Folders : Reserving(d, e)' <=> Reserving(d, e)
      /\ \A e \in Folders : Lent(e)' <=> Lent(e)
  BY <1>1, <1>6 DEF Reserving, Lent
<1>9. ASSUME NEW e \in Folders PROVE LockHasOneHolder(e)'
  <2>1. LockHasOneHolder(e)
    BY DEF TargetInv
  <2>2. folder'[e].lock = (IF e = f THEN "none" ELSE folder[e].lock) /\ (e \in leaving' <=> e \in leaving /\ e # f)
    BY <1>2, <1>4
  <2>3. CASE e = f
    BY <1>1, <1>2, <1>8, <2>1, <2>2, <2>3 DEF LockHasOneHolder
  <2>4. CASE e # f
    BY <1>1, <1>8, <2>1, <2>2, <2>4 DEF LockHasOneHolder
  <2> QED
    BY <2>3, <2>4
<1>10. \A x : /\ Given(x)' <=> Given(x)
              /\ Fresh(x)' <=> Fresh(x)
              /\ Kept(x)' <=> Kept(x)
              /\ \A d \in Preflighters : Looked(d, x)' <=> Looked(d, x)
              /\ Taken(x)' <=> Taken(x)
  BY <1>1 DEF Given, Fresh, Kept, Looked, Taken
<1>11. \A x \in Nat \ {0} : GenerationIsOnce(x)'
  BY <1>10 DEF TargetInv, GenerationIsOnce
<1>12. RestoresAreSound'
  BY <1>1, <1>10 DEF TargetInv, RestoresAreSound
<1>13. ExecutionIsSound'
  <2>1. "project.db" \in folder[T!Target].entries /\ executor.pc = "reopen" => "project.db" \in folder'[T!Target].entries
    BY <1>1, <1>4, ExecutionFacts DEF TargetInv
  <2> QED
    BY <1>1, <1>6, <1>10, <2>1 DEF TargetInv, ExecutionIsSound
<1>14. T!RegisteredIsRestored'
  BY <1>1, <1>4, <1>6 DEF TargetInv, T!RegisteredIsRestored
<1> QED
  BY <1>5, <1>7, <1>9, <1>11, <1>12, <1>13, <1>14 DEF TargetInv

(* The end of the process: nothing holds a lock, no generation is on its   *)
(* way, and what was restored stays restored.                              *)
LEMMA ProcessEndsKept ==
    ASSUME T!RestoreTargetsAssumption, TargetInv, T!Exit PROVE TargetInv'
<1>1. /\ TargetsTyped /\ GenerationsExist /\ registered' = registered /\ running' = "ended"
      /\ reserved' = [f \in Folders |-> 0] /\ offers' = {} /\ challenges' = {} /\ leaving' = {}
      /\ manager' = T!Closed /\ preflights' = [c \in Preflighters |-> T!NoPreflight] /\ executor' = T!NoExecution
  BY DEF T!Exit, TargetInv
<1>2. /\ manager' \in [active : Places, restored : BOOLEAN, opened : BOOLEAN] /\ \A e \in Folders : manager'.active # e
      /\ executor' \in Executions /\ executor'.pc = "idle"
      /\ preflights' \in [Preflighters -> Preflights] /\ \A c \in Preflighters : preflights'[c].pc = "idle"
  <2>1. T!Closed \in [active : Places, restored : BOOLEAN, opened : BOOLEAN] /\ \A e \in Folders : T!Closed.active # e
    BY DEF T!Closed, Places, T!RestoreTargetsAssumption
  <2>2. T!NoExecution \in Executions /\ T!NoExecution.pc = "idle"
    BY DEF T!NoExecution, Executions
  <2>3. T!NoPreflight \in Preflights /\ T!NoPreflight.pc = "idle"
    BY DEF T!NoPreflight, Preflights, Places, Locking
  <2> QED
    BY <1>1, <2>1, <2>2, <2>3
<1>3. /\ folder' \in [Folders -> [lock : {"none", "held", "stale"}, entries : SUBSET {"project.db", "file"}]]
      /\ \A e \in Folders : folder'[e].entries = folder[e].entries /\ folder'[e].lock # "held"
  <2>1. ASSUME NEW e \in Folders
        PROVE  /\ folder'[e] \in [lock : {"none", "held", "stale"}, entries : SUBSET {"project.db", "file"}]
               /\ folder'[e].entries = folder[e].entries /\ folder'[e].lock # "held"
    <3>1. folder'[e] = IF folder[e].lock = "held" THEN [folder[e] EXCEPT !.lock = "stale"] ELSE folder[e]
      BY <2>1 DEF T!Exit
    <3>2. folder[e] \in [lock : {"none", "held", "stale"}, entries : SUBSET {"project.db", "file"}]
      BY <1>1, <2>1 DEF TargetsTyped
    <3> QED
      BY <3>1, <3>2
  <2>2. \E F : folder' = [f \in Folders |-> F[f]]
    <3>1. folder' = [f \in Folders |-> folder'[f]]
      BY DEF T!Exit
    <3> QED
      BY <3>1
  <2> QED
    BY <2>1, <2>2
<1>4. /\ selections' \in Seq(Selections) /\ DOMAIN selections' = DOMAIN selections
      /\ \A i \in DOMAIN selections : selections'[i].folder = selections[i].folder /\ ~selections'[i].unused
  <2>1. ASSUME NEW i \in DOMAIN selections
        PROVE  [selections[i] EXCEPT !.unused = FALSE] \in Selections
               /\ [selections[i] EXCEPT !.unused = FALSE].folder = selections[i].folder
               /\ ~[selections[i] EXCEPT !.unused = FALSE].unused
    <3>1. selections[i] \in Selections
      BY <1>1, <2>1, Numbered
    <3> QED
      BY <3>1 DEF Selections
  <2>2. selections' = [i \in 1..Len(selections) |-> [selections[i] EXCEPT !.unused = FALSE]] /\ Len(selections) \in Nat
        /\ DOMAIN selections = 1..Len(selections)
    BY <1>1, LenProperties DEF TargetsTyped, T!Exit
  <2>3. selections' \in Seq(Selections)
    BY <2>1, <2>2, IsASeq
  <2> QED
    BY <2>1, <2>2, <2>3
<1>5. /\ restores' \in Seq(Restores) /\ DOMAIN restores' = DOMAIN restores
      /\ \A i \in DOMAIN restores : /\ restores'[i].generation = restores[i].generation
                                    /\ restores'[i].status \in Done <=> restores[i].status \in Done
                                    /\ restores'[i].status \in Done => restores'[i].status = restores[i].status
  <2>1. restores' = [i \in 1..Len(restores) |-> IF restores[i].status = "queued" THEN [restores[i] EXCEPT !.status = "open"]
                                                ELSE restores[i]]
        /\ Len(restores) \in Nat /\ DOMAIN restores = 1..Len(restores)
    BY <1>1, LenProperties DEF TargetsTyped, T!Exit
  <2>2. ASSUME NEW i \in DOMAIN restores
        PROVE  /\ restores'[i] \in Restores /\ restores'[i].generation = restores[i].generation
               /\ restores'[i].status \in Done <=> restores[i].status \in Done
               /\ restores'[i].status \in Done => restores'[i].status = restores[i].status
    <3>1. restores'[i] = IF restores[i].status = "queued" THEN [restores[i] EXCEPT !.status = "open"] ELSE restores[i]
      BY <2>1, <2>2
    <3>2. restores[i] \in Restores
      BY <1>1, <2>1, <2>2, ElementOfSeq DEF TargetsTyped
    <3> QED
      BY <3>1, <3>2 DEF Restores, Done
  <2>3. restores' \in Seq(Restores)
    <3>1. \A i \in 1..Len(restores) : restores'[i] \in Restores
      BY <2>1, <2>2
    <3>2. restores' = [i \in 1..Len(restores) |-> restores'[i]]
      BY <2>1
    <3> QED
      BY <2>1, <3>1, <3>2, IsASeq
  <2> QED
    BY <2>1, <2>2, <2>3
<1>6. TargetsTyped'
  BY <1>1, <1>2, <1>3, <1>4, <1>5 DEF TargetsTyped
<1>7. \A i \in DOMAIN selections : T!Where(i)' = T!Where(i)
  BY <1>4 DEF T!Where
<1>8. GenerationsExist'
  BY <1>1, <1>2, <1>4, <1>5 DEF GenerationsExist, Leased
<1>9. \A e \in Folders : LockHasOneHolder(e)'
  BY <1>1, <1>2, <1>3 DEF LockHasOneHolder, Reserving, Lent, Leased
<1>10. \A x \in Nat \ {0} : Given(x)' /\ ~Taken(x)' /\ ~Fresh(x)' /\ \A c \in Preflighters : ~Looked(c, x)'
  BY <1>1, <1>2, <1>4 DEF Given, Fresh, Kept, Looked, Taken, Leased, Locking
<1>11. \A x \in Nat \ {0} : GenerationIsOnce(x)'
  BY <1>10 DEF GenerationIsOnce, Given
<1>12. RestoresAreSound'
  <2>1. \A i \in DOMAIN restores : restores'[i].generation \in Nat \ {0}
    BY <1>1, <1>5, Numbered DEF GenerationsExist
  <2>2. \A i \in DOMAIN restores : Given(restores[i].generation)' /\ ~Taken(restores[i].generation)'
    <3>1. ASSUME NEW i \in DOMAIN restores, NEW x, x = restores'[i].generation PROVE Given(x)' /\ ~Taken(x)'
      BY <1>10, <2>1, <3>1
    <3> QED
      BY <3>1 DEF Given, Taken, Fresh, Looked, Kept
  <2>3. \A i, j \in DOMAIN restores :
          restores'[i].status \in Done /\ restores'[j].status \in Done
          /\ restores'[i].generation = restores'[j].generation => i = j
    BY <1>5 DEF TargetInv, RestoresAreSound
  <2> QED
    BY <1>5, <2>2, <2>3 DEF RestoresAreSound
<1>13. ExecutionIsSound'
  BY <1>2 DEF ExecutionIsSound, Leased, Session
<1>14. T!RegisteredIsRestored'
  <2>1. \A j \in DOMAIN restores : T!Where(restores[j].generation)' = T!Where(restores[j].generation)
    BY <1>1, <1>5, <1>7 DEF GenerationsExist, T!Where
  <2> QED
    BY <1>1, <1>3, <1>5, <2>1 DEF TargetInv, T!RegisteredIsRestored, Done
<1> QED
  BY <1>6, <1>8, <1>9, <1>11, <1>12, <1>13, <1>14 DEF TargetInv

LEMMA TargetStarts == ASSUME T!RestoreTargetsAssumption, T!TargetInit PROVE TargetInv
<1>1. TargetsTyped
  <2>1. [lock |-> "none", entries |-> {}] \in [lock : {"none", "held", "stale"}, entries : SUBSET {"project.db", "file"}]
    OBVIOUS
  <2>2. folder \in [Folders -> [lock : {"none", "held", "stale"}, entries : SUBSET {"project.db", "file"}]]
    BY <2>1 DEF T!TargetInit
  <2>3. <<>> \in Seq(Selections) /\ <<>> \in Seq(Restores)
    BY EmptySeq
  <2>4. T!NoPreflight \in Preflights /\ T!NoExecution \in Executions
        /\ T!Closed \in [active : Places, restored : BOOLEAN, opened : BOOLEAN]
    BY DEF T!NoPreflight, Preflights, T!NoExecution, Executions, T!Closed, Places
  <2> QED
    BY <2>2, <2>3, <2>4 DEF T!TargetInit, TargetsTyped, Places
<1>n. DOMAIN <<>> = {}
  OBVIOUS
<1>2. /\ \A f \in Folders : folder[f].lock = "none" /\ reserved[f] = 0 /\ manager.active # f
      /\ \A c \in Preflighters : preflights[c].pc = "idle"
      /\ executor.pc = "idle" /\ leaving = {} /\ DOMAIN selections = {} /\ DOMAIN restores = {} /\ registered \notin Folders
  <2>1. \A f \in Folders : folder[f].lock = "none" /\ reserved[f] = 0 /\ manager.active # f
    BY DEF T!TargetInit, T!Closed, T!RestoreTargetsAssumption
  <2>2. /\ \A c \in Preflighters : preflights[c].pc = "idle"
        /\ executor.pc = "idle" /\ leaving = {} /\ registered \notin Folders
    BY DEF T!TargetInit, T!NoPreflight, T!NoExecution, T!RestoreTargetsAssumption
  <2>3. DOMAIN selections = {} /\ DOMAIN restores = {}
    BY <1>n DEF T!TargetInit
  <2> QED
    BY <2>1, <2>2, <2>3
<1>3. GenerationsExist
  BY <1>2 DEF GenerationsExist, Leased
<1>4. \A f \in Folders : LockHasOneHolder(f)
  BY <1>2 DEF LockHasOneHolder, Reserving, Lent, Leased
<1>5. \A g \in Nat \ {0} : GenerationIsOnce(g)
  BY <1>2 DEF GenerationIsOnce, Fresh, Kept, Looked, Taken, Leased, Locking
<1>6. ExecutionIsSound /\ RestoresAreSound /\ T!RegisteredIsRestored
  BY <1>2 DEF ExecutionIsSound, RestoresAreSound, T!RegisteredIsRestored, Leased, Session
<1> QED
  BY <1>1, <1>3, <1>4, <1>5, <1>6 DEF TargetInv

LEMMA TargetStutters == ASSUME TargetInv, UNCHANGED targetVars PROVE TargetInv'
<1>1. UNCHANGED <<folder, registered, selections, reserved, offers, challenges, manager, preflights, restores, executor,
                  leaving, running>>
  BY DEF targetVars
<1>2. TargetsTyped'
  BY <1>1 DEF TargetInv, TargetsTyped
<1>3. T!Target' = T!Target /\ \A i : T!Where(i)' = T!Where(i)
  BY <1>1 DEF T!Target, T!Where
<1>4. GenerationsExist'
  BY <1>1, <1>3 DEF TargetInv, GenerationsExist
<1>5. \A e \in Folders : LockHasOneHolder(e)'
  BY <1>1, <1>3 DEF TargetInv, LockHasOneHolder, Reserving, Lent
<1>6. \A x : /\ Given(x)' <=> Given(x)
             /\ Fresh(x)' <=> Fresh(x)
             /\ Kept(x)' <=> Kept(x)
             /\ \A d \in Preflighters : Looked(d, x)' <=> Looked(d, x)
             /\ Taken(x)' <=> Taken(x)
  BY <1>1 DEF Given, Fresh, Kept, Looked, Taken
<1>7. \A x \in Nat \ {0} : GenerationIsOnce(x)'
  BY <1>6 DEF TargetInv, GenerationIsOnce
<1>8. ExecutionIsSound' /\ RestoresAreSound' /\ T!RegisteredIsRestored'
  BY <1>1, <1>3, <1>6 DEF TargetInv, ExecutionIsSound, RestoresAreSound, T!RegisteredIsRestored
<1> QED
  BY <1>2, <1>4, <1>5, <1>7, <1>8 DEF TargetInv

LEMMA TargetStep == ASSUME T!RestoreTargetsAssumption, TargetInv, T!TargetNext PROVE TargetInv'
<1>1. CASE \E c \in Preflighters : T!ResolveEmpty(c) \/ T!LockTarget(c) \/ T!ReserveTarget(c) \/ T!ResolveRegistry(c)
                                   \/ T!ConfirmMigration(c) \/ T!Offer(c)
  BY <1>1, ResolveEmptyKept, LockTargetKept, ReserveTargetKept, ResolveRegistryKept, ConfirmMigrationKept, OfferKept
<1>2. CASE T!Select \/ T!Submit \/ T!Revalidate \/ T!TakeReservation \/ T!AcquireRestoredTarget \/ T!ReturnReservation
           \/ T!Install \/ T!Reopen
  BY <1>2, SelectKept, SubmitKept, RevalidateKept, TakeReservationKept, AcquireRestoredTargetKept, ReturnReservationKept,
     SessionEndsKept
<1>3. CASE T!OpenHome \/ T!CloseProject \/ T!PreflightExpires \/ T!FileAppears \/ T!CloseTargets \/ T!ReleaseLeaving \/ T!Exit
  BY <1>3, SurroundingsKept, CloseProjectKept, CloseTargetsKept, ReleaseLeavingKept, ProcessEndsKept
<1> QED
  BY <1>1, <1>2, <1>3 DEF T!TargetNext

(* The selection of an empty folder keeps its invariant, whatever scene    *)
(* runs.                                                                   *)
THEOREM TargetInvariant == MaintenanceSpec => []TargetInv
<1> USE TargetsAssumption
<1>1. MaintenanceInit => TargetInv
  BY TargetStarts DEF MaintenanceInit
<1>2. TargetInv /\ [MaintenanceNext]_<<vars, projectVars, targetVars, scene>> => TargetInv'
  BY TargetStep, TargetStutters DEF MaintenanceNext
<1> QED
  BY <1>1, <1>2, PTL DEF MaintenanceSpec

(* The holders that LockHasOneHolder tells apart, counted.                 *)
LEMMA HoldersCounted ==
    ASSUME NEW f \in Folders, LockHasOneHolder(f)
    PROVE  Cardinality(T!Holders(f)) = IF folder[f].lock = "held" THEN 1 ELSE 0
<1>1. \A h : h \in T!Holders(f) <=>
        \/ \E c \in Preflighters : Reserving(c, f) /\ h = <<"preflight", c>>
        \/ reserved[f] # 0 /\ h = <<"reservation">>
        \/ Lent(f) /\ h = <<"lease">>
        \/ manager.active = f /\ h = <<"manager">>
        \/ f \in leaving /\ h = <<"closer">>
  BY DEF T!Holders, Reserving, Lent, Leased
<1>2. CASE folder[f].lock # "held"
  <2>1. T!Holders(f) = {}
    BY <1>1, <1>2 DEF LockHasOneHolder
  <2> QED
    BY <1>2, <2>1, FS_EmptySet
<1>3. CASE folder[f].lock = "held"
  <2>1. \E h : T!Holders(f) = {h}
    <3>1. CASE \E c \in Preflighters : Reserving(c, f)
      <4>1. PICK c \in Preflighters : Reserving(c, f)
        BY <3>1
      <4>2. \A h : h \in T!Holders(f) <=> h = <<"preflight", c>>
        BY <1>1, <4>1 DEF LockHasOneHolder
      <4>3. T!Holders(f) = {<<"preflight", c>>}
        BY <4>2
      <4> QED
        BY <4>3
    <3>2. CASE reserved[f] # 0
      <4>1. \A h : h \in T!Holders(f) <=> h = <<"reservation">>
        BY <1>1, <3>2 DEF LockHasOneHolder
      <4>2. T!Holders(f) = {<<"reservation">>}
        BY <4>1
      <4> QED
        BY <4>2
    <3>3. CASE Lent(f)
      <4>1. \A h : h \in T!Holders(f) <=> h = <<"lease">>
        BY <1>1, <3>3 DEF LockHasOneHolder
      <4>2. T!Holders(f) = {<<"lease">>}
        BY <4>1
      <4> QED
        BY <4>2
    <3>4. CASE manager.active = f
      <4>1. \A h : h \in T!Holders(f) <=> h = <<"manager">>
        BY <1>1, <3>4 DEF LockHasOneHolder
      <4>2. T!Holders(f) = {<<"manager">>}
        BY <4>1
      <4> QED
        BY <4>2
    <3>5. CASE f \in leaving
      <4>1. \A h : h \in T!Holders(f) <=> h = <<"closer">>
        BY <1>1, <3>5 DEF LockHasOneHolder
      <4>2. T!Holders(f) = {<<"closer">>}
        BY <4>1
      <4> QED
        BY <4>2
    <3> QED
      BY <1>3, <3>1, <3>2, <3>3, <3>4, <3>5 DEF LockHasOneHolder
  <2> QED
    BY <1>3, <2>1, FS_Singleton
<1> QED
  BY <1>2, <1>3

LEMMA TargetsImplied == ASSUME TargetInv PROVE T!TargetsAreSound
<1>1. T!LockIsHandedOn
  <2>1. ASSUME NEW f \in Folders PROVE Cardinality(T!Holders(f)) = IF folder[f].lock = "held" THEN 1 ELSE 0
    <3>1. LockHasOneHolder(f)
      BY DEF TargetInv
    <3> QED
      BY <3>1, HoldersCounted
  <2>2. \A S : T!Cardinality(S) = Cardinality(S)
    BY DEF T!Cardinality, Cardinality
  <2> QED
    BY <2>1, <2>2 DEF T!LockIsHandedOn
<1>2. T!SelectionIsUsedOnce
  BY DEF TargetInv, ExecutionIsSound, RestoresAreSound, T!SelectionIsUsedOnce, Leased, Session, Done
<1> QED
  BY <1>1, <1>2 DEF TargetInv, T!TargetsAreSound

(* takeEmpty, restoreEmpty, Acquire, ConfirmMigration, Reopen: the lock of *)
(* a folder has one holder and a selection one restore; and AcquireLease,  *)
(* Close: a project has at most one process that holds it.                 *)
THEOREM HolderIsAloneHolds == ASSUME RenamesAreSafe PROVE MaintenanceSpec => []HolderIsAlone
<1>1. P!HolderIsAlone /\ T!TargetsAreSound => HolderIsAlone
  BY DEF HolderIsAlone
<1>2. TargetInv => T!TargetsAreSound
  BY TargetsImplied
<1> QED
  BY <1>1, <1>2, TargetInvariant, LockNamesHolder, PTL
===============================================================================
