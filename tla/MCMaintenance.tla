---------------------------- MODULE MCMaintenance ----------------------------
(***************************************************************************)
(* What takes a project away from its users: a behaviour follows a restore *)
(* in the process that holds the project, several processes that open,     *)
(* close, delete and maintain one project directory, or the selection of   *)
(* an empty folder for a restore.                                          *)
(***************************************************************************)
EXTENDS Restore, TLC

CONSTANTS Procs, Dirs, Requests, NoDir, NoProc, MaxIds, MaxDeaths, RecentCap, Loads,
          Folders, Home, Preflighters, MaxSelections, MaxRestores, MaxTroubles

VARIABLES lock, db, recent, holder, req, made, load,   \* the state of ProjectInstances
          folder, registered, selections, reserved, offers, challenges, manager, preflights,
          restores, executor, leaving, running, troubles,   \* the state of RestoreTargets
          scene                                  \* what the behaviour follows

(* The operations on the files with one close request, on a system that    *)
(* renames open files, and what two requests do on one that does not.       *)
MCLoads == {[kinds |-> {"create", "delete", "maintain", "adopt"}, requests |-> {"r"}, renames |-> TRUE],
            [kinds |-> {"jobs"}, requests |-> {"r", "s"}, renames |-> FALSE]}

(* Where a file that is held open can be renamed, close requests come one   *)
(* at a time: two that verified the same dead owner would otherwise archive *)
(* the lock file of that owner and then the one taken after it.            *)
RenamesAreSafe == \A l \in Loads : l.renames => \A r, s \in l.requests : r = s

P == INSTANCE ProjectInstances WITH proc <- holder, MaxCrashes <- MaxDeaths
ASSUME InstancesAssumption == P!ProjectInstancesAssumption

T == INSTANCE RestoreTargets WITH process <- running
ASSUME TargetsAssumption == T!RestoreTargetsAssumption

projectVars == <<lock, db, recent, holder, req, made, load>>
targetVars == <<folder, registered, selections, reserved, offers, challenges, manager, preflights,
                restores, executor, leaving, running, troubles>>

MaintenanceInit ==
    /\ Init /\ P!Init /\ T!TargetInit
    /\ \/ scene = "restore" /\ (\A d \in Dirs : db[d].ver = "current") /\ registered = Home
       \/ scene = "projects" /\ ~detached /\ registered = Home
       \/ scene = "targets" /\ ~detached /\ (\A d \in Dirs : db[d].ver = "current")

MaintenanceNext ==
    \/ scene = "restore" /\ Next /\ UNCHANGED <<projectVars, targetVars, scene>>
    \/ scene = "projects" /\ P!Next /\ UNCHANGED <<vars, targetVars, scene>>
    \/ scene = "targets" /\ T!TargetNext /\ UNCHANGED <<vars, projectVars, scene>>

(* The fairness of each part holds of the behaviours that follow it.       *)
MaintenanceSpec ==
    /\ MaintenanceInit /\ [][MaintenanceNext]_<<vars, projectVars, targetVars, scene>>
    /\ WF_vars(scene = "restore" /\ SubmitJournal)
    /\ WF_vars(scene = "restore" /\ Execute)
    /\ WF_vars(scene = "restore" /\ StartupRecovery)
    /\ P!Fairness

(* A process that has a project is named by the lock of its directory, and *)
(* the database under its handle is the one it opened (install,            *)
(* MaintenanceSession, reclaimStaleLock).  The lock of a folder selected   *)
(* for a restore is handed from the preflight to the reservation and on to *)
(* the session and never dropped or shared, and a selection is restored    *)
(* into once (ResolveEmpty, takeEmpty, AcquireRestoredTarget).             *)
HolderIsAlone ==
    /\ P!HolderIsAlone
    /\ scene = "targets" => T!TargetsAreSound

(* The lock file that a live process has open is removed by that process   *)
(* only (reclaimStaleLock).                                                *)
LiveKeepsLock == P!LiveKeepsLock

(* A request against the project of a dead owner frees its directory       *)
(* (PeerInstanceClient.Close).                                             *)
DeadIsDisplaced == P!DeadIsDisplaced
=============================================================================
