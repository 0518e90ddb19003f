---------------------------- MODULE RestoreTargets ----------------------------
(***************************************************************************)
(* Restoring a backup into an empty folder that the user selects, up to    *)
(* the maintenance session of it: selection tokens (project.go), the       *)
(* reservations of locked folders (backup/integration/maintenance.go), the *)
(* confirmation that a registered project may move (registry.go) and the   *)
(* preflights of RestoreService.  There is one backup; what a restore does *)
(* to the files and its journal is the subject of Restore.  The generation *)
(* of a target is the number of the selection it was reserved with.        *)
(***************************************************************************)
EXTENDS Integers, Sequences, FiniteSets

CONSTANTS
    Folders,         \* folders the user may select
    Home,            \* the folder the backed-up project was last opened in
    Preflighters,    \* concurrent preflight requests
    MaxSelections,   \* bound: directory dialogs
    MaxRestores,     \* bound: restore Jobs
    MaxTroubles      \* bound: failing calls, files put into a folder, deaths

VARIABLES folder,      \* the lock file and the other entries of each folder
          registered,  \* the recent-project record of the project
          selections,  \* memoryTokens: the issued tokens, in order
          reserved,    \* ProjectTargets.empty, by folder: a generation or 0
          offers,      \* RestoreService.preflights and preflightTargets
          challenges,  \* registryChallenges and the registry's tokens
          manager,     \* project.Manager
          preflights,  \* requests that are between two steps of preflightEmpty
          restores,    \* the Jobs, in the order of their submission
          executor,    \* the Execute that holds RestoreService.mu
          leaving,     \* the reservations that ProjectTargets.Close has taken out
          process,     \* running, closing or ended
          troubles     \* how many there were

targetVars == <<folder, registered, selections, reserved, offers, challenges, manager, preflights, restores, executor,
                leaving, process, troubles>>

Nowhere == "nowhere"

RestoreTargetsAssumption ==
    /\ Nowhere \notin Folders /\ Home \notin Folders
    /\ MaxSelections \in Nat /\ MaxRestores \in Nat /\ MaxTroubles \in Nat

Closed == [active |-> Nowhere, restored |-> FALSE, opened |-> FALSE]
NoPreflight == [pc |-> "idle", generation |-> 0, state |-> "", current |-> Nowhere]
NoExecution == [pc |-> "idle", job |-> 0, generation |-> 0]
Where(generation) == selections[generation].folder

TargetInit ==
    /\ folder = [f \in Folders |-> [lock |-> "none", entries |-> {}]]
    /\ registered \in {Nowhere, Home}
    /\ selections = <<>> /\ reserved = [f \in Folders |-> 0]
    /\ offers = {} /\ challenges = {} /\ manager = Closed
    /\ preflights = [c \in Preflighters |-> NoPreflight] /\ restores = <<>> /\ executor = NoExecution
    /\ leaving = {} /\ process = "running" /\ troubles = 0

Fails == troubles < MaxTroubles /\ troubles' = troubles + 1
Locks(f, state) == folder' = [folder EXCEPT ![f].lock = state]
MutexFree == executor.pc = "idle"
\* CurrentRestore gives the service without a project.
Detached == process = "running" /\ (manager.active = Nowhere \/ manager.restored)

-------------------------------------------------------------------------------
(* The selection and the preflight.                                        *)

\* IssueSelection.
Select ==
    /\ process = "running" /\ Len(selections) < MaxSelections
    /\ \E f \in Folders : selections' = Append(selections, [folder |-> f, unused |-> TRUE])
    /\ UNCHANGED <<folder, registered, reserved, offers, challenges, manager, preflights, restores, executor, leaving, process, troubles>>

\* ResolveEmpty up to the lock: the token is gone whatever comes of it.
ResolveEmpty(c) ==
    /\ preflights[c].pc = "idle" /\ Detached
    /\ \E i \in DOMAIN selections, expired \in BOOLEAN :
        LET empty == folder[Where(i)] = [lock |-> "none", entries |-> {}] IN
        /\ selections[i].unused
        /\ selections' = [selections EXCEPT ![i].unused = FALSE]
        /\ preflights' = [preflights EXCEPT ![c] = IF ~expired /\ empty /\ manager.active = Nowhere
                                                   THEN [NoPreflight EXCEPT !.pc = "lock", !.generation = i] ELSE NoPreflight]
    /\ UNCHANGED <<folder, registered, reserved, offers, challenges, manager, restores, executor, leaving, process, troubles>>

LockTarget(c) ==
    LET f == Where(preflights[c].generation) IN
    /\ preflights[c].pc = "lock"
    /\ IF folder[f].lock = "none"
       THEN Locks(f, "held") /\ preflights' = [preflights EXCEPT ![c].pc = "reserve"]
       ELSE UNCHANGED folder /\ preflights' = [preflights EXCEPT ![c] = NoPreflight]
    /\ UNCHANGED <<registered, selections, reserved, offers, challenges, manager, restores, executor, leaving, process, troubles>>

\* The folder is looked at again under the lock.
ReserveTarget(c) ==
    LET g == preflights[c].generation
        f == Where(g)
    IN
    /\ preflights[c].pc = "reserve"
    /\ IF folder[f].entries = {} /\ reserved[f] = 0
       THEN /\ reserved' = [reserved EXCEPT ![f] = g]
            /\ preflights' = [preflights EXCEPT ![c].pc = "registry"] /\ UNCHANGED folder
       ELSE Locks(f, "none") /\ preflights' = [preflights EXCEPT ![c] = NoPreflight] /\ UNCHANGED reserved
    /\ UNCHANGED <<registered, selections, offers, challenges, manager, restores, executor, leaving, process, troubles>>

\* Resolve and IssueMigrationConfirmation: a project that is registered elsewhere needs
\* the user's word.  A failing call ends the preflight and leaves the reservation.
ResolveRegistry(c) ==
    LET g == preflights[c].generation IN
    /\ preflights[c].pc = "registry"
    /\ \/ /\ preflights' = [preflights EXCEPT ![c].pc = "offer",
                              ![c].current = registered,
                              ![c].state = IF registered \in {Nowhere, Where(g)} THEN "matched" ELSE "required"]
          /\ UNCHANGED troubles
       \/ Fails /\ preflights' = [preflights EXCEPT ![c] = NoPreflight]
    /\ UNCHANGED <<folder, registered, selections, reserved, offers, challenges, manager, restores, executor, leaving, process>>

\* ConfirmMigration: the confirmation is used up, and good only for the registration
\* it was given for.
ConfirmMigration(c) ==
    /\ preflights[c].pc = "idle" /\ Detached /\ MutexFree
    /\ \E challenge \in challenges :
        /\ challenges' = challenges \ {challenge}
        /\ preflights' = [preflights EXCEPT ![c] =
             IF registered = challenge.current THEN [pc |-> "offer", generation |-> challenge.generation, state |-> "confirmed", current |-> registered]
             ELSE NoPreflight]
    /\ UNCHANGED <<folder, registered, selections, reserved, offers, manager, restores, executor, leaving, process, troubles>>

\* The rest of preflightEmpty: challenge, space, preflight.  The maps are under the mutex
\* that Execute holds.
Offer(c) ==
    LET p == preflights[c]
        challenged == IF p.state = "required" THEN {[generation |-> p.generation, current |-> p.current]} ELSE {}
    IN
    /\ p.pc = "offer" /\ MutexFree
    /\ challenges' = challenges \cup challenged
    /\ preflights' = [preflights EXCEPT ![c] = NoPreflight]
    /\ \/ offers' = offers \cup {[generation |-> p.generation, state |-> p.state]} /\ UNCHANGED troubles
       \/ Fails /\ UNCHANGED offers
    /\ UNCHANGED <<folder, registered, selections, reserved, manager, restores, executor, leaving, process>>

-------------------------------------------------------------------------------
(* Submission and execution.                                               *)

\* revalidateEmpty.
Revalidated(generation) ==
    /\ reserved[Where(generation)] = generation
    /\ folder[Where(generation)].entries = {}
    /\ manager.active # Where(generation)

Submit ==
    /\ Detached /\ MutexFree /\ Len(restores) < MaxRestores
    /\ \E o \in offers :
        /\ o.state # "required" /\ Revalidated(o.generation)
        /\ restores' = Append(restores, [generation |-> o.generation, status |-> "queued"])
    /\ UNCHANGED <<folder, registered, selections, reserved, offers, challenges, manager, preflights, executor, leaving, process, troubles>>

EndsJob(status) == /\ restores' = [restores EXCEPT ![executor.job].status = status]
                   /\ executor' = NoExecution
Target == Where(restores[executor.job].generation)

\* Execute up to the maintenance lease.
Revalidate ==
    /\ MutexFree
    /\ \E j \in DOMAIN restores :
        /\ restores[j].status = "queued"
        /\ IF Revalidated(restores[j].generation)
           THEN executor' = [pc |-> "take", job |-> j, generation |-> 0] /\ UNCHANGED restores
           ELSE restores' = [restores EXCEPT ![j].status = "failed"] /\ UNCHANGED executor
    /\ UNCHANGED <<folder, registered, selections, reserved, offers, challenges, manager, preflights, leaving, process, troubles>>

\* takeEmpty; without a reservation the target would have to be the active project,
\* whose identity is another one.
TakeReservation ==
    /\ executor.pc = "take"
    /\ IF reserved[Target] # 0
       THEN /\ reserved' = [reserved EXCEPT ![Target] = 0]
            /\ executor' = [executor EXCEPT !.pc = "acquire", !.generation = reserved[Target]] /\ UNCHANGED restores
       ELSE EndsJob("failed") /\ UNCHANGED reserved
    /\ UNCHANGED <<folder, registered, selections, offers, challenges, manager, preflights, leaving, process, troubles>>

AcquireRestoredTarget ==
    /\ executor.pc = "acquire"
    /\ IF manager.active = Nowhere
       THEN /\ manager' = [active |-> Target, restored |-> TRUE, opened |-> FALSE]
            /\ executor' = [executor EXCEPT !.pc = "install"]
       ELSE executor' = [executor EXCEPT !.pc = "return"] /\ UNCHANGED manager
    /\ UNCHANGED <<folder, registered, selections, reserved, offers, challenges, preflights, restores, leaving, process, troubles>>

\* restoreEmpty.
ReturnReservation ==
    /\ executor.pc = "return"
    /\ reserved' = [reserved EXCEPT ![Target] = executor.generation]
    /\ EndsJob("failed")
    /\ UNCHANGED <<folder, registered, selections, offers, challenges, manager, preflights, leaving, process, troubles>>

\* A failure before the database is installed closes the session and its lock, unless
\* cleaning up fails too.
Install ==
    /\ executor.pc = "install"
    /\ \/ /\ folder' = [folder EXCEPT ![Target].entries = @ \cup {"project.db"}]
          /\ executor' = [executor EXCEPT !.pc = "reopen"] /\ UNCHANGED <<manager, restores, troubles>>
       \/ Fails /\ Locks(Target, "none") /\ manager' = Closed /\ EndsJob("failed")
       \/ Fails /\ EndsJob("held") /\ UNCHANGED <<folder, manager>>
    /\ UNCHANGED <<registered, selections, reserved, offers, challenges, preflights, leaving, process>>

\* Reopen records the project and Release ends the session; a failure after the
\* installation keeps the session for recovery.
Reopen ==
    /\ executor.pc = "reopen"
    /\ \/ /\ manager' = [active |-> Target, restored |-> FALSE, opened |-> TRUE]
          /\ registered' = Target /\ EndsJob("succeeded") /\ UNCHANGED troubles
       \/ Fails /\ EndsJob("held") /\ UNCHANGED <<manager, registered>>
       \/ Fails /\ EndsJob("held") /\ manager' = [manager EXCEPT !.opened = TRUE] /\ registered' = Target
    /\ UNCHANGED <<folder, selections, reserved, offers, challenges, preflights, leaving, process>>

-------------------------------------------------------------------------------
(* Around them.                                                            *)

\* Another request opens the project where it was, or closes the active one.
OpenHome ==
    /\ process = "running" /\ manager.active = Nowhere
    /\ manager' = [active |-> Home, restored |-> FALSE, opened |-> TRUE] /\ registered' = Home
    /\ UNCHANGED <<folder, selections, reserved, offers, challenges, preflights, restores, executor, leaving, process, troubles>>
CloseProject ==
    /\ process # "ended" /\ manager.opened /\ ~manager.restored
    /\ manager' = Closed
    /\ IF manager.active \in Folders THEN Locks(manager.active, "none") ELSE UNCHANGED folder
    /\ UNCHANGED <<registered, selections, reserved, offers, challenges, preflights, restores, executor, leaving, process, troubles>>

\* A preflight is valid for five minutes; the user may use a folder meanwhile.
PreflightExpires ==
    /\ \E o \in offers : offers' = offers \ {o}
    /\ UNCHANGED <<folder, registered, selections, reserved, challenges, manager, preflights, restores, executor, leaving, process, troubles>>
FileAppears ==
    /\ process = "running" /\ Fails
    /\ \E f \in Folders : folder' = [folder EXCEPT ![f].entries = @ \cup {"file"}]
    /\ UNCHANGED <<registered, selections, reserved, offers, challenges, manager, preflights, restores, executor, leaving, process>>

\* ProjectTargets.Close takes the reservations out, then gives their locks back.
CloseTargets ==
    /\ process = "running"
    /\ process' = "closing"
    /\ leaving' = {f \in Folders : reserved[f] # 0} /\ reserved' = [f \in Folders |-> 0]
    /\ UNCHANGED <<folder, registered, selections, offers, challenges, manager, preflights, restores, executor, troubles>>
ReleaseLeaving ==
    /\ \E f \in leaving : Locks(f, "none") /\ leaving' = leaving \ {f}
    /\ UNCHANGED <<registered, selections, reserved, offers, challenges, manager, preflights, restores, executor, process, troubles>>

\* The process ends after its shutdown, or dies; its lock files stay.
Exit ==
    /\ \/ process = "closing" /\ leaving = {} /\ (manager.opened => manager.restored) /\ UNCHANGED troubles
       \/ process # "ended" /\ Fails
    /\ process' = "ended"
    /\ folder' = [f \in Folders |-> IF folder[f].lock = "held" THEN [folder[f] EXCEPT !.lock = "stale"] ELSE folder[f]]
    /\ selections' = [i \in DOMAIN selections |-> [selections[i] EXCEPT !.unused = FALSE]]
    /\ reserved' = [f \in Folders |-> 0] /\ offers' = {} /\ challenges' = {} /\ manager' = Closed /\ leaving' = {}
    /\ preflights' = [c \in Preflighters |-> NoPreflight] /\ executor' = NoExecution
    /\ restores' = [j \in DOMAIN restores |-> IF restores[j].status = "queued" THEN [restores[j] EXCEPT !.status = "open"] ELSE restores[j]]
    /\ UNCHANGED registered

TargetNext ==
    \/ Select \/ (\E c \in Preflighters : ResolveEmpty(c) \/ LockTarget(c) \/ ReserveTarget(c) \/ ResolveRegistry(c)
                                            \/ ConfirmMigration(c) \/ Offer(c))
    \/ Submit \/ Revalidate \/ TakeReservation \/ AcquireRestoredTarget \/ ReturnReservation \/ Install \/ Reopen
    \/ OpenHome \/ CloseProject \/ PreflightExpires \/ FileAppears
    \/ CloseTargets \/ ReleaseLeaving \/ Exit

-------------------------------------------------------------------------------
(* Properties.                                                             *)

\* What holds the lock of a folder.
Holders(f) ==
    {<<"preflight", c>> : c \in {c \in Preflighters : preflights[c].pc = "reserve" /\ Where(preflights[c].generation) = f}}
    \cup (IF reserved[f] # 0 THEN {<<"reservation">>} ELSE {})
    \cup (IF executor.pc \in {"acquire", "return"} /\ Target = f THEN {<<"lease">>} ELSE {})
    \cup (IF manager.active = f THEN {<<"manager">>} ELSE {})
    \cup (IF f \in leaving THEN {<<"closer">>} ELSE {})

\* ResolveEmpty, Acquire, Close: while the process runs, the lock of a folder is held
\* by exactly one of the request that took it, the reservation, the execution, the
\* manager and the closer, and nobody holds a lock that is gone.
LockIsHandedOn ==
    process # "ended" => \A f \in Folders : Cardinality(Holders(f)) = IF folder[f].lock = "held" THEN 1 ELSE 0

\* takeEmpty, restoreEmpty: a restore goes into the folder as it was reserved for its
\* own preflight (Close may take that reservation away at the last moment, and takeEmpty
\* then finds another one), and no selection is restored into twice.
SelectionIsUsedOnce ==
    /\ process = "running" /\ executor.pc \in {"acquire", "return", "install", "reopen"} => executor.generation = restores[executor.job].generation
    /\ \A i, j \in DOMAIN restores :
         restores[i].status \in {"succeeded", "held"} /\ restores[j].status \in {"succeeded", "held"}
         /\ restores[i].generation = restores[j].generation => i = j

\* ConfirmMigration, Reopen: the project is registered in a selected folder only when
\* it was restored there.
RegisteredIsRestored ==
    registered \in Folders =>
        /\ "project.db" \in folder[registered].entries
        /\ \E j \in DOMAIN restores : restores[j].status \in {"succeeded", "held"} /\ Where(restores[j].generation) = registered

TargetsAreSound == LockIsHandedOn /\ SelectionIsUsedOnce /\ RegisteredIsRestored
================================================================================
