---------------------------- MODULE ReleaseSaga ----------------------------
(***************************************************************************)
(* The release saga of one project: releaseRuntime and its worker callback *)
(* (internal/bootstrap/release_runtime.go), versioning/release Worker,     *)
(* PreflightService and IntentRecovery, and the transactions of            *)
(* storage/sqlite/release_{jobs,intents,commit}.go.                        *)
(*                                                                         *)
(* Each Job publishes its own candidate revision, has one intent, and at   *)
(* most one release row, so Jobs also name intents, releases and graph     *)
(* snapshots.  Durable: the Jobs, the intents, the release rows, the       *)
(* active pointer.  External: the backup and the graph's active snapshot.  *)
(* IntentRecovery runs while the project opens, before anything else; the  *)
(* shipped composition leaves it out, so Recovers says which compositions  *)
(* are considered.                                                         *)
(***************************************************************************)
EXTENDS Job, Naturals, FiniteSets

CONSTANTS
    Jobs,                   \* release Jobs users submit
    NoRelease,              \* the empty pointer, baseline or snapshot
    Cancels,                \* whether users cancel
    Recovers,               \* compositions: with IntentRecovery or without
    MaxCrashes              \* bound on process restarts

ASSUME ReleaseSagaAssumption ==
    /\ NoRelease \notin Jobs
    /\ IsFiniteSet(Jobs)
    /\ Cancels \in BOOLEAN
    /\ Recovers \subseteq BOOLEAN
    /\ MaxCrashes \in Nat

IntentPhase == {"INTENT_RECORDED", "GRAPH_ACTIVATING", "GRAPH_ACTIVATED",
                "POINTER_COMMITTING", "SUCCEEDED", "FAILED"}

Steps == {"claim", "start", "backup", "recheck", "intent", "activating", "activate",
          "activated", "recheckCommit", "committing", "commit", "succeed", "fail"}
RecoverySteps == {"decide", "activate", "activated", "committing", "commit",
                  "complete", "fail", "failJob"}

VARIABLES
    status, cancelGen,      \* the jobs rows
    intent,                 \* release_intents.phase, or "none"
    baseline,               \* expected baseline of each command
    released,               \* the release rows
    active, generation,     \* active_release_pointer
    backedUp,               \* Jobs whose mandatory backup has evidence
    graph,                  \* the graph's active snapshot (external)
    queue, lane,            \* releaseRuntime.queue, the project's WriteLane
    pc, snap,               \* each worker: its step, the pointer generation it read
    cancel, cancelTo, cancelFrom,   \* each cancel handler
    recovering, rjob, rpc,  \* IntentRecovery: intents left, the current one, its step
    crashes

jobs == <<status, cancelGen>>
pointer == <<active, generation, released>>
external == <<backedUp, graph>>
canceler == <<cancel, cancelTo, cancelFrom>>
recovery == <<recovering, rjob, rpc>>
vars == <<jobs, intent, baseline, pointer, external, queue, lane, pc, snap, canceler,
          recovery, crashes>>

Init ==
    /\ status = [j \in Jobs |-> "absent"]
    /\ cancelGen = [j \in Jobs |-> 0]
    /\ intent = [j \in Jobs |-> "none"]
    /\ baseline = [j \in Jobs |-> NoRelease]
    /\ released = {} /\ active = NoRelease /\ generation = 0
    /\ backedUp = {} /\ graph = NoRelease
    /\ queue = {} /\ lane = NoRelease
    /\ pc = [j \in Jobs |-> "idle"]
    /\ snap = [j \in Jobs |-> 0]
    /\ cancel = [j \in Jobs |-> "none"]
    /\ cancelTo = [j \in Jobs |-> "canceled"]
    /\ cancelFrom = [j \in Jobs |-> "queued"]
    /\ recovering = {} /\ rjob = NoRelease /\ rpc = "idle"
    /\ crashes = 0

(* The project is open and its handle active.                              *)
Open == recovering = {} /\ rpc = "idle"

(* Release JobStatus.CanTransitionTo: as the shared one, but an            *)
(* interrupted release is not canceled.                                    *)
CanRelease(s, next) == CanTransitionTo(s, next) /\ ~(s = "interrupted" /\ next = "canceled")

Goto(j, step) == pc' = [pc EXCEPT ![j] = step]
SetIntent(j, phase) == intent' = [intent EXCEPT ![j] = phase]
----------------------------------------------------------------------------
(* Submit: preflight accepts a command whose baseline is the active        *)
(* release; the Job is created, or replayed by the same command, and       *)
(* enqueued.                                                               *)
Submit(j) ==
    /\ Open
    /\ status[j] = "absent" \/ baseline[j] = active
    /\ status' = IF status[j] = "absent" THEN [status EXCEPT ![j] = "queued"] ELSE status
    /\ baseline' = [baseline EXCEPT ![j] = active]
    /\ queue' = queue \cup {j}
    /\ UNCHANGED <<cancelGen, intent, pointer, external, lane, pc, snap, canceler, recovery, crashes>>

Dispatch(j) ==
    /\ Open
    /\ j \in queue
    /\ queue' = queue \ {j}
    /\ IF pc[j] = "idle" THEN Goto(j, "claim") ELSE UNCHANGED pc
    /\ UNCHANGED <<jobs, intent, baseline, pointer, external, lane, snap, canceler, recovery, crashes>>

(* Mutant: the project's write lane is not taken.                          *)
ClaimWithoutLane(j) ==
    /\ pc[j] = "claim"
    /\ IF status[j] = "queued"
       THEN status' = [status EXCEPT ![j] = "running"] /\ Goto(j, "start")
       ELSE Goto(j, "idle") /\ UNCHANGED status
    /\ UNCHANGED <<cancelGen, intent, baseline, pointer, external, queue, lane, snap, canceler,
                   recovery, crashes>>

(* Worker.Run: take the lane, claim the Job if it is still queued.         *)
Claim(j) ==
    /\ pc[j] = "claim"
    /\ lane = NoRelease
    /\ IF status[j] = "queued"
       THEN /\ status' = [status EXCEPT ![j] = "running"]
            /\ lane' = j
            /\ Goto(j, "start")
       ELSE /\ Goto(j, "idle")
            /\ UNCHANGED <<status, lane>>
    /\ UNCHANGED <<cancelGen, intent, baseline, pointer, external, queue, snap, canceler,
                   recovery, crashes>>

(* Recheck: the whole preflight again; a moved pointer or any gate fails   *)
(* it.  The one before graph activation yields the generation to commit.   *)
Recheck(j, at, next) ==
    /\ pc[j] = at
    /\ (active = baseline[j] /\ Goto(j, next)) \/ Goto(j, "fail")
    /\ snap' = IF at = "recheck" THEN [snap EXCEPT ![j] = generation] ELSE snap

Rechecks(j) ==
    /\ \/ Recheck(j, "start", "backup")
       \/ Recheck(j, "recheck", "intent")
       \/ Recheck(j, "recheckCommit", "committing")
    /\ UNCHANGED <<jobs, intent, baseline, pointer, external, queue, lane, canceler, recovery, crashes>>

(* PerformMandatoryBackup                                                  *)
MandatoryBackup(j) ==
    /\ pc[j] = "backup"
    /\ \/ backedUp' = backedUp \cup {j} /\ Goto(j, "recheck")
       \/ backedUp' \in {backedUp, backedUp \cup {j}} /\ Goto(j, "fail")
    /\ UNCHANGED <<jobs, intent, baseline, pointer, graph, queue, lane, snap, canceler,
                   recovery, crashes>>

(* CreateIntent                                                            *)
CreateIntent(j) ==
    /\ pc[j] = "intent"
    /\ intent' = IF intent[j] = "none" THEN [intent EXCEPT ![j] = "INTENT_RECORDED"] ELSE intent
    /\ Goto(j, "activating")
    /\ UNCHANGED <<jobs, baseline, pointer, external, queue, lane, snap, canceler, recovery, crashes>>

(* TransitionIntent by the worker: from the phase it expects, or fail.     *)
AdvanceIntent(j, at, from, to, next) ==
    /\ pc[j] = at
    /\ IF intent[j] = from THEN SetIntent(j, to) /\ Goto(j, next)
                           ELSE Goto(j, "fail") /\ UNCHANGED intent
    /\ UNCHANGED <<jobs, baseline, pointer, external, queue, lane, snap, canceler, recovery, crashes>>

IntentActivating(j) ==
    AdvanceIntent(j, "activating", "INTENT_RECORDED", "GRAPH_ACTIVATING", "activate")
IntentActivated(j) ==
    AdvanceIntent(j, "activated", "GRAPH_ACTIVATING", "GRAPH_ACTIVATED", "recheckCommit")
IntentCommitting(j) ==
    AdvanceIntent(j, "committing", "GRAPH_ACTIVATED", "POINTER_COMMITTING", "commit")

(* ActivateGraph: verified, or an error that may have taken effect.        *)
ActivateGraph(j) ==
    /\ pc[j] = "activate"
    /\ \/ graph' = j /\ Goto(j, "activated")
       \/ graph' \in {graph, j} /\ Goto(j, "fail")
    /\ UNCHANGED <<jobs, intent, baseline, pointer, backedUp, queue, lane, snap, canceler,
                   recovery, crashes>>

(* CommitActivatedIntent's preconditions, checked inside the transaction.  *)
Committable(j, gen) ==
    /\ intent[j] \in {"GRAPH_ACTIVATED", "POINTER_COMMITTING"}
    /\ status[j] \in {"running", "interrupted"}
    /\ generation = gen
    /\ active = baseline[j]

(* Mutant: the pointer is swapped without counting its generation.         *)
CommitReleaseSameGeneration(j) ==
    /\ released' = released \cup {j}
    /\ active' = j
    /\ SetIntent(j, "SUCCEEDED")
    /\ UNCHANGED generation

(* Release row, pointer and terminal intent together.                      *)
CommitRelease(j) ==
    /\ released' = released \cup {j}
    /\ active' = j
    /\ generation' = generation + 1
    /\ SetIntent(j, "SUCCEEDED")

(* Mutant: an error after the transaction fails the Job.                   *)
CommitReportsError(j) ==
    /\ pc[j] = "commit"
    /\ IF Committable(j, snap[j]) THEN CommitRelease(j) ELSE UNCHANGED <<pointer, intent>>
    /\ Goto(j, "fail")
    /\ UNCHANGED <<jobs, baseline, external, queue, lane, snap, canceler, recovery, crashes>>

CommitActivatedIntent(j) ==
    /\ pc[j] = "commit"
    /\ IF Committable(j, snap[j])
       THEN CommitRelease(j) /\ Goto(j, "succeed")
       ELSE Goto(j, "fail") /\ UNCHANGED <<pointer, intent>>
    /\ UNCHANGED <<jobs, baseline, external, queue, lane, snap, canceler, recovery, crashes>>

(* The worker's last transition; a canceled Job keeps the status it has.   *)
Finish(j, at, moved, next) ==
    /\ pc[j] = at
    /\ status' = IF moved THEN [status EXCEPT ![j] = next] ELSE status
    /\ lane' = NoRelease
    /\ snap' = [snap EXCEPT ![j] = 0]
    /\ Goto(j, "idle")
    /\ UNCHANGED <<cancelGen, intent, baseline, pointer, external, queue, canceler,
                   recovery, crashes>>

Succeed(j) == Finish(j, "succeed", status[j] = "running" /\ cancelGen[j] = 0, "succeeded")
Fail(j) == Finish(j, "fail", status[j] = "running", "failed")
----------------------------------------------------------------------------
(* releaseRuntime.Cancel reads the status and derives the boundary from    *)
(* it; Worker.Cancel records the request and moves the Job from the status *)
(* it has then.                                                            *)
CancelRead(j) ==
    /\ Cancels /\ Open
    /\ cancel[j] = "none"
    /\ status[j] \in {"queued", "running"}
    /\ cancel' = [cancel EXCEPT ![j] = "request"]
    /\ cancelTo' = [cancelTo EXCEPT ![j] = IF status[j] = "queued" THEN "canceled" ELSE "interrupted"]
    /\ UNCHANGED <<jobs, intent, baseline, pointer, external, queue, lane, pc, snap, cancelFrom,
                   recovery, crashes>>

(* The handler returns and forgets what it read.                           *)
HandlerDone(j) ==
    /\ cancel' = [cancel EXCEPT ![j] = "none"]
    /\ cancelTo' = [cancelTo EXCEPT ![j] = "canceled"]
    /\ cancelFrom' = [cancelFrom EXCEPT ![j] = "queued"]

(* Mutant: every request counts a new cancellation.                        *)
CancelRequestRepeats(j) ==
    /\ cancel[j] = "request"
    /\ cancelGen' = [cancelGen EXCEPT ![j] = @ + 1]
    /\ cancelFrom' = [cancelFrom EXCEPT ![j] = status[j]]
    /\ cancel' = [cancel EXCEPT ![j] = "move"]
    /\ UNCHANGED <<status, intent, baseline, pointer, external, queue, lane, pc, snap, cancelTo,
                   recovery, crashes>>

(* Worker.Cancel returns early unless the Job it reads again is active.    *)
CancelRequest(j) ==
    /\ cancel[j] = "request"
    /\ IF status[j] \in {"queued", "running"}
       THEN /\ cancelGen' = [cancelGen EXCEPT ![j] = 1]
            /\ cancelFrom' = [cancelFrom EXCEPT ![j] = status[j]]
            /\ cancel' = [cancel EXCEPT ![j] = "move"]
            /\ UNCHANGED cancelTo
       ELSE /\ HandlerDone(j)
            /\ UNCHANGED cancelGen
    /\ UNCHANGED <<status, intent, baseline, pointer, external, queue, lane, pc, snap,
                   recovery, crashes>>

CancelMove(j) ==
    /\ cancel[j] = "move"
    /\ HandlerDone(j)
    /\ status' = IF status[j] = cancelFrom[j] /\ CanRelease(status[j], cancelTo[j])
                 THEN [status EXCEPT ![j] = cancelTo[j]] ELSE status
    /\ UNCHANGED <<cancelGen, intent, baseline, pointer, external, queue, lane, pc, snap,
                   recovery, crashes>>
----------------------------------------------------------------------------
(* The process dies and the project is opened again; IntentRecovery scans  *)
(* the intents that are not settled or whose Job is not.                   *)
ListNonterminalReleaseIntents ==
    {j \in Jobs : /\ intent[j] # "none"
                  /\ intent[j] \notin {"SUCCEEDED", "FAILED"} \/ Recoverable(status[j])}

Restart ==
    /\ crashes < MaxCrashes
    /\ crashes' = crashes + 1
    /\ queue' = {} /\ lane' = NoRelease
    /\ pc' = [j \in Jobs |-> "idle"]
    /\ snap' = [j \in Jobs |-> 0]
    /\ cancel' = [j \in Jobs |-> "none"]
    /\ cancelTo' = [j \in Jobs |-> "canceled"]
    /\ cancelFrom' = [j \in Jobs |-> "queued"]
    /\ \E r \in Recovers : recovering' = IF r THEN ListNonterminalReleaseIntents ELSE {}
    /\ rjob' = NoRelease /\ rpc' = "idle"
    /\ UNCHANGED <<jobs, intent, baseline, pointer, external>>

RGoto(step) == rpc' = step /\ UNCHANGED <<recovering, rjob>>
RDone == rpc' = "idle" /\ rjob' = NoRelease /\ UNCHANGED recovering
live == <<baseline, queue, lane, pc, snap, canceler, crashes>>

RecoverNext(j) ==
    /\ rpc = "idle" /\ j \in recovering
    /\ recovering' = recovering \ {j}
    /\ rjob' = j
    /\ rpc' = "decide"
    /\ UNCHANGED <<jobs, intent, pointer, external, live>>

(* reconcile up to its switch: a committed intent is completed, an         *)
(* unreadable graph or a moved baseline fails it, and the phase says where *)
(* to go on.                                                               *)
Decide ==
    /\ rpc = "decide"
    /\ IF active = rjob THEN RGoto("complete") /\ UNCHANGED intent
       ELSE \/ RGoto("fail") /\ UNCHANGED intent        \* ActiveSnapshot failed
            \/ /\ active # baseline[rjob]
               /\ RGoto("fail") /\ UNCHANGED intent
            \/ /\ active = baseline[rjob]
               /\ \/ /\ intent[rjob] = "INTENT_RECORDED"
                     /\ SetIntent(rjob, "GRAPH_ACTIVATING")
                     /\ RGoto("activate")
                  \/ /\ intent[rjob] = "GRAPH_ACTIVATING"
                     /\ RGoto("activate") /\ UNCHANGED intent
                  \/ /\ intent[rjob] \in {"GRAPH_ACTIVATED", "POINTER_COMMITTING"}
                     /\ RGoto(IF graph = rjob THEN "committing" ELSE "fail")
                     /\ UNCHANGED intent
                  \/ /\ intent[rjob] \in {"SUCCEEDED", "FAILED"}
                     /\ RGoto("fail") /\ UNCHANGED intent
    /\ UNCHANGED <<jobs, pointer, external, live>>

(* Unless the candidate is active already, activate it again; an error is  *)
(* looked at once more before it counts.                                   *)
RecoverActivate ==
    /\ rpc = "activate"
    /\ \/ graph' = rjob /\ RGoto("activated")
       \/ graph # rjob /\ graph' \in {graph, rjob} /\ RGoto("fail")
    /\ UNCHANGED <<jobs, intent, pointer, backedUp, live>>

RecoverActivated ==
    /\ rpc = "activated"
    /\ SetIntent(rjob, "GRAPH_ACTIVATED")
    /\ RGoto("committing")
    /\ UNCHANGED <<jobs, pointer, external, live>>

RecoverCommitting ==
    /\ rpc = "committing"
    /\ SetIntent(rjob, "POINTER_COMMITTING")
    /\ RGoto("commit")
    /\ UNCHANGED <<jobs, pointer, external, live>>

RecoverCommit ==
    /\ rpc = "commit"
    /\ IF Committable(rjob, generation)
       THEN CommitRelease(rjob) /\ RGoto("complete")
       ELSE RGoto("fail") /\ UNCHANGED <<pointer, intent>>
    /\ UNCHANGED <<jobs, external, live>>

(* completeJob: the shared Transition refuses success once a cancellation  *)
(* was requested.                                                          *)
CompleteJob ==
    /\ rpc = "complete"
    /\ status' = IF CanRelease(status[rjob], "succeeded") /\ cancelGen[rjob] = 0
                 THEN [status EXCEPT ![rjob] = "succeeded"] ELSE status
    /\ RDone
    /\ UNCHANGED <<cancelGen, intent, pointer, external, live>>

(* IntentRecovery.fail.  releaseRuntime records no previous graph          *)
(* identity, so GraphRestoreRequest is invalid and the graph stays as it   *)
(* is; then the intent, whatever its phase, and the Job are failed.        *)
FailIntent ==
    /\ rpc = "fail"
    /\ SetIntent(rjob, "FAILED")
    /\ RGoto("failJob")
    /\ UNCHANGED <<jobs, pointer, external, live>>

FailJob ==
    /\ rpc = "failJob"
    /\ status' = IF Recoverable(status[rjob]) THEN [status EXCEPT ![rjob] = "failed"] ELSE status
    /\ RDone
    /\ UNCHANGED <<cancelGen, intent, pointer, external, live>>

Recover ==
    \/ \E j \in Jobs : RecoverNext(j)
    \/ Decide \/ RecoverActivate \/ RecoverActivated \/ RecoverCommitting
    \/ RecoverCommit \/ CompleteJob \/ FailIntent \/ FailJob

Work(j) ==
    \/ Claim(j) \/ Rechecks(j) \/ MandatoryBackup(j) \/ CreateIntent(j)
    \/ IntentActivating(j) \/ ActivateGraph(j) \/ IntentActivated(j)
    \/ IntentCommitting(j) \/ CommitActivatedIntent(j) \/ Succeed(j) \/ Fail(j)

Next ==
    \/ \E j \in Jobs : \/ Submit(j) \/ Dispatch(j) \/ Work(j)
                       \/ CancelRead(j) \/ CancelRequest(j) \/ CancelMove(j)
    \/ Restart
    \/ Recover

Spec == Init /\ [][Next]_vars

----------------------------------------------------------------------------
(* Every variable has its type.                                            *)
TypeOK ==
    /\ status \in [Jobs -> Status \cup {"absent"}]
    /\ cancelGen \in [Jobs -> {0, 1}]
    /\ intent \in [Jobs -> IntentPhase \cup {"none"}]
    /\ baseline \in [Jobs -> Jobs \cup {NoRelease}]
    /\ released \subseteq Jobs
    /\ active \in Jobs \cup {NoRelease}
    /\ generation \in Nat
    /\ backedUp \subseteq Jobs
    /\ graph \in Jobs \cup {NoRelease}
    /\ queue \subseteq Jobs
    /\ lane \in Jobs \cup {NoRelease}
    /\ pc \in [Jobs -> Steps \cup {"idle"}]
    /\ snap \in [Jobs -> Nat]
    /\ cancel \in [Jobs -> {"none", "request", "move"}]
    /\ cancelTo \in [Jobs -> {"canceled", "interrupted"}]
    /\ cancelFrom \in [Jobs -> Status]
    /\ recovering \subseteq Jobs
    /\ rjob \in Jobs \cup {NoRelease}
    /\ rpc \in RecoverySteps \cup {"idle"}
    /\ crashes \in 0 .. MaxCrashes

(* The releases form one line: the pointer's generation counts them, the   *)
(* active one is a release, and no two were made from the same baseline,   *)
(* whatever commands raced and wherever the process died                   *)
(* (CommitActivatedIntent's pointer comparison).                           *)
ReleaseLine ==
    /\ generation = Cardinality(released)
    /\ active \in released \cup {NoRelease}
    /\ released # {} => active # NoRelease
    /\ \A j, k \in released : j # k => baseline[j] # baseline[k]
    /\ \A j \in released : baseline[j] \in released \cup {NoRelease}

(* A pointer never moves to a candidate the graph is not serving: the      *)
(* release row is written only while the activated snapshot is its own.    *)
CommitServesGraph == [][active' # active => graph = active' /\ active' \in backedUp]_vars

(* A Job reported as succeeded has its release and a settled intent.       *)
SuccessIsReleased ==
    \A j \in Jobs : status[j] = "succeeded" => j \in released /\ intent[j] = "SUCCEEDED"

(* The active release is never reported as failed, by its Job or by its    *)
(* intent, whatever the worker or IntentRecovery met after the commit.     *)
ActiveStaysReleased ==
    active # NoRelease => status[active] # "failed" /\ intent[active] = "SUCCEEDED"

(* The write lane belongs to a worker that is still at work, on every path *)
(* out of it: a later release never waits for a lane nobody gives back     *)
(* (WriteLane.Within).                                                     *)
LaneIsWorked == lane # NoRelease => pc[lane] \notin {"idle", "claim"}

(* Releases are made one after the other: they form one line (ReleaseLine) *)
(* and the lane that orders them is never left behind (LaneIsWorked).      *)
ReleasesAreOrdered == ReleaseLine /\ LaneIsWorked

(* What a Job and its intent report is what the pointer says: success only *)
(* with the release (SuccessIsReleased), and no failure of the active      *)
(* release (ActiveStaysReleased).                                          *)
ReleaseIsReported == SuccessIsReleased /\ ActiveStaysReleased

(* ListNonterminalReleaseIntents: "an already committed intent whose Job   *)
(* was not terminally completed before a crash, so the durable result can  *)
(* be repaired" (release_intents.go:76-79): a release that was committed   *)
(* is not turned into a failed intent later.                               *)
CommittedNeverFailed == \A j \in released : intent[j] = "SUCCEEDED"
=============================================================================
