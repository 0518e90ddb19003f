----------------------------- MODULE GraphSync -----------------------------
(***************************************************************************)
(* Graph synchronization of one immutable revision: the validation         *)
(* pipeline that admits the automatic graph_sync Job, the process-local    *)
(* runtime that executes it (internal/bootstrap/graph_sync_runtime.go) on  *)
(* the phase worker and services of internal/graph/sync, the two           *)
(* transactions that settle it (internal/storage/sqlite), the cancel,      *)
(* ensure and retry commands of the API, and process restarts.             *)
(*                                                                         *)
(* Durable state: the graph_sync_states row (pipeline, generation, latest, *)
(* task), the Jobs (status, cancelGen, phase: the last event), the impact  *)
(* handoff.  Process state, lost in a crash: the queue, where each run is  *)
(* (pc), the row generation it read (snap), the cancel handlers and the    *)
(* pipeline.  One step is at most one store transaction or one provider    *)
(* call.  The provider and the validation engine are outside: each answer  *)
(* they may give is an alternative.                                        *)
(***************************************************************************)
EXTENDS Job, Naturals

CONSTANTS
    AutoJob,                \* the Job of the automatic idempotency key
    Retries,                \* Jobs user retries may create
    NoJob,                  \* the NULL latest_job_id or provider_task_id
    Cancels,                \* whether users cancel
    Ensures,                \* whether users validate and ask for graph-sync "ensure"
    MaxCrashes              \* bound on process restarts

ASSUME GraphSyncAssumption ==
    /\ AutoJob \notin Retries
    /\ NoJob \notin Retries \cup {AutoJob}
    /\ Cancels \in BOOLEAN
    /\ Ensures \in BOOLEAN
    /\ MaxCrashes \in Nat

Jobs == Retries \cup {AutoJob}

PipelineState == {"saved", "validating", "blocked_validation", "graph_queued",
                  "graph_building", "graph_ready", "graph_failed"}

(* PipelineState.CanTransitionTo; an unchanged state is a replay.          *)
CanMoveTo(s, next) ==
    \/ s = next
    \/ s = "saved" /\ next = "validating"
    \/ s = "validating" /\ next \in {"blocked_validation", "graph_queued", "graph_failed"}
    \/ s = "graph_queued" /\ next \in {"graph_building", "graph_failed"}
    \/ s = "graph_building" /\ next \in {"graph_ready", "graph_failed"}

(* WorkerPhase, numbered in the order of CanAdvanceTo; 0 is no event yet.  *)
QUEUED == 1
VALIDATION_CONFIRMED == 2
PROJECTED == 3
PROVIDER_COMPATIBLE == 4
SUBMITTING == 5
TASK_ACCEPTED == 6
POLLING == 7
VERIFYING == 8
READY == 9
IMPACT_HANDOFF_RECORDED == 10

WorkerPhase == QUEUED .. IMPACT_HANDOFF_RECORDED

(* The progress the runtime reports with each phase.                       *)
Progress == [p \in WorkerPhase |->
    CASE p = QUEUED -> 0 [] p = VALIDATION_CONFIRMED -> 10 [] p = PROJECTED -> 20
      [] p = PROVIDER_COMPATIBLE -> 30 [] p = SUBMITTING -> 50 [] p = TASK_ACCEPTED -> 60
      [] p = POLLING -> 70 [] p = VERIFYING -> 85 [] p = READY -> 95
      [] p = IMPACT_HANDOFF_RECORDED -> 100]

(* WorkerPhase.CanAdvanceTo                                                *)
CanAdvanceTo(p, next) ==
    \/ p = next
    \/ p = POLLING /\ next = SUBMITTING
    \/ next = p + 1

Steps == {"health", "state", "create", "start", "validate", "building", "project",
          "compatible", "submit", "put", "record", "accepted", "poll", "task",
          "inspect", "commit", "commitTx", "ready", "handoff", "fail", "failTx"}
PipelineSteps == {"none", "saved", "validate", "admit", "queue", "done"}

VARIABLES
    pipeline,               \* graph_sync_states.pipeline_state, or "none"
    generation,             \* graph_sync_states.generation
    latest,                 \* latest_job_id
    task,                   \* provider_task_id: the Job whose request made it
    handoff,                \* a graph_impact_handoffs row exists
    passed,                 \* a FULL validation PASS of the revision is recorded
    status, cancelGen,      \* the jobs rows
    phase,                  \* phase of each Job's last event
    remote,                 \* the provider's task and snapshot
    puts,                   \* PutSnapshot calls made for each Job
    queue,                  \* graphSyncRuntime.queue
    pc, snap,               \* each run: its step, the generation it read
    cancel, cancelTo, cancelFrom,   \* each cancel handler
    ppc, psnap,             \* the validation pipeline
    crashes

row == <<pipeline, generation, latest, task, handoff>>
jobs == <<status, cancelGen, phase>>
provider == <<remote, puts>>
canceler == <<cancel, cancelTo, cancelFrom>>
admission == <<passed, ppc, psnap>>
vars == <<row, jobs, provider, queue, pc, snap, canceler, admission, crashes>>

Init ==
    /\ pipeline = "none" /\ generation = 0 /\ latest = NoJob /\ task = NoJob
    /\ handoff = FALSE /\ passed = FALSE
    /\ status = [j \in Jobs |-> "absent"]
    /\ cancelGen = [j \in Jobs |-> 0]
    /\ phase = [j \in Jobs |-> 0]
    /\ remote = "none"
    /\ puts = [j \in Jobs |-> 0]
    /\ queue = {}
    /\ pc = [j \in Jobs |-> "idle"]
    /\ snap = [j \in Jobs |-> 0]
    /\ cancel = [j \in Jobs |-> "none"]
    /\ cancelTo = [j \in Jobs |-> "canceled"]
    /\ cancelFrom = [j \in Jobs |-> "queued"]
    /\ ppc = "none" /\ psnap = 0
    /\ crashes = 0

Goto(j, step) == pc' = [pc EXCEPT ![j] = step]

----------------------------------------------------------------------------
(* ValidationPipeline: Start once per saved revision, inside the request   *)
(* that saved it.                                                          *)

PipelineCreate ==
    /\ ppc = "none"
    /\ \/ /\ pipeline = "none"
          /\ pipeline' = "saved"
          /\ ppc' = "saved"
       \/ /\ pipeline # "none"      \* the insert meets an existing row
          /\ ppc' = "done"
          /\ UNCHANGED pipeline
    /\ UNCHANGED <<generation, latest, task, handoff, passed, psnap, jobs, provider,
                   queue, pc, snap, canceler, crashes>>

PipelineValidating ==
    /\ ppc = "saved"
    /\ pipeline' = "validating"
    /\ generation' = generation + 1
    /\ psnap' = generation + 1
    /\ ppc' = "validate"
    /\ UNCHANGED <<latest, task, handoff, passed, jobs, provider, queue, pc, snap,
                   canceler, crashes>>

(* Check, RunFullValidation and Check again: PASS goes on to admission,    *)
(* everything else, missing warning evidence included, blocks.             *)
PipelineValidate ==
    /\ ppc = "validate"
    /\ \/ /\ passed' = TRUE
          /\ ppc' = "admit"
          /\ UNCHANGED <<pipeline, generation>>
       \/ /\ generation = psnap
          /\ pipeline' = "blocked_validation"
          /\ generation' = generation + 1
          /\ ppc' = "done"
          /\ passed' \in {passed, TRUE}
    /\ UNCHANGED <<latest, task, handoff, psnap, jobs, provider, queue, pc, snap,
                   canceler, crashes>>

PipelineAdmit ==
    /\ ppc = "admit"
    /\ ppc' = "queue"
    /\ status' = IF status[AutoJob] = "absent" THEN [status EXCEPT ![AutoJob] = "queued"]
                                               ELSE status
    /\ UNCHANGED <<row, passed, psnap, cancelGen, phase, provider, queue, pc, snap,
                   canceler, crashes>>

PipelineQueue ==
    /\ ppc = "queue"
    /\ ppc' = "done"
    /\ IF generation = psnap
       THEN /\ pipeline' = "graph_queued"
            /\ generation' = generation + 1
            /\ latest' = AutoJob
       ELSE UNCHANGED <<pipeline, generation, latest>>
    /\ UNCHANGED <<task, handoff, passed, psnap, jobs, provider, queue, pc, snap,
                   canceler, crashes>>

(* Every error return of Start and queue: the request that saved the       *)
(* revision is gone, or a store call failed, and nobody starts it again.   *)
PipelineAbort ==
    /\ ppc \in {"saved", "validate", "admit", "queue"}
    /\ ppc' = "done"
    /\ UNCHANGED <<row, passed, psnap, jobs, provider, queue, pc, snap, canceler, crashes>>

----------------------------------------------------------------------------
(* Commands of the API.                                                    *)

(* A FULL validation the user runs on the saved revision passes.           *)
RunValidation ==
    /\ Ensures
    /\ ~passed
    /\ passed' = TRUE
    /\ UNCHANGED <<row, ppc, psnap, jobs, provider, queue, pc, snap, canceler, crashes>>

(* EnsureGraphSync: admission against the recorded PASS; only a Job this   *)
(* call created is handed to the runtime.                                  *)
EnsureGraphSync ==
    /\ Ensures
    /\ passed
    /\ status[AutoJob] = "absent"
    /\ status' = [status EXCEPT ![AutoJob] = "queued"]
    /\ queue' = queue \cup {AutoJob}
    /\ UNCHANGED <<row, admission, cancelGen, phase, provider, pc, snap, canceler, crashes>>

(* RetryGraphSync: a new Job linked to a terminal one; the row keeps its   *)
(* latest_job_id.                                                          *)
RetryGraphSync(r) ==
    /\ passed
    /\ status[r] = "absent"
    /\ \E j \in Jobs : Terminal(status[j])
    /\ status' = [status EXCEPT ![r] = "queued"]
    /\ queue' = queue \cup {r}
    /\ UNCHANGED <<row, admission, cancelGen, phase, provider, pc, snap, canceler, crashes>>

(* CancellationService.Cancel, first half: the Job and the row are read,   *)
(* and whether an external task is recorded decides where the Job will go. *)
CancelRead(j) ==
    /\ Cancels
    /\ cancel[j] = "none"
    /\ latest = j
    /\ status[j] \in {"queued", "running"}
    /\ cancel' = [cancel EXCEPT ![j] = "request"]
    /\ cancelTo' = [cancelTo EXCEPT ![j] = IF task # NoJob THEN "interrupted" ELSE "canceled"]
    /\ UNCHANGED <<row, admission, jobs, provider, queue, pc, snap, cancelFrom, crashes>>

(* Mutant: an already requested cancellation is requested again.           *)
CancelRequestRepeats(j) ==
    /\ cancel[j] = "request"
    /\ cancelGen' = IF Terminal(status[j]) THEN cancelGen ELSE [cancelGen EXCEPT ![j] = @ + 1]
    /\ cancelFrom' = [cancelFrom EXCEPT ![j] = status[j]]
    /\ cancel' = [cancel EXCEPT ![j] = "move"]
    /\ UNCHANGED <<row, admission, status, phase, provider, queue, pc, snap, cancelTo, crashes>>

(* RequestGraphCancellation and the re-read of the Job.                    *)
CancelRequest(j) ==
    /\ cancel[j] = "request"
    /\ cancelGen' = IF Terminal(status[j]) THEN cancelGen ELSE [cancelGen EXCEPT ![j] = 1]
    /\ cancelFrom' = [cancelFrom EXCEPT ![j] = status[j]]
    /\ cancel' = [cancel EXCEPT ![j] = "move"]
    /\ UNCHANGED <<row, admission, status, phase, provider, queue, pc, snap, cancelTo, crashes>>

(* TransitionGraphJob from the status read; graph Jobs may not go from     *)
(* interrupted to canceled.                                                *)
CancelMove(j) ==
    /\ cancel[j] = "move"
    /\ cancel' = [cancel EXCEPT ![j] = "none"]
    /\ status' = IF status[j] = cancelFrom[j] /\ cancelFrom[j] \in {"queued", "running"}
                 THEN [status EXCEPT ![j] = cancelTo[j]] ELSE status
    /\ UNCHANGED <<row, admission, cancelGen, phase, provider, queue, pc, snap, cancelTo,
                   cancelFrom, crashes>>

----------------------------------------------------------------------------
(* graphSyncRuntime: loop, scan and dispatch; a Job in flight is not       *)
(* dispatched twice.                                                       *)

Scanned(j) == pipeline \in {"graph_queued", "graph_building"} /\ latest = j

Scan(j) ==
    /\ Scanned(j)
    /\ pc[j] = "idle"
    /\ Goto(j, "health")
    /\ UNCHANGED <<row, admission, jobs, provider, queue, snap, canceler, crashes>>

Dequeue(j) ==
    /\ j \in queue
    /\ queue' = queue \ {j}
    /\ IF pc[j] = "idle" THEN Goto(j, "health") ELSE UNCHANGED pc
    /\ UNCHANGED <<row, admission, jobs, provider, snap, canceler, crashes>>

(* An unavailable provider leaves the Job to the next scan.                *)
HealthDown(j) ==
    /\ pc[j] = "health"
    /\ Goto(j, "idle")
    /\ UNCHANGED <<row, admission, jobs, provider, queue, snap, canceler, crashes>>

HealthUp(j) ==
    /\ pc[j] = "health"
    /\ Goto(j, "state")
    /\ UNCHANGED <<row, admission, jobs, provider, queue, snap, canceler, crashes>>

FindState(j) ==
    /\ pc[j] = "state"
    /\ Goto(j, IF pipeline = "none" THEN "create" ELSE "start")
    /\ UNCHANGED <<row, admission, jobs, provider, queue, snap, canceler, crashes>>

CreateState(j) ==
    /\ pc[j] = "create"
    /\ IF pipeline = "none"
       THEN /\ pipeline' = "graph_queued"
            /\ latest' = j
            /\ Goto(j, "start")
       ELSE /\ Goto(j, "idle")
            /\ UNCHANGED <<pipeline, latest>>
    /\ UNCHANGED <<generation, task, handoff, admission, jobs, provider, queue, snap,
                   canceler, crashes>>

(* PhaseWorker.Checkpoint succeeds: the Job still runs (or has been        *)
(* settled and only the closing phases are missing), and the phase is the  *)
(* last one again or its successor with no less progress.                  *)
Checkpointable(j, p) ==
    /\ \/ status[j] = "running"
       \/ status[j] = "succeeded" /\ p \in {READY, IMPACT_HANDOFF_RECORDED}
    /\ IF phase[j] = 0 THEN p = QUEUED
       ELSE CanAdvanceTo(phase[j], p) /\ Progress[p] >= Progress[phase[j]]

(* A checkpoint and where the run goes on, or fails.                       *)
Checkpoint(j, p, step) ==
    IF Checkpointable(j, p)
    THEN phase' = [phase EXCEPT ![j] = p] /\ Goto(j, step)
    ELSE phase' = phase /\ Goto(j, "fail")

(* PhaseWorker.Start: claim a queued Job, then checkpoint QUEUED.  Start's *)
(* errors end the run and leave the Job as it is.                          *)
Start(j) ==
    /\ pc[j] = "start"
    /\ status' = IF status[j] = "queued" THEN [status EXCEPT ![j] = "running"] ELSE status
    /\ IF status[j] \in {"queued", "running"} /\ phase[j] \in {0, QUEUED}
       THEN phase' = [phase EXCEPT ![j] = QUEUED] /\ Goto(j, "validate")
       ELSE phase' = phase /\ Goto(j, "idle")
    /\ UNCHANGED <<row, admission, cancelGen, provider, queue, snap, canceler, crashes>>

(* A local effect (graphSyncRevision, the projection, the second health    *)
(* check) that fails, or succeeds and is checkpointed.                     *)
LocalPhase(j, at, p, next) ==
    /\ pc[j] = at
    /\ \/ phase' = phase /\ Goto(j, "fail")
       \/ Checkpoint(j, p, next)
    /\ UNCHANGED <<row, admission, status, cancelGen, provider, queue, snap, canceler, crashes>>

Validate(j) == LocalPhase(j, "validate", VALIDATION_CONFIRMED, "building")
Project(j) == LocalPhase(j, "project", PROJECTED, "compatible")
Compatible(j) == LocalPhase(j, "compatible", PROVIDER_COMPATIBLE, "submit")

(* PipelineMapper.MarkBuilding                                             *)
MarkBuilding(j) ==
    /\ pc[j] = "building"
    /\ IF pipeline \in {"graph_queued", "graph_building"} THEN Goto(j, "project") ELSE Goto(j, "fail")
    /\ IF pipeline = "graph_queued"
       THEN pipeline' = "graph_building" /\ generation' = generation + 1
       ELSE UNCHANGED <<pipeline, generation>>
    /\ UNCHANGED <<latest, task, handoff, admission, jobs, provider, queue, snap,
                   canceler, crashes>>

(* SubmissionService.Submit up to the PUT: the row must be this Job's; a   *)
(* recorded task is reused, otherwise SUBMITTING is checkpointed first.    *)
Submit(j) ==
    /\ pc[j] = "submit"
    /\ IF pipeline = "graph_building" /\ latest = j /\ task \in {NoJob, j}
       THEN IF task = j
            THEN Checkpoint(j, TASK_ACCEPTED, "poll") /\ UNCHANGED snap
            ELSE Checkpoint(j, SUBMITTING, "put") /\ snap' = [snap EXCEPT ![j] = generation]
       ELSE phase' = phase /\ Goto(j, "fail") /\ UNCHANGED snap
    /\ UNCHANGED <<row, admission, status, cancelGen, provider, queue, canceler, crashes>>

(* PutSnapshot: accepted (a snapshot with this content keeps its task), or *)
(* an error whose request did or did not reach the provider.               *)
PutSnapshot(j) ==
    /\ pc[j] = "put"
    /\ puts' = [puts EXCEPT ![j] = @ + 1]
    /\ \/ remote' = IF remote = "none" THEN "queued" ELSE remote
       \/ remote' = remote
    /\ Goto(j, "fail") \/ (remote' # "none" /\ Goto(j, "record"))
    /\ UNCHANGED <<row, admission, jobs, queue, snap, canceler, crashes>>

(* The accepted identity is stored with the generation read before the     *)
(* PUT.  A lost swap is no error: the run goes on to poll.                 *)
RecordTask(j) ==
    /\ pc[j] = "record"
    /\ IF generation = snap[j]
       THEN /\ task' = j
            /\ generation' = generation + 1
            /\ Goto(j, "accepted")
       ELSE /\ Goto(j, "poll")
            /\ UNCHANGED <<task, generation>>
    /\ UNCHANGED <<pipeline, latest, handoff, admission, jobs, provider, queue, snap,
                   canceler, crashes>>

Accepted(j) ==
    /\ pc[j] = "accepted"
    /\ Checkpoint(j, TASK_ACCEPTED, "poll")
    /\ UNCHANGED <<row, admission, status, cancelGen, provider, queue, snap, canceler, crashes>>

(* PollingService.Poll up to GetTask.                                      *)
Poll(j) ==
    /\ pc[j] = "poll"
    /\ IF pipeline = "graph_building" /\ latest = j /\ task # NoJob
       THEN Checkpoint(j, POLLING, "task")
       ELSE phase' = phase /\ Goto(j, "fail")
    /\ UNCHANGED <<row, admission, status, cancelGen, provider, queue, snap, canceler, crashes>>

(* GetTask: an error or a failed task ends in fail, an unfinished one is   *)
(* polled again, a succeeded one is checkpointed as VERIFYING.             *)
GetTask(j) ==
    /\ pc[j] = "task"
    /\ \/ phase' = phase /\ Goto(j, "fail")
       \/ remote = "queued" /\ phase' = phase /\ Goto(j, "poll")
       \/ remote \in {"exact", "inexact"} /\ Checkpoint(j, VERIFYING, "inspect")
    /\ UNCHANGED <<row, admission, status, cancelGen, provider, queue, snap, canceler, crashes>>

(* Mutant: any readable snapshot is accepted.                              *)
InspectAnySnapshot(j) ==
    /\ pc[j] = "inspect"
    /\ Goto(j, "commit") \/ Goto(j, "fail")
    /\ UNCHANGED <<row, admission, jobs, provider, queue, snap, canceler, crashes>>

(* InspectSnapshot and VerifySnapshot: only the exact target is ready.     *)
Inspect(j) ==
    /\ pc[j] = "inspect"
    /\ (remote = "exact" /\ Goto(j, "commit")) \/ Goto(j, "fail")
    /\ UNCHANGED <<row, admission, jobs, provider, queue, snap, canceler, crashes>>

(* ReadyService.Commit reads the row ...                                   *)
ReadyRead(j) ==
    /\ pc[j] = "commit"
    /\ IF pipeline = "graph_building" /\ latest = j
       THEN snap' = [snap EXCEPT ![j] = generation] /\ Goto(j, "commitTx")
       ELSE Goto(j, "fail") /\ UNCHANGED snap
    /\ UNCHANGED <<row, admission, jobs, provider, queue, canceler, crashes>>

(* Mutant: the Job row's status is not part of the UPDATE.                 *)
CommitGraphReadyAnyStatus(j) ==
    /\ pc[j] = "commitTx"
    /\ pipeline' = "graph_ready"
    /\ generation' = generation + 1
    /\ status' = [status EXCEPT ![latest] = "succeeded"]
    /\ handoff' = TRUE
    /\ Goto(j, "ready")
    /\ UNCHANGED <<latest, task, admission, cancelGen, phase, provider, queue, snap,
                   canceler, crashes>>

(* ... and commitGraphReady settles row, Job and handoff in one            *)
(* transaction.  A lost swap is no error; a Job that is neither running    *)
(* nor interrupted rolls everything back.  cancel_generation is not read.  *)
CommitGraphReady(j) ==
    /\ pc[j] = "commitTx"
    /\ IF generation = snap[j] /\ status[j] \in {"running", "interrupted"}
       THEN /\ pipeline' = "graph_ready"
            /\ generation' = generation + 1
            /\ status' = [status EXCEPT ![j] = "succeeded"]
            /\ handoff' = TRUE
       ELSE UNCHANGED <<pipeline, generation, status, handoff>>
    /\ Goto(j, IF generation = snap[j] /\ status[j] \notin {"running", "interrupted"}
               THEN "fail" ELSE "ready")
    /\ UNCHANGED <<latest, task, admission, cancelGen, phase, provider, queue, snap,
                   canceler, crashes>>

ReadyCheckpoint(j) ==
    /\ pc[j] = "ready"
    /\ Checkpoint(j, READY, "handoff")
    /\ UNCHANGED <<row, admission, status, cancelGen, provider, queue, snap, canceler, crashes>>

HandoffCheckpoint(j) ==
    /\ pc[j] = "handoff"
    /\ Checkpoint(j, IMPACT_HANDOFF_RECORDED, "idle")
    /\ UNCHANGED <<row, admission, status, cancelGen, provider, queue, snap, canceler, crashes>>

(* FailureService.Fail and FailProviderTask: only the row's own Job may    *)
(* fail it, and only before it is settled.                                 *)
FailRead(j) ==
    /\ pc[j] = "fail"
    /\ IF Scanned(j)
       THEN snap' = [snap EXCEPT ![j] = generation] /\ Goto(j, "failTx")
       ELSE Goto(j, "idle") /\ UNCHANGED snap
    /\ UNCHANGED <<row, admission, jobs, provider, queue, canceler, crashes>>

(* Mutant: the row is committed although no Job row was updated.           *)
CommitGraphFailureRowOnly(j) ==
    /\ pc[j] = "failTx"
    /\ pipeline' = "graph_failed"
    /\ generation' = generation + 1
    /\ status' = IF status[j] \in {"queued", "running", "interrupted"}
                 THEN [status EXCEPT ![j] = "failed"] ELSE status
    /\ Goto(j, "idle")
    /\ UNCHANGED <<latest, task, handoff, admission, cancelGen, phase, provider, queue, snap,
                   canceler, crashes>>

(* Mutant: an interrupted Job is not settled.                              *)
CommitGraphFailureNotInterrupted(j) ==
    /\ pc[j] = "failTx"
    /\ IF generation = snap[j] /\ status[j] \in {"queued", "running"}
       THEN /\ pipeline' = "graph_failed"
            /\ generation' = generation + 1
            /\ status' = [status EXCEPT ![j] = "failed"]
       ELSE UNCHANGED <<pipeline, generation, status>>
    /\ Goto(j, "idle")
    /\ UNCHANGED <<latest, task, handoff, admission, cancelGen, phase, provider, queue, snap,
                   canceler, crashes>>

(* CommitGraphFailure: row and Job in one transaction; a lost swap or a    *)
(* Job that is already terminal rolls back, and the error is dropped.      *)
CommitGraphFailure(j) ==
    /\ pc[j] = "failTx"
    /\ IF generation = snap[j] /\ status[j] \in {"queued", "running", "interrupted"}
       THEN /\ pipeline' = "graph_failed"
            /\ generation' = generation + 1
            /\ status' = [status EXCEPT ![j] = "failed"]
       ELSE UNCHANGED <<pipeline, generation, status>>
    /\ Goto(j, "idle")
    /\ UNCHANGED <<latest, task, handoff, admission, cancelGen, phase, provider, queue, snap,
                   canceler, crashes>>

----------------------------------------------------------------------------
(* The provider finishes its task (external).                              *)
ProviderStep ==
    /\ remote = "queued"
    /\ remote' \in {"exact", "inexact", "failed"}
    /\ UNCHANGED <<row, admission, jobs, puts, queue, pc, snap, canceler, crashes>>

(* The process dies, or closes its runtime and handlers, and starts again: *)
(* what was durable stays, everything else is gone.                        *)
Restart ==
    /\ crashes < MaxCrashes
    /\ crashes' = crashes + 1
    /\ queue' = {}
    /\ pc' = [j \in Jobs |-> "idle"]
    /\ cancel' = [j \in Jobs |-> "none"]
    /\ ppc' = IF ppc = "none" THEN "none" ELSE "done"
    /\ UNCHANGED <<row, passed, psnap, jobs, provider, snap, cancelTo, cancelFrom>>

Pipeline == PipelineCreate \/ PipelineValidating \/ PipelineValidate \/ PipelineAdmit \/ PipelineQueue

(* One step of a run past the first health check.                          *)
Run(j) ==
    \/ FindState(j) \/ CreateState(j) \/ Start(j) \/ Validate(j) \/ MarkBuilding(j)
    \/ Project(j) \/ Compatible(j) \/ Submit(j) \/ PutSnapshot(j) \/ RecordTask(j)
    \/ Accepted(j) \/ Poll(j) \/ GetTask(j) \/ Inspect(j) \/ ReadyRead(j)
    \/ CommitGraphReady(j) \/ ReadyCheckpoint(j) \/ HandoffCheckpoint(j)
    \/ FailRead(j) \/ CommitGraphFailure(j)

Next ==
    \/ Pipeline \/ PipelineAbort \/ RunValidation \/ EnsureGraphSync \/ ProviderStep \/ Restart
    \/ \E r \in Retries : RetryGraphSync(r)
    \/ \E j \in Jobs :
          \/ CancelRead(j) \/ CancelRequest(j) \/ CancelMove(j)
          \/ Scan(j) \/ Dequeue(j) \/ HealthDown(j) \/ HealthUp(j) \/ Run(j)

Spec == Init /\ [][Next]_vars

(* Goroutines and the ticker are scheduled; the provider finishes its      *)
(* tasks and is healthy again and again.                                   *)
Fairness ==
    /\ WF_vars(Pipeline)
    /\ WF_vars(ProviderStep)
    /\ \A j \in Jobs :
          /\ WF_vars(Scan(j)) /\ WF_vars(Dequeue(j)) /\ WF_vars(Run(j))
          /\ SF_vars(HealthUp(j))

LiveSpec == Spec /\ Fairness

----------------------------------------------------------------------------
(* Every variable has its type.                                            *)
TypeOK ==
    /\ pipeline \in PipelineState \cup {"none"}
    /\ generation \in Nat
    /\ latest \in Jobs \cup {NoJob}
    /\ task \in Jobs \cup {NoJob}
    /\ handoff \in BOOLEAN /\ passed \in BOOLEAN
    /\ status \in [Jobs -> Status \cup {"absent"}]
    /\ cancelGen \in [Jobs -> {0, 1}]
    /\ phase \in [Jobs -> WorkerPhase \cup {0}]
    /\ remote \in {"none", "queued", "exact", "inexact", "failed"}
    /\ puts \in [Jobs -> Nat]
    /\ queue \subseteq Jobs
    /\ pc \in [Jobs -> Steps \cup {"idle"}]
    /\ snap \in [Jobs -> Nat]
    /\ cancel \in [Jobs -> {"none", "request", "move"}]
    /\ cancelTo \in [Jobs -> {"canceled", "interrupted"}]
    /\ cancelFrom \in [Jobs -> Status]
    /\ ppc \in PipelineSteps /\ psnap \in Nat
    /\ crashes \in 0 .. MaxCrashes

(* A revision shown as graph_ready has a provider snapshot that is exactly *)
(* the projected one, its recorded task, a succeeded latest Job and the    *)
(* impact handoff, whatever was canceled, retried or restarted meanwhile   *)
(* (commitGraphReady, VerifySnapshot).                                     *)
ReadyIsBacked ==
    pipeline = "graph_ready" =>
        /\ latest \in Jobs /\ status[latest] = "succeeded"
        /\ task = latest /\ remote = "exact" /\ handoff

(* A graph Job is succeeded or failed only together with the row that      *)
(* names it latest, and the row is settled only together with its Job.     *)
JobAndRowAgree ==
    /\ \A j \in Jobs : status[j] = "succeeded" => latest = j /\ pipeline = "graph_ready"
    /\ \A j \in Jobs : status[j] = "failed" => latest = j /\ pipeline = "graph_failed"
    /\ pipeline = "graph_failed" => latest \in Jobs /\ status[latest] = "failed"

(* SubmissionService persists the provider identity before a Job advances  *)
(* to TASK_ACCEPTED: a Job's later phases are about its own stored task.   *)
AcceptedIsRecorded == \A j \in Jobs : phase[j] >= TASK_ACCEPTED => task = j /\ latest = j

(* No PUT without a durable SUBMITTING checkpoint, and never a second one  *)
(* for the same Job, restarts included.                                    *)
OneCheckpointedPut ==
    \A j \in Jobs : puts[j] > 0 => puts[j] = 1 /\ phase[j] >= SUBMITTING

(* Whatever the worker and the provider have done for a revision is in its *)
(* rows: the Job and the row settle together (JobAndRowAgree), a later     *)
(* phase has its stored task (AcceptedIsRecorded), and the one PUT has its *)
(* checkpoint (OneCheckpointedPut).                                        *)
WorkIsRecorded == JobAndRowAgree /\ AcceptedIsRecorded /\ OneCheckpointedPut

(* Only phases that CanAdvanceTo and rows that CanTransitionTo allow       *)
(* follow each other, the generation counts every row change, and a        *)
(* terminal Job or a settled row never changes again.                      *)
ForwardOnly ==
    [][/\ \A j \in Jobs : phase'[j] # phase[j] => phase[j] = 0 \/ CanAdvanceTo(phase[j], phase'[j])
       /\ pipeline \in PipelineState => CanMoveTo(pipeline, pipeline')
       /\ pipeline \in PipelineState => generation' \in {generation, generation + 1}
       /\ <<pipeline, latest, task>> # <<pipeline', latest', task'>> /\ pipeline # "none"
             => generation' = generation + 1
       /\ \A j \in Jobs : Terminal(status[j]) => status'[j] = status[j]]_vars

(* However often the provider is away, a revision whose Job waits for its  *)
(* first run is settled, unless a user cancels or the process restarts.    *)
QueuedSettles ==
    pipeline = "graph_queued" /\ latest \in Jobs /\ phase[latest] = 0
        ~> \/ pipeline \in {"graph_ready", "graph_failed"}
           \/ crashes > 0 \/ \E j \in Jobs : cancelGen[j] > 0

(* Whoever cancels it and whenever, in one process lifetime the Job of a   *)
(* row ends: a cancel that loses against the worker's claim, or meets an   *)
(* accepted task, does not leave it running or interrupted for ever        *)
(* (CommitGraphFailure also settles interrupted Jobs).                     *)
LatestJobEnds ==
    \A j \in Jobs : latest = j /\ phase[j] = 0 ~> Terminal(status[j]) \/ crashes > 0

(* Within one process lifetime a revision whose Job waits is settled       *)
(* unless a user cancels (QueuedSettles), and its Job ends even then       *)
(* (LatestJobEnds), however often the provider is away.                    *)
RevisionSettles == QueuedSettles /\ LatestJobEnds

(* RecoveryService: "queued/running Jobs are resumed from their last       *)
(* immutable event checkpoint" (graph/sync/recovery.go:45-46): a queued    *)
(* revision is settled across a restart too.                               *)
RestartSettles ==
    pipeline = "graph_queued" ~> pipeline \in {"graph_ready", "graph_failed"}
=============================================================================
