-------------------------- MODULE GraphSync_proofs --------------------------
(***************************************************************************)
(* Proofs about graph synchronization, for every set of retries, every     *)
(* number of restarts, with and without cancellation and ensure; and about *)
(* the requests that share state, and what the process tells of itself, in *)
(* the sections after it.                                                  *)
(***************************************************************************)
EXTENDS GraphSync, LiveRequests, Diagnostics, FiniteSetTheorems, SequenceTheorems, TLAPS

(* The rows graph work has reached, and the steps of a run that only the   *)
(* row's own Job gets to.                                                  *)
Admitted == {"graph_queued", "graph_building", "graph_ready", "graph_failed"}
OwnSteps == {"put", "record", "accepted", "poll", "task", "inspect", "commit", "commitTx",
             "ready", "handoff", "failTx"}

(* The validation pipeline is alone with its row until it admits a Job.    *)
PipelineIsAlone ==
    /\ ppc = "saved" => pipeline = "saved"
    /\ ppc \in {"validate", "admit", "queue"} => pipeline = "validating" /\ generation = psnap

(* A row names a Job exactly when it is admitted, and stores no task but   *)
(* that Job's; only this Job gets past the submission.                     *)
RowHasOwner ==
    /\ latest # NoJob <=> pipeline \in Admitted
    /\ task \in {NoJob, latest}
    /\ \A j \in Jobs : pc[j] \in OwnSteps => latest = j

(* Where a run is, its last event is: the phases go forward only, so a run *)
(* passes each step once in the life of its Job.                           *)
PhaseOfStep ==
    \A j \in Jobs :
       /\ pc[j] = "validate" => phase[j] = QUEUED
       /\ pc[j] \in {"building", "project"} => phase[j] = VALIDATION_CONFIRMED
       /\ pc[j] = "compatible" => phase[j] = PROJECTED
       /\ pc[j] = "submit" => phase[j] = PROVIDER_COMPATIBLE
       /\ pc[j] \in {"put", "record", "accepted"} => phase[j] = SUBMITTING
       /\ pc[j] = "poll" => phase[j] \in {SUBMITTING, TASK_ACCEPTED, POLLING}
       /\ pc[j] = "task" => phase[j] = POLLING
       /\ pc[j] \in {"inspect", "commit", "commitTx", "ready"} => phase[j] = VERIFYING
       /\ pc[j] = "handoff" => phase[j] = READY

(* The PUT is ahead exactly as long as its checkpoint is.                  *)
PutIsAhead == \A j \in Jobs : phase[j] < SUBMITTING \/ pc[j] = "put" => puts[j] = 0

(* A generation read with the row is still current only while the row is   *)
(* what the run found: every change of the row counts it up.               *)
SnapIsPast ==
    \A j \in Jobs :
       /\ snap[j] <= generation
       /\ pc[j] \in {"put", "record", "commitTx"} /\ snap[j] = generation => pipeline = "graph_building"
       /\ pc[j] = "failTx" /\ snap[j] = generation => pipeline \in {"graph_queued", "graph_building"}

(* The identity a run polls and commits is stored and verified.            *)
TaskIsVerified ==
    \A j \in Jobs :
       /\ pc[j] = "accepted" => task = j
       /\ pc[j] \in {"commit", "commitTx"} => remote = "exact"

(* A cancel handler is about a Job that exists.                            *)
CanceledExists == \A j \in Jobs : cancel[j] # "none" => status[j] # "absent"

(* The inductive invariant.                                                *)
IInv ==
    /\ TypeOK
    /\ PipelineIsAlone
    /\ RowHasOwner
    /\ PhaseOfStep
    /\ PutIsAhead
    /\ SnapIsPast
    /\ TaskIsVerified
    /\ CanceledExists
    /\ ReadyIsBacked
    /\ WorkIsRecorded

USE GraphSyncAssumption
USE DEF Jobs, row, jobs, provider, canceler, admission, Goto, WorkerPhase, QUEUED, VALIDATION_CONFIRMED, PROJECTED, PROVIDER_COMPATIBLE,
        SUBMITTING, TASK_ACCEPTED, POLLING, VERIFYING, READY, IMPACT_HANDOFF_RECORDED

(* The variables keep their types in every step; what a cancel handler     *)
(* remembers of its Job needs CanceledExists.                              *)
LEMMA TypeInductive == TypeOK /\ CanceledExists /\ [Next]_vars => TypeOK'
<1> SUFFICES ASSUME TypeOK, CanceledExists, [Next]_vars PROVE TypeOK'
  OBVIOUS
<1> USE DEF TypeOK, CanceledExists, Status, Steps, PipelineSteps, PipelineState
<1>1. CASE UNCHANGED vars
  BY <1>1 DEF vars
<1>2. CASE PipelineCreate
  BY <1>2 DEF PipelineCreate
<1>3. CASE PipelineValidating
  BY <1>3 DEF PipelineValidating
<1>4. CASE PipelineValidate
  <2>1. passed' \in BOOLEAN
    BY <1>4, Zenon DEF PipelineValidate
  <2>2. /\ pipeline' \in {pipeline, "blocked_validation"}
        /\ generation' \in {generation, generation + 1}
        /\ ppc' \in {"admit", "done"}
    BY <1>4 DEF PipelineValidate
  <2>3. UNCHANGED <<latest, task, handoff, psnap, jobs, provider, queue, pc, snap, canceler, crashes>>
    BY <1>4 DEF PipelineValidate
  <2> QED
    BY <2>1, <2>2, <2>3
<1>5. CASE PipelineAdmit
  BY <1>5 DEF PipelineAdmit
<1>6. CASE PipelineQueue
  BY <1>6 DEF PipelineQueue
<1>7. CASE PipelineAbort \/ RunValidation \/ EnsureGraphSync
  <2>1. passed' \in BOOLEAN
    BY <1>7, Zenon DEF PipelineAbort, RunValidation, EnsureGraphSync
  <2> QED
    BY <1>7, <2>1 DEF PipelineAbort, RunValidation, EnsureGraphSync
<1>8. CASE ProviderStep
  BY <1>8 DEF ProviderStep
<1>9. CASE Restart
  BY <1>9 DEF Restart
<1>10. ASSUME NEW r \in Retries, RetryGraphSync(r) PROVE TypeOK'
  BY <1>10 DEF RetryGraphSync, Terminal
<1>11. ASSUME NEW j \in Jobs, CancelRead(j) \/ CancelRequest(j) PROVE TypeOK'
  BY <1>11 DEF CancelRead, CancelRequest, Terminal
<1>12. ASSUME NEW j \in Jobs, CancelMove(j) PROVE TypeOK'
  BY <1>12 DEF CancelMove
<1>13. ASSUME NEW j \in Jobs, Scan(j) \/ Dequeue(j) \/ HealthDown(j) \/ HealthUp(j) \/ FindState(j) PROVE TypeOK'
  BY <1>13 DEF Scan, Dequeue, HealthDown, HealthUp, FindState
<1>14. ASSUME NEW j \in Jobs, CreateState(j) PROVE TypeOK'
  BY <1>14 DEF CreateState
<1>15. ASSUME NEW j \in Jobs, Start(j) PROVE TypeOK'
  BY <1>15 DEF Start
<1>16. ASSUME NEW j \in Jobs, Validate(j) \/ Project(j) \/ Compatible(j) PROVE TypeOK'
  BY <1>16 DEF Validate, Project, Compatible, LocalPhase, Checkpoint, Checkpointable, CanAdvanceTo
<1>17. ASSUME NEW j \in Jobs, MarkBuilding(j) PROVE TypeOK'
  BY <1>17 DEF MarkBuilding
<1>18. ASSUME NEW j \in Jobs, Submit(j) PROVE TypeOK'
  BY <1>18 DEF Submit, Checkpoint, Checkpointable, CanAdvanceTo
<1>19. ASSUME NEW j \in Jobs, PutSnapshot(j) PROVE TypeOK'
  BY <1>19 DEF PutSnapshot
<1>20. ASSUME NEW j \in Jobs, RecordTask(j) PROVE TypeOK'
  BY <1>20 DEF RecordTask
<1>21. ASSUME NEW j \in Jobs, Accepted(j) PROVE TypeOK'
  BY <1>21 DEF Accepted, Checkpoint, Checkpointable, CanAdvanceTo
<1>22. ASSUME NEW j \in Jobs, Poll(j) PROVE TypeOK'
  BY <1>22 DEF Poll, Checkpoint, Checkpointable, CanAdvanceTo
<1>23. ASSUME NEW j \in Jobs, GetTask(j) PROVE TypeOK'
  BY <1>23 DEF GetTask, Checkpoint, Checkpointable, CanAdvanceTo
<1>24. ASSUME NEW j \in Jobs, Inspect(j) PROVE TypeOK'
  BY <1>24 DEF Inspect
<1>25. ASSUME NEW j \in Jobs, ReadyRead(j) PROVE TypeOK'
  BY <1>25 DEF ReadyRead
<1>26. ASSUME NEW j \in Jobs, CommitGraphReady(j) PROVE TypeOK'
  <2>1. handoff' \in BOOLEAN
    BY <1>26, Zenon DEF CommitGraphReady
  <2> QED
    BY <1>26, <2>1 DEF CommitGraphReady
<1>27. ASSUME NEW j \in Jobs, ReadyCheckpoint(j) \/ HandoffCheckpoint(j) PROVE TypeOK'
  BY <1>27 DEF ReadyCheckpoint, HandoffCheckpoint, Checkpoint, Checkpointable, CanAdvanceTo
<1>28. ASSUME NEW j \in Jobs, FailRead(j) PROVE TypeOK'
  BY <1>28 DEF FailRead, Scanned
<1>29. ASSUME NEW j \in Jobs, CommitGraphFailure(j) PROVE TypeOK'
  BY <1>29 DEF CommitGraphFailure
<1> QED
  BY <1>1, <1>2, <1>3, <1>4, <1>5, <1>6, <1>7, <1>8, <1>9, <1>10, <1>11, <1>12, <1>13, <1>14, <1>15, <1>16, <1>17, <1>18, <1>19, <1>20, <1>21, <1>22, <1>23, <1>24, <1>25, <1>26, <1>27, <1>28, <1>29
  DEF Next, Pipeline, Run

(* Every step of the pipeline, the commands, the runs, the provider and    *)
(* the restart keeps the inductive invariant.                              *)
LEMMA StepInductive == IInv /\ [Next]_vars => IInv'
<1> SUFFICES ASSUME IInv, [Next]_vars PROVE IInv'
  OBVIOUS
<1>0. TypeOK'
  BY TypeInductive DEF IInv
<1> USE <1>0 DEF IInv, TypeOK, PipelineIsAlone, RowHasOwner, Admitted, OwnSteps, PhaseOfStep, PutIsAhead,
                 SnapIsPast, TaskIsVerified, CanceledExists, ReadyIsBacked, WorkIsRecorded,
                 JobAndRowAgree, AcceptedIsRecorded, OneCheckpointedPut
<1>1. CASE UNCHANGED vars
  BY <1>1 DEF vars
<1>2. CASE PipelineCreate
  BY <1>2 DEF PipelineCreate
<1>3. CASE PipelineValidating
  BY <1>3 DEF PipelineValidating
<1>4. CASE PipelineValidate
  <2>1. CASE UNCHANGED <<pipeline, generation>>
    BY <1>4, <2>1 DEF PipelineValidate
  <2>2. CASE pipeline' = "blocked_validation" /\ generation' = generation + 1
    BY <1>4, <2>2 DEF PipelineValidate
  <2> QED
    BY <1>4, <2>1, <2>2 DEF PipelineValidate
<1>5. CASE PipelineAdmit
  BY <1>5 DEF PipelineAdmit
<1>6. CASE PipelineQueue
  BY <1>6 DEF PipelineQueue
<1>7. CASE PipelineAbort \/ RunValidation \/ EnsureGraphSync
  BY <1>7 DEF PipelineAbort, RunValidation, EnsureGraphSync
<1>8. CASE ProviderStep
  BY <1>8 DEF ProviderStep
<1>9. CASE Restart
  BY <1>9 DEF Restart
<1>10. ASSUME NEW r \in Retries, RetryGraphSync(r) PROVE IInv'
  BY <1>10 DEF RetryGraphSync, Terminal
<1>11. ASSUME NEW j \in Jobs, CancelRead(j) \/ CancelRequest(j) PROVE IInv'
  BY <1>11 DEF CancelRead, CancelRequest, Terminal
<1>12. ASSUME NEW j \in Jobs, CancelMove(j) PROVE IInv'
  BY <1>12 DEF CancelMove
<1>13. ASSUME NEW j \in Jobs, Scan(j) \/ Dequeue(j) \/ HealthDown(j) \/ HealthUp(j) \/ FindState(j) PROVE IInv'
  BY <1>13 DEF Scan, Dequeue, HealthDown, HealthUp, FindState
<1>14. ASSUME NEW j \in Jobs, CreateState(j) PROVE IInv'
  BY <1>14 DEF CreateState
<1>15. ASSUME NEW j \in Jobs, Start(j) PROVE IInv'
  BY <1>15 DEF Start
<1>16. ASSUME NEW j \in Jobs, Validate(j) \/ Project(j) \/ Compatible(j) PROVE IInv'
  BY <1>16 DEF Validate, Project, Compatible, LocalPhase, Checkpoint, Checkpointable, CanAdvanceTo
<1>17. ASSUME NEW j \in Jobs, MarkBuilding(j) PROVE IInv'
  BY <1>17 DEF MarkBuilding
<1>18. ASSUME NEW j \in Jobs, Submit(j) PROVE IInv'
  BY <1>18 DEF Submit, Checkpoint, Checkpointable, CanAdvanceTo
<1>19. ASSUME NEW j \in Jobs, PutSnapshot(j) PROVE IInv'
  <2>1. puts[j] = 0 /\ phase[j] = SUBMITTING
    BY <1>19 DEF PutSnapshot
  <2> QED
    BY <1>19, <2>1 DEF PutSnapshot
<1>20. ASSUME NEW j \in Jobs, RecordTask(j) PROVE IInv'
  <2>1. latest = j /\ task \in {NoJob, j}
    BY <1>20 DEF RecordTask
  <2>2. generation' = generation + 1 => pipeline = "graph_building"
    BY <1>20 DEF RecordTask
  <2> QED
    BY <1>20, <2>1, <2>2 DEF RecordTask
<1>21. ASSUME NEW j \in Jobs, Accepted(j) PROVE IInv'
  BY <1>21 DEF Accepted, Checkpoint, Checkpointable, CanAdvanceTo
<1>22. ASSUME NEW j \in Jobs, Poll(j) PROVE IInv'
  BY <1>22 DEF Poll, Checkpoint, Checkpointable, CanAdvanceTo
<1>23. ASSUME NEW j \in Jobs, GetTask(j) PROVE IInv'
  BY <1>23 DEF GetTask, Checkpoint, Checkpointable, CanAdvanceTo
<1>24. ASSUME NEW j \in Jobs, Inspect(j) PROVE IInv'
  BY <1>24 DEF Inspect
<1>25. ASSUME NEW j \in Jobs, ReadyRead(j) PROVE IInv'
  BY <1>25 DEF ReadyRead
<1>26. ASSUME NEW j \in Jobs, CommitGraphReady(j) PROVE IInv'
  <2>1. latest = j /\ task = j /\ remote = "exact"
    BY <1>26 DEF CommitGraphReady
  <2>2. CASE generation = snap[j] /\ status[j] \in {"running", "interrupted"}
    <3>1. pipeline = "graph_building"
      BY <1>26, <2>2 DEF CommitGraphReady
    <3> QED
      BY <1>26, <2>1, <2>2, <3>1 DEF CommitGraphReady
  <2>3. CASE ~(generation = snap[j] /\ status[j] \in {"running", "interrupted"})
    BY <1>26, <2>3 DEF CommitGraphReady
  <2> QED
    BY <2>2, <2>3
<1>27. ASSUME NEW j \in Jobs, ReadyCheckpoint(j) \/ HandoffCheckpoint(j) PROVE IInv'
  BY <1>27 DEF ReadyCheckpoint, HandoffCheckpoint, Checkpoint, Checkpointable, CanAdvanceTo
<1>28. ASSUME NEW j \in Jobs, FailRead(j) PROVE IInv'
  BY <1>28 DEF FailRead, Scanned
<1>29. ASSUME NEW j \in Jobs, CommitGraphFailure(j) PROVE IInv'
  <2>1. CASE generation = snap[j] /\ status[j] \in {"queued", "running", "interrupted"}
    <3>1. latest = j /\ pipeline \in {"graph_queued", "graph_building"}
      BY <1>29, <2>1 DEF CommitGraphFailure
    <3> QED
      BY <1>29, <2>1, <3>1 DEF CommitGraphFailure
  <2>2. CASE ~(generation = snap[j] /\ status[j] \in {"queued", "running", "interrupted"})
    BY <1>29, <2>2 DEF CommitGraphFailure
  <2> QED
    BY <2>1, <2>2
<1> QED
  BY <1>1, <1>2, <1>3, <1>4, <1>5, <1>6, <1>7, <1>8, <1>9, <1>10, <1>11, <1>12, <1>13, <1>14, <1>15, <1>16, <1>17, <1>18, <1>19, <1>20, <1>21, <1>22, <1>23, <1>24, <1>25, <1>26, <1>27, <1>28, <1>29
  DEF Next, Pipeline, Run

(* A saved revision nobody has worked on satisfies it.                     *)
LEMMA InitInvariant == Init => IInv
<1> SUFFICES ASSUME Init PROVE IInv
  OBVIOUS
<1>1. handoff \in BOOLEAN /\ passed \in BOOLEAN
  BY Zenon DEF Init
<1> QED
  BY <1>1 DEF Init, IInv, TypeOK, Status, Steps, PipelineSteps, PipelineState,
       PipelineIsAlone, RowHasOwner, Admitted, OwnSteps, PhaseOfStep, PutIsAhead, SnapIsPast,
       TaskIsVerified, CanceledExists, ReadyIsBacked, WorkIsRecorded, JobAndRowAgree,
       AcceptedIsRecorded, OneCheckpointedPut

(* Every reachable state satisfies the inductive invariant.                *)
THEOREM GraphSyncInvariant == Spec => []IInv
<1>1. Init => IInv
  BY InitInvariant
<1>2. IInv /\ [Next]_vars => IInv'
  BY StepInductive
<1> QED
  BY <1>1, <1>2, PTL DEF Spec

(* The variables of a revision's synchronization keep their types.         *)
THEOREM TypeCorrect == Spec => []TypeOK
<1>1. IInv => TypeOK
  BY DEF IInv
<1> QED
  BY <1>1, GraphSyncInvariant, PTL

(* Whatever was canceled, retried or restarted, a revision shown as        *)
(* graph_ready has its exact snapshot, its task, its Job and the handoff   *)
(* (commitGraphReady, VerifySnapshot).                                     *)
THEOREM ReadyIsBackedHolds == Spec => []ReadyIsBacked
<1>1. IInv => ReadyIsBacked
  BY DEF IInv
<1> QED
  BY <1>1, GraphSyncInvariant, PTL

(* The rows record what was done: Job and row settle together, a later     *)
(* phase has its stored task, and there is one PUT, after its checkpoint.  *)
THEOREM WorkIsRecordedHolds == Spec => []WorkIsRecorded
<1>1. IInv => WorkIsRecorded
  BY DEF IInv
<1> QED
  BY <1>1, GraphSyncInvariant, PTL

(* What a step may do to the phase of a Job ...                            *)
PhaseForward ==
    \A j \in Jobs : phase'[j] # phase[j] => phase[j] = 0 \/ CanAdvanceTo(phase[j], phase'[j])
(* ... to the row ...                                                      *)
RowForward ==
    /\ pipeline \in PipelineState => CanMoveTo(pipeline, pipeline')
    /\ pipeline \in PipelineState => generation' \in {generation, generation + 1}
    /\ <<pipeline, latest, task>> # <<pipeline', latest', task'>> /\ pipeline # "none"
          => generation' = generation + 1
(* ... and to the status of a Job that has ended.                          *)
EndedStays == \A j \in Jobs : Terminal(status[j]) => status'[j] = status[j]

(* Every step goes forward.                                                *)
LEMMA StepForward == IInv /\ [Next]_vars => PhaseForward /\ RowForward /\ EndedStays
<1> SUFFICES ASSUME IInv, [Next]_vars PROVE PhaseForward /\ RowForward /\ EndedStays
  OBVIOUS
<1> USE DEF IInv, TypeOK, PipelineIsAlone, RowHasOwner, SnapIsPast, PhaseForward, RowForward,
            EndedStays, PipelineState, CanMoveTo, CanAdvanceTo, Checkpoint, Checkpointable,
            Terminal
<1>1. CASE UNCHANGED vars
  BY <1>1 DEF vars
<1>2. CASE Pipeline
  BY <1>2 DEF Pipeline, PipelineCreate, PipelineValidating, PipelineValidate, PipelineAdmit,
              PipelineQueue
<1>3. CASE PipelineAbort \/ RunValidation \/ EnsureGraphSync \/ ProviderStep \/ Restart
  BY <1>3 DEF PipelineAbort, RunValidation, EnsureGraphSync, ProviderStep, Restart
<1>4. ASSUME NEW r \in Retries, RetryGraphSync(r) PROVE PhaseForward /\ RowForward /\ EndedStays
  BY <1>4 DEF RetryGraphSync
<1>5. ASSUME NEW j \in Jobs, CancelRead(j) \/ CancelRequest(j) \/ CancelMove(j)
      PROVE  PhaseForward /\ RowForward /\ EndedStays
  BY <1>5 DEF CancelRead, CancelRequest, CancelMove
<1>6. ASSUME NEW j \in Jobs, Scan(j) \/ Dequeue(j) \/ HealthDown(j) \/ HealthUp(j)
      PROVE  PhaseForward /\ RowForward /\ EndedStays
  BY <1>6 DEF Scan, Dequeue, HealthDown, HealthUp
<1>7. ASSUME NEW j \in Jobs, Run(j) PROVE PhaseForward /\ RowForward /\ EndedStays
  <2>1. CASE FindState(j) \/ PutSnapshot(j) \/ Inspect(j) \/ ReadyRead(j) \/ FailRead(j)
    BY <2>1 DEF FindState, PutSnapshot, Inspect, ReadyRead, FailRead
  <2>2. CASE Start(j)
    BY <2>2 DEF Start
  <2>3. CASE CreateState(j) \/ MarkBuilding(j) \/ RecordTask(j)
    BY <2>3 DEF CreateState, MarkBuilding, RecordTask
  <2>4. CASE CommitGraphReady(j) \/ CommitGraphFailure(j)
    BY <2>4 DEF CommitGraphReady, CommitGraphFailure, OwnSteps
  <2>5. CASE Validate(j) \/ Project(j) \/ Compatible(j) \/ Submit(j) \/ Accepted(j)
    BY <2>5 DEF Validate, Project, Compatible, LocalPhase, Submit, Accepted
  <2>6. CASE Poll(j) \/ GetTask(j) \/ ReadyCheckpoint(j) \/ HandoffCheckpoint(j)
    BY <2>6 DEF Poll, GetTask, ReadyCheckpoint, HandoffCheckpoint
  <2> QED
    BY <1>7, <2>1, <2>2, <2>3, <2>4, <2>5, <2>6 DEF Run
<1> QED
  BY <1>1, <1>2, <1>3, <1>4, <1>5, <1>6, <1>7 DEF Next

(* Phases, rows and terminal Jobs only go forward, and the generation      *)
(* counts every change of the row (WorkerPhase.CanAdvanceTo,               *)
(* PipelineState.CanTransitionTo, the compare-and-swap of the row).        *)
THEOREM ForwardOnlyHolds == Spec => ForwardOnly
<1>1. IInv /\ [Next]_vars => [PhaseForward /\ RowForward /\ EndedStays]_vars
  BY StepForward
<1> QED
  BY <1>1, GraphSyncInvariant, PTL DEF Spec, ForwardOnly, PhaseForward, RowForward, EndedStays

-------------------------------------------------------------------------------
HIDE GraphSyncAssumption
HIDE DEF Jobs, row, jobs, provider, canceler, admission, Goto, WorkerPhase, QUEUED, VALIDATION_CONFIRMED, PROJECTED, PROVIDER_COMPATIBLE,
        SUBMITTING, TASK_ACCEPTED, POLLING, VERIFYING, READY, IMPACT_HANDOFF_RECORDED

(***************************************************************************)
(* Requests that share state: the runtime actions.                         *)
(***************************************************************************)
Results == {"ok", "failed", "canceled"}

Distinct(s) == \A i, j \in DOMAIN s : s[i] = s[j] => i = j

(* The handler's state has its fields; a key has run once for each time    *)
(* its result was evicted, and once more while it runs or is remembered.   *)
ActionsOK ==
    /\ \E i, c, o, r, e, u, l :
          actions = [inflight |-> i, completed |-> c, order |-> o, runs |-> r, evicted |-> e,
                     outcomes |-> u, left |-> l]
    /\ actions.inflight \subseteq Keys
    /\ actions.order \in Seq(Keys) /\ Distinct(actions.order) /\ Len(actions.order) <= CacheLimit
    /\ DOMAIN actions.completed = ToSet(actions.order)
    /\ actions.runs \in [Keys -> Nat] /\ actions.evicted \in [Keys -> Nat]
    /\ actions.outcomes \in [Keys -> SUBSET Results]

RunsAreCounted ==
    \A k \in Keys :
        /\ k \in actions.inflight => k \notin ToSet(actions.order)
        /\ actions.runs[k] = actions.evicted[k]
                             + IF k \in actions.inflight \cup ToSet(actions.order) THEN 1 ELSE 0
        /\ k \in ToSet(actions.order) => actions.completed[k] \in actions.outcomes[k]

CallerType == [pc : {"idle", "enter", "wait", "run"}, key : Keys \cup {0},
               answer : Results \cup {"none", "refused", "left"}]

(* One caller runs a key in flight; an answer is that of a run of its key. *)
CallersOK ==
    /\ callers \in [Callers -> CallerType]
    /\ \A c \in Callers :
          /\ callers[c].pc # "idle" => callers[c].key \in Keys
          /\ callers[c].pc = "run" => callers[c].key \in actions.inflight
          /\ callers[c].answer \in Results =>
                callers[c].key \in Keys /\ callers[c].answer \in actions.outcomes[callers[c].key]
    /\ \A c, d \in Callers :
          callers[c].pc = "run" /\ callers[d].pc = "run" /\ callers[c].key = callers[d].key => c = d

ActionInv == ActionsOK /\ RunsAreCounted /\ CallersOK

(* The result of a run is the newest in the cache; the oldest goes when    *)
(* there are too many.                                                     *)
Appended(S, s, k, t) ==
    /\ t \in Seq(S) /\ Distinct(t) /\ ToSet(t) = ToSet(s) \cup {k} /\ Len(t) = Len(s) + 1
    /\ t[1] \in ToSet(t)
    /\ Tail(t) \in Seq(S) /\ Distinct(Tail(t)) /\ ToSet(Tail(t)) = ToSet(t) \ {t[1]}
    /\ Len(Tail(t)) = Len(s)

LEMMA NewestAndOldest ==
    ASSUME NEW S, NEW s \in Seq(S), NEW k \in S, Distinct(s), k \notin ToSet(s),
           NEW t, t = Append(s, k)
    PROVE  Appended(S, s, k, t)
<1>1. t \in Seq(S) /\ Len(t) = Len(s) + 1 /\ DOMAIN t = 1..(Len(s) + 1) /\ DOMAIN s = 1..Len(s)
      /\ Len(s) \in Nat
  OBVIOUS
<1>2. t[Len(s) + 1] = k /\ \A i \in 1..Len(s) : t[i] = s[i]
  OBVIOUS
<1>3. \A i \in 1..Len(s) : s[i] # k
  BY <1>1 DEF ToSet
<1>4. Distinct(t)
  BY <1>1, <1>2, <1>3 DEF Distinct
<1>5. ToSet(t) = ToSet(s) \cup {k}
  <2>1. ToSet(t) \subseteq ToSet(s) \cup {k}
    BY <1>1, <1>2 DEF ToSet
  <2>2. ToSet(s) \cup {k} \subseteq ToSet(t)
    <3>1. \A i \in 1..Len(s) : i \in DOMAIN t /\ t[i] = s[i]
      BY <1>1, <1>2
    <3>2. k \in ToSet(t)
      BY <1>1, <1>2 DEF ToSet
    <3>3. ToSet(s) \subseteq ToSet(t)
      BY <1>1, <3>1 DEF ToSet
    <3> QED
      BY <3>2, <3>3
  <2> QED
    BY <2>1, <2>2
<1>6. t[1] \in ToSet(t)
  BY <1>1 DEF ToSet
<1>7. PICK u : u = Tail(t)
  OBVIOUS
<1>8. u \in Seq(S) /\ Len(u) = Len(s) /\ DOMAIN u = 1..Len(s) /\ \A i \in 1..Len(s) : u[i] = t[i + 1]
  BY <1>1, <1>7
<1>9. Distinct(u)
  <2>1. SUFFICES ASSUME NEW i \in 1..Len(s), NEW j \in 1..Len(s), t[i + 1] = t[j + 1] PROVE i = j
    BY <1>8 DEF Distinct
  <2>2. i + 1 \in DOMAIN t /\ j + 1 \in DOMAIN t
    BY <1>1
  <2>3. i + 1 = j + 1
    BY <1>4, <2>1, <2>2 DEF Distinct
  <2> QED
    BY <1>1, <2>3
<1>10. ToSet(u) = ToSet(t) \ {t[1]}
  <2>1. ASSUME NEW x \in ToSet(u) PROVE x \in ToSet(t) \ {t[1]}
    <3>1. PICK i \in 1..Len(s) : x = t[i + 1]
      BY <1>8 DEF ToSet
    <3>2. i + 1 \in DOMAIN t /\ 1 \in DOMAIN t /\ i + 1 # 1
      BY <1>1
    <3> QED
      BY <1>4, <3>1, <3>2 DEF Distinct, ToSet
  <2>2. ASSUME NEW x \in ToSet(t), x # t[1] PROVE x \in ToSet(u)
    <3>1. PICK i \in DOMAIN t : x = t[i]
      BY DEF ToSet
    <3>2. i # 1 /\ i - 1 \in 1..Len(s) /\ i - 1 + 1 = i
      BY <1>1, <2>2, <3>1
    <3>3. u[i - 1] = x /\ i - 1 \in DOMAIN u
      BY <1>8, <3>1, <3>2
    <3> QED
      BY <3>3 DEF ToSet
  <2> QED
    BY <2>1, <2>2
<1> QED
  BY <1>1, <1>4, <1>5, <1>6, <1>7, <1>8, <1>9, <1>10 DEF Appended

LEMMA ActionsStay == ASSUME ActionInv, UNCHANGED <<actions, callers>> PROVE ActionInv'
  BY DEF ActionInv, ActionsOK, RunsAreCounted, CallersOK

(* A request arrives, is refused or leaves the ones that wait.             *)
LEMMA InvokeKeeps == ASSUME ActionInv, NEW c \in Callers, NEW k \in Keys, Invoke(c, k) PROVE ActionInv'
<1>t. ActionsOK /\ RunsAreCounted /\ CallersOK
  BY DEF ActionInv
<1>1. PICK r : /\ callers' = [callers EXCEPT ![c] = r]
               /\ r.pc \in {"enter", "idle"} /\ r.key = k /\ r.answer \in {"none", "refused"}
               /\ r \in CallerType
  <2>r. /\ [pc |-> "enter", key |-> k, answer |-> "none"] \in CallerType
        /\ [pc |-> "idle", key |-> k, answer |-> "refused"] \in CallerType
    BY DEF CallerType
  <2>1. CASE callers' = [callers EXCEPT ![c] = [pc |-> "enter", key |-> k, answer |-> "none"]]
    BY <2>1, <2>r
  <2>2. CASE callers' = [callers EXCEPT ![c] = [pc |-> "idle", key |-> k, answer |-> "refused"]]
    BY <2>2, <2>r
  <2> QED
    BY <2>1, <2>2 DEF Invoke
<1>2. /\ callers' \in [Callers -> CallerType]
      /\ callers'[c] = r /\ \A d \in Callers \ {c} : callers'[d] = callers[d]
  BY <1>t, <1>1 DEF CallersOK
<1>3. /\ actions'.inflight = actions.inflight /\ actions'.completed = actions.completed
      /\ actions'.order = actions.order /\ actions'.runs = actions.runs
      /\ actions'.evicted = actions.evicted /\ actions'.outcomes = actions.outcomes
      /\ \E i, f, o, n, e, u, l :
            actions' = [inflight |-> i, completed |-> f, order |-> o, runs |-> n, evicted |-> e,
                        outcomes |-> u, left |-> l]
  BY <1>t DEF Invoke, ActionsOK
<1>4. ActionsOK' /\ RunsAreCounted'
  BY <1>t, <1>3 DEF ActionsOK, RunsAreCounted
<1>5. CallersOK'
  BY <1>t, <1>1, <1>2, <1>3 DEF CallersOK, Results
<1> QED
  BY <1>4, <1>5 DEF ActionInv

LEMMA CallerFields ==
    ASSUME CallersOK, NEW c \in Callers, NEW p \in {"idle", "enter", "wait", "run"},
           NEW a \in Results \cup {"none", "refused", "left"}, CallerGoes(c, p, a)
    PROVE  /\ callers' \in [Callers -> CallerType]
           /\ callers'[c].pc = p /\ callers'[c].key = callers[c].key /\ callers'[c].answer = a
           /\ \A d \in Callers \ {c} : callers'[d] = callers[d]
  BY DEF CallersOK, CallerType, CallerGoes

(* A caller is answered, waits or gives up; the handler stays as it is.    *)
LEMMA AnswerKeeps ==
    ASSUME ActionInv, NEW c \in Callers, callers[c].pc # "idle", UNCHANGED actions, NEW p \in {"idle", "wait"},
           NEW a \in Results \cup {"none", "refused", "left"}, CallerGoes(c, p, a),
           a \in Results => a \in actions.outcomes[callers[c].key]
    PROVE  ActionInv'
<1>t. ActionsOK /\ RunsAreCounted /\ CallersOK
  BY DEF ActionInv
<1>1. /\ callers' \in [Callers -> CallerType]
      /\ callers'[c].pc = p /\ callers'[c].key = callers[c].key /\ callers'[c].answer = a
      /\ \A d \in Callers \ {c} : callers'[d] = callers[d]
  BY <1>t, CallerFields
<1>2. ActionsOK' /\ RunsAreCounted'
  BY <1>t DEF ActionsOK, RunsAreCounted
<1>3. CallersOK'
  BY <1>t, <1>1 DEF CallersOK
<1> QED
  BY <1>2, <1>3 DEF ActionInv

LEMMA EnterKeeps == ASSUME ActionInv, NEW c \in Callers, Enter(c) PROVE ActionInv'
<1>t. ActionsOK /\ RunsAreCounted /\ CallersOK
  BY DEF ActionInv
<1>e. callers[c].pc = "enter"
  BY DEF Enter
<1>k. PICK k \in Keys : k = callers[c].key
  BY <1>t, <1>e DEF CallersOK
<1>1. CASE Place(k) = "answer" /\ CallerGoes(c, "idle", actions.completed[k]) /\ actions' = actions
  <2>1. k \in ToSet(actions.order)
    BY <1>1, <1>t DEF Place, ActionsOK
  <2>2. PICK a : a = actions.completed[k] /\ a \in actions.outcomes[k]
    BY <2>1, <1>t DEF RunsAreCounted
  <2>3. a \in Results
    BY <2>2, <1>t DEF ActionsOK
  <2> QED
    BY <1>1, <1>e, <1>k, <2>2, <2>3, AnswerKeeps
<1>2. CASE Place(k) = "wait" /\ CallerGoes(c, "wait", "none") /\ actions' = actions
  BY <1>2, <1>e, AnswerKeeps DEF Results
<1>3. CASE Place(k) = "run" /\ CallerGoes(c, "run", "none")
           /\ actions' = [actions EXCEPT !.inflight = @ \cup {k}, !.runs[k] = @ + 1]
  <2>1. k \notin ToSet(actions.order) /\ k \notin actions.inflight
    BY <1>3, <1>t DEF Place, ActionsOK
  <2>2. /\ callers' \in [Callers -> CallerType]
        /\ callers'[c].pc = "run" /\ callers'[c].key = k /\ callers'[c].answer = "none"
        /\ \A d \in Callers \ {c} : callers'[d] = callers[d]
    BY <1>3, <1>t, <1>k, CallerFields
  <2>3. /\ actions'.inflight = actions.inflight \cup {k} /\ actions'.completed = actions.completed
        /\ actions'.order = actions.order /\ actions'.runs = [actions.runs EXCEPT ![k] = @ + 1]
        /\ actions'.evicted = actions.evicted /\ actions'.outcomes = actions.outcomes
        /\ \E i, f, o, n, e, u, l :
              actions' = [inflight |-> i, completed |-> f, order |-> o, runs |-> n, evicted |-> e,
                          outcomes |-> u, left |-> l]
    BY <1>3, <1>t DEF ActionsOK
  <2>4. ActionsOK'
    <3>1. actions'.inflight \subseteq Keys
      BY <1>t, <2>3 DEF ActionsOK
    <3>2. actions'.runs \in [Keys -> Nat]
      <4>1. actions.runs \in [Keys -> Nat]
        BY <1>t DEF ActionsOK
      <4> QED
        BY <2>3, <4>1
    <3> QED
      BY <1>t, <2>3, <3>1, <3>2 DEF ActionsOK
  <2>5. RunsAreCounted'
    <3>1. SUFFICES ASSUME NEW x \in Keys
                   PROVE  /\ x \in actions'.inflight => x \notin ToSet(actions.order)
                          /\ actions'.runs[x] = actions.evicted[x]
                                + IF x \in actions'.inflight \cup ToSet(actions.order) THEN 1 ELSE 0
                          /\ x \in ToSet(actions.order) => actions.completed[x] \in actions.outcomes[x]
      BY <2>3 DEF RunsAreCounted
    <3>2. CASE x = k
      BY <3>2, <1>t, <2>1, <2>3 DEF RunsAreCounted, ActionsOK
    <3>3. CASE x # k
      BY <3>3, <1>t, <2>3 DEF RunsAreCounted, ActionsOK
    <3> QED
      BY <3>2, <3>3
  <2>6. CallersOK'
    BY <1>t, <2>1, <2>2, <2>3 DEF CallersOK, Results
  <2> QED
    BY <2>4, <2>5, <2>6 DEF ActionInv
<1> QED
  BY <1>1, <1>2, <1>3, <1>k DEF Enter, Place

LEMMA LeavesKeeps == ASSUME ActionInv, NEW c \in Callers, WaiterLeaves(c) PROVE ActionInv'
  BY AnswerKeeps DEF WaiterLeaves, Results

RanResults(k, err) == [x \in {k} \cup DOMAIN actions.completed |-> IF x = k THEN err ELSE actions.completed[x]]
RanEvicted(order) == [actions.evicted EXCEPT ![order[1]] = @ + 1]
RanActions(order, k, err) ==
    [actions EXCEPT
        !.inflight = @ \ {k}, !.outcomes[k] = @ \cup {err},
        !.order = IF Len(order) > CacheLimit THEN Tail(order) ELSE order,
        !.completed = IF Len(order) > CacheLimit
                      THEN [x \in DOMAIN RanResults(k, err) \ {order[1]} |-> RanResults(k, err)[x]]
                      ELSE RanResults(k, err),
        !.evicted = IF Len(order) > CacheLimit THEN RanEvicted(order) ELSE @]
RanCallers(c, k, err) ==
    [x \in Callers |->
        IF x = c \/ (callers[x].pc = "wait" /\ callers[x].key = k)
        THEN [callers[x] EXCEPT !.pc = "idle", !.answer = err] ELSE callers[x]]

LEMMA FinishKeeps == ASSUME ActionInv, CacheLimit \in Nat, NEW c \in Callers, Finish(c) PROVE ActionInv'
<1>t. ActionsOK /\ RunsAreCounted /\ CallersOK
  BY DEF ActionInv
<1>e. callers[c].pc = "run"
  BY DEF Finish
<1>k. PICK k \in Keys : k = callers[c].key /\ k \in actions.inflight /\ k \notin ToSet(actions.order)
  BY <1>t, <1>e DEF CallersOK, RunsAreCounted
<1>o. PICK order : order = Append(actions.order, k)
  OBVIOUS
<1>1. /\ order \in Seq(Keys) /\ Distinct(order) /\ ToSet(order) = ToSet(actions.order) \cup {k}
      /\ Len(order) = Len(actions.order) + 1 /\ order[1] \in ToSet(order)
      /\ Tail(order) \in Seq(Keys) /\ Distinct(Tail(order)) /\ ToSet(Tail(order)) = ToSet(order) \ {order[1]}
      /\ Len(Tail(order)) = Len(actions.order)
  <2>1. actions.order \in Seq(Keys) /\ Distinct(actions.order)
    BY <1>t DEF ActionsOK
  <2>2. PICK s \in Seq(Keys) : s = actions.order
    BY <2>1
  <2>3. Distinct(s) /\ k \notin ToSet(s) /\ order = Append(s, k)
    BY <1>k, <1>o, <2>1, <2>2
  <2>4. Appended(Keys, s, k, order)
    BY <1>k, <2>2, <2>3, NewestAndOldest
  <2> QED
    BY <2>2, <2>4 DEF Appended
<1>2. PICK err \in Results : actions' = RanActions(order, k, err) /\ callers' = RanCallers(c, k, err)
  <2>1. \E err \in Results : /\ actions' = RanActions(Append(actions.order, callers[c].key), callers[c].key, err)
                            /\ callers' = RanCallers(c, callers[c].key, err)
    BY DEF Finish, Results, RanActions, RanEvicted, RanCallers, RanResults
  <2> QED
    BY <1>k, <1>o, <2>1
<1>3. PICK completed : completed = RanResults(k, err)
  OBVIOUS
<1>4. /\ DOMAIN completed = ToSet(order) /\ completed[k] = err
      /\ \A x \in ToSet(actions.order) : completed[x] = actions.completed[x]
  BY <1>1, <1>3, <1>k, <1>t DEF ActionsOK, RanResults
<1>5. /\ actions'.order = IF Len(order) > CacheLimit THEN Tail(order) ELSE order
      /\ actions'.completed = IF Len(order) > CacheLimit
                               THEN [x \in DOMAIN completed \ {order[1]} |-> completed[x]] ELSE completed
      /\ actions'.evicted = IF Len(order) > CacheLimit
                             THEN [actions.evicted EXCEPT ![order[1]] = @ + 1] ELSE actions.evicted
  <2>1. PICK i, f, o, n, e, u, l :
          actions = [inflight |-> i, completed |-> f, order |-> o, runs |-> n, evicted |-> e,
                     outcomes |-> u, left |-> l]
    BY <1>t DEF ActionsOK
  <2>2. actions'.order = IF Len(order) > CacheLimit THEN Tail(order) ELSE order
    BY <1>2, <2>1 DEF RanActions
  <2>3. actions'.completed = IF Len(order) > CacheLimit
                             THEN [x \in DOMAIN RanResults(k, err) \ {order[1]} |-> RanResults(k, err)[x]]
                             ELSE RanResults(k, err)
    BY <1>2, <2>1 DEF RanActions
  <2>4. actions'.evicted = IF Len(order) > CacheLimit
                           THEN [actions.evicted EXCEPT ![order[1]] = @ + 1] ELSE actions.evicted
    BY <1>2, <2>1 DEF RanActions, RanEvicted
  <2> QED
    BY <1>3, <2>2, <2>3, <2>4

<1>6. /\ actions'.inflight = actions.inflight \ {k} /\ actions'.runs = actions.runs
       /\ actions'.outcomes = [actions.outcomes EXCEPT ![k] = @ \cup {err}]
       /\ \E i1, f1, o1, n1, e1, u1, l1 :
             actions' = [inflight |-> i1, completed |-> f1, order |-> o1, runs |-> n1, evicted |-> e1,
                         outcomes |-> u1, left |-> l1]
  <2>1. PICK i, f, o, n, e, u, l :
          actions = [inflight |-> i, completed |-> f, order |-> o, runs |-> n, evicted |-> e,
                     outcomes |-> u, left |-> l]
    BY <1>t DEF ActionsOK
  <2>2. actions'.inflight = i \ {k}
    BY <1>2, <2>1 DEF RanActions
  <2>3. actions'.runs = n
    BY <1>2, <2>1 DEF RanActions
  <2>4. actions'.outcomes = [u EXCEPT ![k] = @ \cup {err}]
    BY <1>2, <2>1 DEF RanActions
  <2>5. actions' = [inflight |-> i \ {k},
                    completed |-> IF Len(order) > CacheLimit
                                  THEN [x \in DOMAIN RanResults(k, err) \ {order[1]} |-> RanResults(k, err)[x]]
                                  ELSE RanResults(k, err),
                    order |-> IF Len(order) > CacheLimit THEN Tail(order) ELSE order, runs |-> n,
                    evicted |-> IF Len(order) > CacheLimit THEN RanEvicted(order) ELSE e,
                    outcomes |-> [u EXCEPT ![k] = @ \cup {err}], left |-> l]
    BY <1>2, <2>1 DEF RanActions
  <2> QED
    BY <2>1, <2>2, <2>3, <2>4, <2>5
<1>7. \A y \in Keys : actions'.outcomes[y] = IF y = k THEN actions.outcomes[y] \cup {err} ELSE actions.outcomes[y]
  BY <1>6, <1>t DEF ActionsOK
<1>8. actions'.outcomes \in [Keys -> SUBSET Results]
  BY <1>6, <1>t DEF ActionsOK
<1>9. PICK gone \in SUBSET ToSet(order) :
        /\ actions'.order \in Seq(Keys) /\ Distinct(actions'.order) /\ Len(actions'.order) <= CacheLimit
        /\ ToSet(actions'.order) = ToSet(order) \ gone
        /\ DOMAIN actions'.completed = ToSet(order) \ gone
        /\ \A y \in ToSet(order) \ gone : actions'.completed[y] = completed[y]
        /\ actions'.evicted \in [Keys -> Nat]
        /\ \A y \in Keys : actions'.evicted[y] = actions.evicted[y] + IF y \in gone THEN 1 ELSE 0
  <2>1. order[1] \in Keys /\ order[1] \in ToSet(order)
    BY <1>1 DEF ToSet
  <2>2. Len(actions.order) \in Nat /\ Len(actions.order) <= CacheLimit
    BY <1>t DEF ActionsOK
  <2>3. actions.evicted \in [Keys -> Nat]
    BY <1>t DEF ActionsOK
  <2>4. CASE Len(order) > CacheLimit
    <3>1. /\ actions'.order = Tail(order)
          /\ actions'.completed = [y \in DOMAIN completed \ {order[1]} |-> completed[y]]
          /\ actions'.evicted = [actions.evicted EXCEPT ![order[1]] = @ + 1]
      BY <1>5, <2>4
    <3>2. /\ ToSet(Tail(order)) = ToSet(order) \ {order[1]} /\ Tail(order) \in Seq(Keys) /\ Distinct(Tail(order))
          /\ Len(Tail(order)) <= CacheLimit
      BY <1>1, <2>1, <2>2
    <3>3. DOMAIN actions'.completed = ToSet(order) \ {order[1]}
      BY <1>4, <3>1
    <3>4. \A y \in ToSet(order) \ {order[1]} : actions'.completed[y] = completed[y]
      BY <1>4, <3>1
    <3>5. actions'.evicted \in [Keys -> Nat]
      BY <2>1, <2>3, <3>1
    <3>6. \A y \in Keys : actions'.evicted[y] = actions.evicted[y] + IF y \in {order[1]} THEN 1 ELSE 0
      BY <2>3, <3>1
    <3>7. {order[1]} \in SUBSET ToSet(order)
      BY <2>1
    <3> QED
      BY <3>1, <3>2, <3>3, <3>4, <3>5, <3>6, <3>7
  <2>5. CASE ~(Len(order) > CacheLimit)
    <3>1. actions'.order = order /\ actions'.completed = completed /\ actions'.evicted = actions.evicted
      BY <1>5, <2>5
    <3>2. Len(order) <= CacheLimit
      BY <1>1, <2>2, <2>5
    <3>3. \A y \in Keys : actions'.evicted[y] = actions.evicted[y] + IF y \in {} THEN 1 ELSE 0
      BY <2>3, <3>1
    <3>4. ToSet(order) \ {} = ToSet(order) /\ {} \in SUBSET ToSet(order)
      OBVIOUS
    <3> QED
      BY <1>1, <1>4, <2>3, <3>1, <3>2, <3>3, <3>4
  <2> QED
    BY <2>4, <2>5
<1>10. ActionsOK'
  BY <1>t, <1>6, <1>8, <1>9 DEF ActionsOK
<1>11. RunsAreCounted'
  <2>1. SUFFICES ASSUME NEW y \in Keys
                 PROVE  /\ y \in actions'.inflight => y \notin ToSet(actions'.order)
                        /\ actions'.runs[y] = actions'.evicted[y]
                              + IF y \in actions'.inflight \cup ToSet(actions'.order) THEN 1 ELSE 0
                        /\ y \in ToSet(actions'.order) => actions'.completed[y] \in actions'.outcomes[y]
    BY DEF RunsAreCounted
  <2>2. actions.evicted[y] \in Nat
    BY <1>t DEF ActionsOK
  <2>3. /\ y \in actions.inflight => y \notin ToSet(actions.order)
        /\ actions.runs[y] = actions.evicted[y] + IF y \in actions.inflight \cup ToSet(actions.order) THEN 1 ELSE 0
        /\ y \in ToSet(actions.order) => actions.completed[y] \in actions.outcomes[y]
    BY <1>t DEF RunsAreCounted
  <2>4. y \in ToSet(actions'.order) <=> y \in ToSet(order) /\ y \notin gone
    BY <1>9
  <2>5. y \in ToSet(order) <=> y = k \/ y \in ToSet(actions.order)
    BY <1>1
  <2>6. y \in actions'.inflight <=> y # k /\ y \in actions.inflight
    BY <1>6
  <2>7. y \in gone => y \in ToSet(order)
    BY <1>9
  <2>8. actions'.evicted[y] = actions.evicted[y] + IF y \in gone THEN 1 ELSE 0
    BY <1>9
  <2>9. actions'.runs[y] = actions'.evicted[y]
                              + IF y \in actions'.inflight \cup ToSet(actions'.order) THEN 1 ELSE 0
    BY <1>6, <1>k, <2>2, <2>3, <2>4, <2>5, <2>6, <2>7, <2>8
  <2>10. y \in ToSet(actions'.order) => actions'.completed[y] = completed[y]
    BY <1>9
  <2>11. y \in ToSet(actions'.order) => actions'.completed[y] \in actions'.outcomes[y]
    BY <1>4, <1>7, <2>3, <2>4, <2>5, <2>10
  <2>12. y \in actions'.inflight => y \notin ToSet(actions'.order)
    BY <2>3, <2>4, <2>5, <2>6
  <2> QED
    BY <2>9, <2>11, <2>12
<1>12. /\ callers' \in [Callers -> CallerType]
       /\ \A d \in Callers :
             \/ /\ callers'[d].pc = "idle" /\ callers'[d].answer = err
                /\ callers'[d].key = callers[d].key
                /\ callers[d].key = k
             \/ callers'[d] = callers[d] /\ d # c
  BY <1>2, <1>t, <1>k DEF CallersOK, CallerType, RanCallers
<1>13. CallersOK'
  <2>1. ASSUME NEW d \in Callers
        PROVE  /\ callers'[d].pc # "idle" => callers'[d].key \in Keys
               /\ callers'[d].pc = "run" => callers'[d].key \in actions'.inflight
               /\ callers'[d].answer \in Results =>
                     callers'[d].key \in Keys /\ callers'[d].answer \in actions'.outcomes[callers'[d].key]
    <3>1. CASE callers'[d].pc = "idle" /\ callers'[d].answer = err /\ callers'[d].key = callers[d].key
               /\ callers[d].key = k
      BY <3>1, <1>7, <1>k
    <3>2. CASE callers'[d] = callers[d] /\ d # c
      <4>1. callers[d].pc = "run" => callers[d].key # k
        BY <1>e, <1>k, <1>t, <3>2 DEF CallersOK
      <4>2. callers[d].pc = "run" => callers[d].key \in actions'.inflight
        BY <1>t, <1>6, <4>1 DEF CallersOK
      <4>3. callers[d].answer \in Results =>
                     callers[d].key \in Keys /\ callers[d].answer \in actions'.outcomes[callers[d].key]
        BY <1>t, <1>7 DEF CallersOK
      <4> QED
        BY <1>t, <3>2, <4>2, <4>3 DEF CallersOK
    <3> QED
      BY <1>12, <3>1, <3>2
  <2>2. ASSUME NEW d \in Callers, NEW e \in Callers,
               callers'[d].pc = "run", callers'[e].pc = "run", callers'[d].key = callers'[e].key
        PROVE  d = e
    BY <2>2, <1>12, <1>t DEF CallersOK
  <2> QED
    BY <1>12, <2>1, <2>2 DEF CallersOK
<1> QED
  BY <1>10, <1>11, <1>13 DEF ActionInv

LEMMA ActionStep == ASSUME ActionInv, CacheLimit \in Nat, LiveNext PROVE ActionInv'
<1>1. ASSUME NEW c \in Callers, NEW k \in Keys, Invoke(c, k) PROVE ActionInv'
  BY <1>1, InvokeKeeps
<1>2. ASSUME NEW c \in Callers, Enter(c) \/ Finish(c) \/ WaiterLeaves(c) PROVE ActionInv'
  BY <1>2, EnterKeeps, FinishKeeps, LeavesKeeps
<1>3. ASSUME NEW o \in Observers, ReadKey(o) \/ Lock(o) \/ Probe(o) \/ ObserverAgain(o)
      PROVE  UNCHANGED <<actions, callers>>
  BY <1>3 DEF ReadKey, Lock, Probe, ObserverAgain
<1>4. ASSUME CacheExpires \/ (\E s \in AISettings : SettingsChange(s)) PROVE UNCHANGED <<actions, callers>>
  BY <1>4 DEF CacheExpires, SettingsChange
<1>5. ASSUME JobAppends \/ Connect \/ ListEvents \/ ReadJob \/ Disconnect PROVE UNCHANGED <<actions, callers>>
  BY <1>5 DEF JobAppends, Connect, ListEvents, ReadJob, Disconnect
<1> QED
  BY <1>1, <1>2, <1>3, <1>4, <1>5, ActionsStay DEF LiveNext

LEMMA ActionStart == ASSUME LiveInit, CacheLimit \in Nat PROVE ActionInv
<1>1. \E n : actions = [inflight |-> {}, completed |-> <<>>, order |-> <<>>, runs |-> [k \in Keys |-> 0],
                        evicted |-> [k \in Keys |-> 0], outcomes |-> [k \in Keys |-> {}], left |-> n]
  BY DEF LiveInit, ActionsInit, ProviderInit, StreamInit, NoActions
<1>2. callers = [c \in Callers |-> Caller]
  BY DEF LiveInit, ActionsInit, ProviderInit, StreamInit
<1>n. PICK n : actions = [inflight |-> {}, completed |-> <<>>, order |-> <<>>, runs |-> [k \in Keys |-> 0],
                        evicted |-> [k \in Keys |-> 0], outcomes |-> [k \in Keys |-> {}], left |-> n]
  BY <1>1
<1>s. \E i, c, o, r, e, u, l :
         actions = [inflight |-> i, completed |-> c, order |-> o, runs |-> r, evicted |-> e,
                    outcomes |-> u, left |-> l]
  BY <1>n
<1>3. /\ actions.inflight = {} /\ actions.completed = <<>> /\ actions.order = <<>>
      /\ actions.runs = [k \in Keys |-> 0] /\ actions.evicted = [k \in Keys |-> 0]
      /\ actions.outcomes = [k \in Keys |-> {}]
  BY <1>n
<1>4. <<>> \in Seq(Keys) /\ Len(<<>>) = 0 /\ DOMAIN <<>> = {}
  OBVIOUS
<1>5. ToSet(<<>>) = {} /\ Distinct(<<>>)
  BY <1>4 DEF ToSet, Distinct
<1>6. ActionsOK
  <2>1. /\ actions.runs \in [Keys -> Nat] /\ actions.evicted \in [Keys -> Nat]
        /\ actions.outcomes \in [Keys -> SUBSET Results]
    BY <1>3
  <2>2. Len(actions.order) <= CacheLimit
    BY <1>3, <1>4
  <2> QED
    BY <1>s, <1>3, <1>4, <1>5, <2>1, <2>2 DEF ActionsOK
<1>7. RunsAreCounted
  BY <1>3, <1>5 DEF RunsAreCounted
<1>8. CallersOK
  BY <1>2 DEF CallersOK, CallerType, Caller, Results
<1> QED
  BY <1>6, <1>7, <1>8 DEF ActionInv

LEMMA ActionsAgree == ASSUME ActionInv PROVE KeyRunsOnce
<1>1. \A k \in Keys : actions.runs[k] <= 1 + actions.evicted[k]
  <2>1. ASSUME NEW k \in Keys PROVE actions.runs[k] <= 1 + actions.evicted[k]
    <3>1. actions.evicted[k] \in Nat
      BY DEF ActionInv, ActionsOK
    <3>2. actions.runs[k] = actions.evicted[k] + 1 \/ actions.runs[k] = actions.evicted[k] + 0
      BY DEF ActionInv, RunsAreCounted
    <3> QED
      BY <3>1, <3>2
  <2> QED
    BY <2>1
<1>2. DOMAIN actions.completed = ToSet(actions.order) /\ Len(actions.order) <= CacheLimit
  BY DEF ActionInv, ActionsOK
<1>3. \A c \in Callers : callers[c].answer \in {"ok", "failed", "canceled"} =>
                            callers[c].answer \in actions.outcomes[callers[c].key]
  BY DEF ActionInv, CallersOK, Results
<1> QED
  BY <1>1, <1>2, <1>3 DEF KeyRunsOnce

(***************************************************************************)
(* Requests that share state: the AI provider's capability.                *)
(***************************************************************************)

(* An observer under way has the key of the settings it read, which are    *)
(* still the settings unless they were changed meanwhile.                  *)
Describes(answer, asked) ==
    asked.readable => answer.of.readable /\ answer.of.config = asked.config /\ answer.of.source = asked.source
ObserverOK(r) ==
    /\ \E p, k, s, a : r = [pc |-> p, key |-> k, seen |-> s, answer |-> a]
    /\ r.pc # "idle" =>
          \E s : r.seen = <<s>> /\ r.key = configurationKey(s) /\ (~ai.raced => ai.settings = s)
    /\ ~ai.raced /\ r.seen # <<>> /\ r.answer # <<>> => Describes(r.answer[1], r.seen[1])

(* What is cached under a key is of settings with that key.                *)
CacheOK ==
    /\ \E l, k, f, v : aiCache = [lock |-> l, key |-> k, fresh |-> f, value |-> v]
    /\ ~ai.raced /\ aiCache.key # <<>> =>
          aiCache.value.of.readable /\ configurationKey(aiCache.value.of) = aiCache.key

ProviderInv ==
    /\ observers = [o \in Observers |-> observers[o]]
    /\ \A o \in Observers : ObserverOK(observers[o])
    /\ CacheOK
    /\ \E s, n, r : ai = [settings |-> s, changes |-> n, raced |-> r]

LEMMA ProviderStays == ASSUME ProviderInv, UNCHANGED <<aiCache, observers, ai>> PROVE ProviderInv'
  BY DEF ProviderInv, ObserverOK, CacheOK

LEMMA KeyTells ==
    ASSUME NEW s, NEW v, configurationKey(s) # <<>>, v.of.readable, configurationKey(v.of) = configurationKey(s)
    PROVE  Describes(v, s)
<1>1. s.readable /\ configurationKey(s) = <<s.config, s.source>>
  BY DEF configurationKey
<1>2. configurationKey(v.of) = <<v.of.config, v.of.source>>
  BY DEF configurationKey
<1> QED
  BY <1>1, <1>2 DEF Describes

LEMMA ObserverMoves ==
    ASSUME ProviderInv, NEW o \in Observers, NEW r, ObserverOK(r), observers' = [observers EXCEPT ![o] = r],
           UNCHANGED ai, CacheOK'
    PROVE  ProviderInv'
<1>1. observers' = [p \in Observers |-> IF p = o THEN r ELSE observers[p]]
  BY DEF ProviderInv
<1>2. ASSUME NEW p \in Observers PROVE ObserverOK(observers[p])'
  <2>1. PICK q : q = observers'[p] /\ ObserverOK(q)
    BY <1>1 DEF ProviderInv
  <2> QED
    BY <2>1 DEF ObserverOK
<1>3. observers' = [p \in Observers |-> observers'[p]]
  BY <1>1
<1> QED
  BY <1>2, <1>3 DEF ProviderInv

LEMMA AnswerFits ==
    ASSUME NEW k, NEW asked, NEW v, ~ai.raced => Describes(v, asked),
           NEW r, r = [pc |-> "idle", key |-> k, seen |-> <<asked>>, answer |-> <<v>>]
    PROVE  ObserverOK(r)
<1>1. r.pc = "idle" /\ r.seen = <<asked>> /\ r.answer = <<v>>
  OBVIOUS
<1>2. r.seen[1] = asked /\ r.answer[1] = v
  BY <1>1
<1>3. \E p, l, s, a : r = [pc |-> p, key |-> l, seen |-> s, answer |-> a]
  OBVIOUS
<1> QED
  BY <1>1, <1>2, <1>3 DEF ObserverOK

LEMMA ReadKeyKeeps == ASSUME ProviderInv, NEW o \in Observers, ReadKey(o) PROVE ProviderInv'
<1>1. PICK r : r = [pc |-> "lock", key |-> configurationKey(ai.settings), seen |-> <<ai.settings>>, answer |-> <<>>]
  OBVIOUS
<1>2. ObserverOK(r)
  BY <1>1 DEF ObserverOK
<1>3. CacheOK'
  BY DEF ProviderInv, CacheOK, ReadKey
<1> QED
  BY <1>1, <1>2, <1>3, ObserverMoves DEF ReadKey

(* An observer is answered from the cache, or with what it has probed.     *)
LEMMA AnsweredFromCache ==
    ASSUME ProviderInv, NEW o \in Observers, observers[o].pc # "idle",
           observers[o].key # <<>>, observers[o].key = aiCache.key
    PROVE  ObserverOK([observers[o] EXCEPT !.pc = "idle", !.answer = <<aiCache.value>>])
<1>1. ObserverOK(observers[o]) /\ CacheOK
  BY DEF ProviderInv
<1>2. PICK p, k, s, a : observers[o] = [pc |-> p, key |-> k, seen |-> s, answer |-> a]
  BY <1>1 DEF ObserverOK
<1>r. PICK r : r = [observers[o] EXCEPT !.pc = "idle", !.answer = <<aiCache.value>>]
  OBVIOUS
<1>3. r = [pc |-> "idle", key |-> k, seen |-> s, answer |-> <<aiCache.value>>]
  <2>1. PICK t : t = [observers[o] EXCEPT !.pc = "idle"]
    OBVIOUS
  <2>2. t = [pc |-> "idle", key |-> k, seen |-> s, answer |-> a]
    BY <1>2, <2>1
  <2>3. r = [t EXCEPT !.answer = <<aiCache.value>>]
    BY <1>r, <2>1
  <2> QED
    BY <2>2, <2>3
<1>4. PICK asked : s = <<asked>> /\ k = configurationKey(asked)
  BY <1>1, <1>2 DEF ObserverOK
<1>5. ~ai.raced => Describes(aiCache.value, asked)
  BY <1>1, <1>2, <1>4, KeyTells DEF CacheOK
<1>6. ObserverOK(r)
  BY <1>3, <1>4, <1>5, AnswerFits
<1> QED
  BY <1>r, <1>6

LEMMA LockKeeps == ASSUME ProviderInv, NEW o \in Observers, Lock(o) PROVE ProviderInv'
<1>1. ObserverOK(observers[o]) /\ CacheOK /\ observers[o].pc = "lock"
  BY DEF ProviderInv, Lock
<1>2. CASE Served(o)
  <2>1. PICK r : r = [observers[o] EXCEPT !.pc = "idle", !.answer = <<aiCache.value>>] /\ ObserverOK(r)
    BY <1>1, <1>2, AnsweredFromCache DEF Served
  <2>2. observers' = [observers EXCEPT ![o].pc = "idle", ![o].answer = <<aiCache.value>>] /\ aiCache' = aiCache /\ ai' = ai
    BY <1>2 DEF Lock
  <2>3. observers' = [observers EXCEPT ![o] = r]
    BY <2>1, <2>2 DEF ProviderInv
  <2>4. CacheOK'
    BY <1>1, <2>2 DEF CacheOK
  <2> QED
    BY <2>1, <2>2, <2>3, <2>4, ObserverMoves
<1>3. CASE ~Served(o)
  <2>1. PICK r : r = [observers[o] EXCEPT !.pc = "probe"]
    OBVIOUS
  <2>2. ObserverOK(r)
    <3>1. PICK p, k, s, a : observers[o] = [pc |-> p, key |-> k, seen |-> s, answer |-> a]
      BY <1>1 DEF ObserverOK
    <3>2. r = [pc |-> "probe", key |-> k, seen |-> s, answer |-> a]
      BY <2>1, <3>1
    <3>3. r.pc # "idle" /\ r.key = observers[o].key /\ r.seen = observers[o].seen /\ r.answer = observers[o].answer
      BY <3>1, <3>2
    <3>4. \E q, l, t, b : r = [pc |-> q, key |-> l, seen |-> t, answer |-> b]
      BY <3>2
    <3> QED
      BY <1>1, <3>3, <3>4 DEF ObserverOK
  <2>3. observers' = [observers EXCEPT ![o] = r] /\ aiCache' = [aiCache EXCEPT !.lock = o] /\ ai' = ai
    BY <1>3, <2>1 DEF Lock
  <2>4. CacheOK'
    <3>1. PICK l, k, f, v : aiCache = [lock |-> l, key |-> k, fresh |-> f, value |-> v]
      BY <1>1 DEF CacheOK
    <3>2. aiCache' = [lock |-> o, key |-> k, fresh |-> f, value |-> v]
      BY <2>3, <3>1
    <3> QED
      BY <1>1, <2>3, <3>1, <3>2 DEF CacheOK
  <2> QED
    BY <2>2, <2>3, <2>4, ObserverMoves
<1> QED
  BY <1>2, <1>3

LEMMA ProbeKeeps == ASSUME ProviderInv, NEW o \in Observers, Probe(o) PROVE ProviderInv'
<1>1. ObserverOK(observers[o]) /\ CacheOK /\ observers[o].pc = "probe" /\ ai' = ai
  BY DEF ProviderInv, Probe
<1>2. PICK late \in BOOLEAN, state \in {"available", "unavailable"} :
        LET value == [of |-> ai.settings, state |-> IF late THEN "unavailable" ELSE state]
            known == late /\ observers[o].key # <<>> /\ observers[o].key = aiCache.key
        IN /\ observers' = [observers EXCEPT ![o].pc = "idle", ![o].answer = IF known THEN <<aiCache.value>> ELSE <<value>>]
           /\ aiCache' = IF known THEN [aiCache EXCEPT !.lock = 0]
                         ELSE [lock |-> 0, key |-> observers[o].key, fresh |-> TRUE, value |-> value]
  BY DEF Probe
<1>3. PICK value : value.of = ai.settings /\ value = [of |-> ai.settings, state |-> IF late THEN "unavailable" ELSE state]
  OBVIOUS
<1>4. PICK l, f, c, v : aiCache = [lock |-> l, key |-> f, fresh |-> c, value |-> v]
  BY <1>1 DEF CacheOK
<1>5. PICK p, k, s, a : observers[o] = [pc |-> p, key |-> k, seen |-> s, answer |-> a]
  BY <1>1 DEF ObserverOK
<1>6. PICK asked : s = <<asked>> /\ k = configurationKey(asked) /\ (~ai.raced => ai.settings = asked)
  BY <1>1, <1>5 DEF ObserverOK
<1>7. CASE late /\ observers[o].key # <<>> /\ observers[o].key = aiCache.key
  <2>1. PICK r : r = [observers[o] EXCEPT !.pc = "idle", !.answer = <<aiCache.value>>] /\ ObserverOK(r)
    BY <1>1, <1>7, AnsweredFromCache
  <2>2. observers' = [observers EXCEPT ![o].pc = "idle", ![o].answer = <<aiCache.value>>] /\ aiCache' = [aiCache EXCEPT !.lock = 0]
    BY <1>2, <1>7
  <2>3. observers' = [observers EXCEPT ![o] = r]
    BY <2>1, <2>2 DEF ProviderInv
  <2>4. aiCache' = [lock |-> 0, key |-> f, fresh |-> c, value |-> v]
    BY <1>4, <2>2
  <2>5. CacheOK'
    BY <1>1, <1>4, <2>4 DEF CacheOK
  <2> QED
    BY <1>1, <2>1, <2>3, <2>5, ObserverMoves
<1>8. CASE ~(late /\ observers[o].key # <<>> /\ observers[o].key = aiCache.key)
  <2>r. PICK r : r = [observers[o] EXCEPT !.pc = "idle", !.answer = <<value>>]
    OBVIOUS
  <2>1. r = [pc |-> "idle", key |-> k, seen |-> s, answer |-> <<value>>]
    <3>1. PICK t : t = [observers[o] EXCEPT !.pc = "idle"]
      OBVIOUS
    <3>2. t = [pc |-> "idle", key |-> k, seen |-> s, answer |-> a]
      BY <1>5, <3>1
    <3>3. r = [t EXCEPT !.answer = <<value>>]
      BY <2>r, <3>1
    <3> QED
      BY <3>2, <3>3
  <2>2. /\ observers' = [observers EXCEPT ![o].pc = "idle", ![o].answer = <<value>>]
        /\ aiCache' = [lock |-> 0, key |-> observers[o].key, fresh |-> TRUE, value |-> value]
    BY <1>2, <1>3, <1>8
  <2>3. observers' = [observers EXCEPT ![o] = r]
    BY <2>r, <2>2 DEF ProviderInv
  <2>4. ObserverOK(r)
    <3>1. ~ai.raced => Describes(value, asked)
      BY <1>3, <1>6 DEF Describes
    <3> QED
      BY <1>6, <2>1, <3>1, AnswerFits
  <2>5. CacheOK'
    <3>1. aiCache'.key = configurationKey(asked) /\ aiCache'.value = value
      BY <1>5, <1>6, <2>2
    <3>2. configurationKey(asked) # <<>> => asked.readable
      BY DEF configurationKey
    <3>3. \E l1, k1, f1, v1 : aiCache' = [lock |-> l1, key |-> k1, fresh |-> f1, value |-> v1]
      BY <2>2
    <3> QED
      BY <1>1, <1>3, <1>6, <3>1, <3>2, <3>3 DEF CacheOK, configurationKey
  <2> QED
    BY <1>1, <2>3, <2>4, <2>5, ObserverMoves
<1> QED
  BY <1>7, <1>8

LEMMA AgainKeeps == ASSUME ProviderInv, NEW o \in Observers, ObserverAgain(o) PROVE ProviderInv'
<1>1. ObserverOK(Observer)
  BY DEF ObserverOK, Observer
<1>2. CacheOK'
  BY DEF ProviderInv, CacheOK, ObserverAgain
<1> QED
  BY <1>1, <1>2, ObserverMoves DEF ObserverAgain

LEMMA ExpiresKeeps == ASSUME ProviderInv, CacheExpires PROVE ProviderInv'
<1>1. PICK l, k, f, v : aiCache = [lock |-> l, key |-> k, fresh |-> f, value |-> v]
  BY DEF ProviderInv, CacheOK
<1>2. aiCache' = [lock |-> l, key |-> k, fresh |-> FALSE, value |-> v]
  BY <1>1 DEF CacheExpires
<1>3. CacheOK'
  BY <1>1, <1>2 DEF ProviderInv, CacheOK, CacheExpires
<1> QED
  BY <1>3 DEF ProviderInv, ObserverOK, CacheExpires

LEMMA ChangeKeeps == ASSUME ProviderInv, NEW s \in AISettings, SettingsChange(s) PROVE ProviderInv'
<1>1. /\ ai'.settings = s /\ (ai'.raced <=> ai.raced \/ InObservation)
      /\ \E t, n, r : ai' = [settings |-> t, changes |-> n, raced |-> r]
      /\ aiCache' = aiCache /\ observers' = observers
  BY DEF SettingsChange
<1>2. CacheOK'
  BY <1>1 DEF ProviderInv, CacheOK
<1>3. ASSUME NEW o \in Observers PROVE ObserverOK(observers[o])'
  <2>1. ObserverOK(observers[o])
    BY DEF ProviderInv
  <2>2. observers[o].pc # "idle" => ai'.raced
    BY <1>1 DEF InObservation
  <2> QED
    BY <1>1, <2>1, <2>2 DEF ObserverOK
<1> QED
  BY <1>1, <1>2, <1>3 DEF ProviderInv

LEMMA CapabilityStep == ASSUME ProviderInv, LiveNext PROVE ProviderInv'
<1>1. ASSUME NEW c \in Callers, (\E k \in Keys : Invoke(c, k)) \/ Enter(c) \/ Finish(c) \/ WaiterLeaves(c)
      PROVE  UNCHANGED <<aiCache, observers, ai>>
  BY <1>1 DEF Invoke, Enter, Finish, WaiterLeaves
<1>2. ASSUME NEW o \in Observers, ReadKey(o) \/ Lock(o) \/ Probe(o) \/ ObserverAgain(o) PROVE ProviderInv'
  BY <1>2, ReadKeyKeeps, LockKeeps, ProbeKeeps, AgainKeeps
<1>3. ASSUME CacheExpires \/ (\E s \in AISettings : SettingsChange(s)) PROVE ProviderInv'
  BY <1>3, ExpiresKeeps, ChangeKeeps
<1>4. ASSUME JobAppends \/ Connect \/ ListEvents \/ ReadJob \/ Disconnect PROVE UNCHANGED <<aiCache, observers, ai>>
  BY <1>4 DEF JobAppends, Connect, ListEvents, ReadJob, Disconnect
<1> QED
  BY <1>1, <1>2, <1>3, <1>4, ProviderStays DEF LiveNext

LEMMA ProviderStart == ASSUME LiveInit PROVE ProviderInv
<1>1. \E a : observers = [o \in Observers |-> [pc |-> "idle", key |-> <<>>, seen |-> <<>>, answer |-> a]]
  <2>1. CASE ActionsInit \/ StreamInit
    <3>1. [Observer EXCEPT !.answer = <<"idle">>] = [pc |-> "idle", key |-> <<>>, seen |-> <<>>, answer |-> <<"idle">>]
      BY DEF Observer
    <3>2. observers = [o \in Observers |-> [Observer EXCEPT !.answer = <<"idle">>]]
      BY <2>1 DEF ActionsInit, StreamInit
    <3> QED
      BY <3>1, <3>2
  <2>2. CASE ProviderInit
    BY <2>2 DEF ProviderInit, Observer
  <2> QED
    BY <2>1, <2>2 DEF LiveInit
<1>2. aiCache = [lock |-> 0, key |-> <<>>, fresh |-> FALSE, value |-> <<>>]
  BY DEF LiveInit, ActionsInit, ProviderInit, StreamInit, NoCache
<1>3. \E s, n, r : ai = [settings |-> s, changes |-> n, raced |-> r]
  BY DEF LiveInit, ActionsInit, ProviderInit, StreamInit
<1>4. PICK a : observers = [o \in Observers |-> [pc |-> "idle", key |-> <<>>, seen |-> <<>>, answer |-> a]]
  BY <1>1
<1>5. ASSUME NEW o \in Observers PROVE ObserverOK(observers[o])
  <2>1. observers[o] = [pc |-> "idle", key |-> <<>>, seen |-> <<>>, answer |-> a]
    BY <1>4
  <2>2. observers[o].pc = "idle" /\ observers[o].seen = <<>>
    BY <2>1
  <2>3. \E p, k, s, b : observers[o] = [pc |-> p, key |-> k, seen |-> s, answer |-> b]
    BY <2>1
  <2> QED
    BY <2>2, <2>3 DEF ObserverOK
<1>6. CacheOK
  BY <1>2 DEF CacheOK
<1>7. observers = [o \in Observers |-> observers[o]]
  BY <1>4
<1> QED
  BY <1>3, <1>5, <1>6, <1>7 DEF ProviderInv

LEMMA ProviderAgrees == ASSUME ProviderInv PROVE AnswerIsCurrent
  BY DEF ProviderInv, ObserverOK, AnswerIsCurrent, Describes

(***************************************************************************)
(* Requests that share state: the events of a Job.                         *)
(***************************************************************************)

(* The ordinals after m up to n.                                           *)
Span(m, n) == [i \in 1..(n - m) |-> m + i]

(* A client has the events up to some ordinal; a connection has written    *)
(* those that follow, up to where it will list next.                       *)
StreamOK ==
    /\ \E p, e, t, a, w, r, x, n :
          stream = [pc |-> p, events |-> e, status |-> t, after |-> a, written |-> w, received |-> r,
                    ended |-> x, connections |-> n]
    /\ stream.events \in Nat
    /\ \E m \in 0..stream.events :
          /\ stream.received = Span(0, m)
          /\ stream.pc # "closed" => stream.after \in m..stream.events /\ stream.written = Span(m, stream.after)

LEMMA SpanIs ==
    ASSUME NEW m \in Nat, NEW n \in Nat, m <= n
    PROVE  Span(m, n) \in Seq(Nat) /\ Len(Span(m, n)) = n - m /\ DOMAIN Span(m, n) = 1..(n - m)
           /\ \A i \in 1..(n - m) : Span(m, n)[i] = m + i
  BY DEF Span

LEMMA SpanJoins ==
    ASSUME NEW l \in Nat, NEW m \in Nat, NEW n \in Nat, l <= m, m <= n
    PROVE  Span(l, m) \o Span(m, n) = Span(l, n)
<1>1. PICK s, t, u : s = Span(l, m) /\ t = Span(m, n) /\ u = Span(l, n)
  OBVIOUS
<1>2. /\ s \in Seq(Nat) /\ Len(s) = m - l /\ \A i \in 1..(m - l) : s[i] = l + i
      /\ t \in Seq(Nat) /\ Len(t) = n - m /\ \A i \in 1..(n - m) : t[i] = m + i
      /\ u \in Seq(Nat) /\ Len(u) = n - l /\ \A i \in 1..(n - l) : u[i] = l + i
  <2>1. s \in Seq(Nat) /\ Len(s) = m - l /\ \A i \in 1..(m - l) : s[i] = l + i
    BY <1>1, SpanIs
  <2>2. t \in Seq(Nat) /\ Len(t) = n - m /\ \A i \in 1..(n - m) : t[i] = m + i
    BY <1>1, SpanIs
  <2>3. l <= n
    OBVIOUS
  <2>4. u \in Seq(Nat) /\ Len(u) = n - l /\ \A i \in 1..(n - l) : u[i] = l + i
    BY <1>1, <2>3, SpanIs
  <2> QED
    BY <2>1, <2>2, <2>4
<1>3. s \o t \in Seq(Nat) /\ Len(s \o t) = n - l
  BY <1>2
<1>4. ASSUME NEW i \in 1..(n - l) PROVE (s \o t)[i] = u[i]
  <2>1. CASE i <= m - l
    BY <1>2, <2>1
  <2>2. CASE ~(i <= m - l)
    <3>1. i - (m - l) \in 1..(n - m) /\ i \in (Len(s) + 1)..(Len(s) + Len(t))
      BY <1>2, <2>2
    <3>2. (s \o t)[i] = t[i - (m - l)]
      <4>1. i \in 1..(Len(s) + Len(t)) /\ ~(i <= Len(s)) /\ Len(s) = m - l
        BY <1>2, <2>2
      <4>2. (s \o t)[i] = t[i - Len(s)]
        BY <1>2, <4>1, ConcatProperties
      <4> QED
        BY <4>1, <4>2
    <3>3. t[i - (m - l)] = m + (i - (m - l))
      BY <1>2, <3>1
    <3> QED
      BY <1>2, <3>2, <3>3
  <2> QED
    BY <2>1, <2>2
<1>5. s \o t = u
  <2>1. \A i \in 1..Len(s \o t) : (s \o t)[i] = u[i]
    BY <1>3, <1>4
  <2>2. Len(s \o t) = Len(u)
    BY <1>2, <1>3
  <2> QED
    BY <1>2, <1>3, <2>1, <2>2, SeqEqual
<1> QED
  BY <1>1, <1>5

LEMMA SpanStarts ==
    ASSUME NEW m \in Nat, NEW n \in Nat, m <= n, NEW k \in 0..(n - m)
    PROVE  SubSeq(Span(m, n), 1, k) = Span(m, m + k)
<1>1. PICK s, t : s = Span(m, n) /\ t = Span(m, m + k)
  OBVIOUS
<1>2. /\ s \in Seq(Nat) /\ Len(s) = n - m /\ \A i \in 1..(n - m) : s[i] = m + i
      /\ t \in Seq(Nat) /\ Len(t) = k /\ \A i \in 1..k : t[i] = m + i
  <2>1. s \in Seq(Nat) /\ Len(s) = n - m /\ \A i \in 1..(n - m) : s[i] = m + i
    BY <1>1, SpanIs
  <2>2. m + k \in Nat /\ m <= m + k /\ (m + k) - m = k
    OBVIOUS
  <2>3. PICK j \in Nat : j = m + k /\ m <= j /\ j - m = k
    BY <2>2
  <2>4. t \in Seq(Nat) /\ Len(t) = j - m /\ \A i \in 1..(j - m) : t[i] = m + i
    BY <1>1, <2>3, SpanIs
  <2> QED
    BY <2>1, <2>3, <2>4
<1>3. SubSeq(s, 1, k) \in Seq(Nat) /\ Len(SubSeq(s, 1, k)) = k /\ \A i \in 1..k : SubSeq(s, 1, k)[i] = s[i]
  BY <1>2
<1>4. SubSeq(s, 1, k) = t
  BY <1>2, <1>3
<1> QED
  BY <1>1, <1>4

(* How the stream is changed: what a step leaves alone of it.              *)
LEMMA StreamFits ==
    ASSUME NEW p, NEW e \in Nat, NEW t, NEW a, NEW w, NEW r, NEW x, NEW n, NEW m \in 0..e, r = Span(0, m),
           p # "closed" => a \in m..e /\ w = Span(m, a),
           stream' = [pc |-> p, events |-> e, status |-> t, after |-> a, written |-> w, received |-> r,
                      ended |-> x, connections |-> n]
    PROVE  StreamOK'
  BY DEF StreamOK

LEMMA StreamStays == ASSUME StreamOK, UNCHANGED stream PROVE StreamOK'
  BY DEF StreamOK

LEMMA StreamStep ==
    ASSUME StreamOK, JobAppends \/ Connect \/ ListEvents \/ ReadJob \/ Disconnect
    PROVE  StreamOK'
<1>1. PICK p, e, t, a, w, r, x, n :
         stream = [pc |-> p, events |-> e, status |-> t, after |-> a, written |-> w, received |-> r,
                   ended |-> x, connections |-> n]
  BY DEF StreamOK
<1>2. e \in Nat
  BY <1>1 DEF StreamOK
<1>3. PICK m \in 0..e : r = Span(0, m) /\ (p # "closed" => a \in m..e /\ w = Span(m, a))
  BY <1>1 DEF StreamOK
<1>4. m \in Nat /\ Len(r) = m /\ r \in Seq(Nat)
  BY <1>2, <1>3, SpanIs
<1>5. CASE JobAppends
  <2>1. PICK now \in {"running", "succeeded"} : stream' = [stream EXCEPT !.events = @ + 1, !.status = now]
    BY <1>5 DEF JobAppends
  <2>2. stream' = [pc |-> p, events |-> e + 1, status |-> now, after |-> a, written |-> w, received |-> r,
                   ended |-> x, connections |-> n]
    BY <1>1, <2>1
  <2>3. e + 1 \in Nat /\ m \in 0..(e + 1) /\ (p # "closed" => a \in m..(e + 1) /\ w = Span(m, a))
    BY <1>2, <1>3
  <2> QED
    BY <1>3, <2>2, <2>3, StreamFits
<1>6. CASE Connect
  <2>1. stream' = [stream EXCEPT !.pc = "list", !.connections = @ + 1, !.written = <<>>, !.after = Len(stream.received)]
    BY <1>6 DEF Connect
  <2>2. stream' = [pc |-> "list", events |-> e, status |-> t, after |-> m, written |-> <<>>, received |-> r,
                   ended |-> x, connections |-> n + 1]
    BY <1>1, <1>4, <2>1
  <2>3. m \in m..e /\ <<>> = Span(m, m)
    <3>1. Span(m, m) \in Seq(Nat) /\ Len(Span(m, m)) = 0
      BY <1>4, SpanIs
    <3> QED
      BY <1>2, <1>4, <3>1
  <2> QED
    BY <1>2, <1>3, <2>2, <2>3, StreamFits
<1>7. CASE ListEvents
  <2>1. p = "list"
    BY <1>1, <1>7 DEF ListEvents
  <2>2. a \in Nat /\ a \in m..e /\ w = Span(m, a)
    BY <1>3, <1>4, <2>1
  <2>3. PICK events : events = Span(a, e) /\ events = ListJobEvents(stream.after)
    BY <1>1 DEF ListJobEvents, Span
  <2>4. events \in Seq(Nat) /\ Len(events) = e - a /\ \A i \in 1..(e - a) : events[i] = a + i
    <3>1. a <= e
      BY <1>2, <2>2
    <3> QED
      BY <1>2, <2>2, <2>3, <3>1, SpanIs
  <2>5. PICK b : b = IF events = <<>> THEN a ELSE events[Len(events)]
    OBVIOUS
  <2>6. b = e
    <3>1. CASE events = <<>>
      BY <1>2, <2>2, <2>4, <2>5, <3>1
    <3>2. CASE events # <<>>
      <4>1. Len(events) \in 1..(e - a)
        BY <1>2, <2>2, <2>4, <3>2
      <4> QED
        BY <1>2, <2>2, <2>4, <2>5, <3>2, <4>1
    <3> QED
      BY <3>1, <3>2
  <2>7. stream' = [stream EXCEPT !.pc = "job", !.written = @ \o events,
                                 !.after = IF events = <<>> THEN @ ELSE events[Len(events)]]
    BY <1>7, <2>3 DEF ListEvents
  <2>8. stream' = [pc |-> "job", events |-> e, status |-> t, after |-> b, written |-> w \o events, received |-> r,
                   ended |-> x, connections |-> n]
    BY <1>1, <2>5, <2>7
  <2>9. w \o events = Span(m, e)
    <3>1. m <= a /\ a <= e
      BY <1>2, <1>4, <2>2
    <3>2. Span(m, a) \o Span(a, e) = Span(m, e)
      BY <1>2, <1>4, <2>2, <3>1, SpanJoins
    <3> QED
      BY <2>2, <2>3, <3>2
  <2>10. b \in m..e /\ w \o events = Span(m, b)
    BY <1>2, <2>2, <2>6, <2>9
  <2> QED
    BY <1>2, <1>3, <2>8, <2>10, StreamFits
<1>8. CASE ReadJob
  <2>1. p = "job" /\ a \in m..e /\ w = Span(m, a)
    BY <1>1, <1>3, <1>8 DEF ReadJob
  <2>2. a \in Nat /\ a \in 0..e
    BY <1>4, <2>1
  <2>3. r \o w = Span(0, a)
    <3>1. 0 <= m /\ m <= a /\ 0 \in Nat
      BY <1>2, <1>4, <2>1, <2>2
    <3> QED
      BY <1>3, <1>4, <2>1, <2>2, <3>1, SpanJoins
  <2>4. CASE stream' = [stream EXCEPT !.pc = "list"]
    <3>1. stream' = [pc |-> "list", events |-> e, status |-> t, after |-> a, written |-> w, received |-> r,
                     ended |-> x, connections |-> n]
      BY <1>1, <2>4
    <3> QED
      BY <1>2, <1>3, <2>1, <3>1, StreamFits
  <2>5. CASE stream' = [stream EXCEPT !.pc = "closed", !.ended = TRUE, !.received = @ \o stream.written]
    <3>1. stream' = [pc |-> "closed", events |-> e, status |-> t, after |-> a, written |-> w, received |-> r \o w,
                     ended |-> TRUE, connections |-> n]
      BY <1>1, <2>5
    <3> QED
      BY <1>2, <2>2, <2>3, <3>1, StreamFits
  <2> QED
    BY <1>8, <2>4, <2>5 DEF ReadJob
<1>9. CASE Disconnect
  <2>1. p # "closed" /\ a \in m..e /\ w = Span(m, a)
    BY <1>1, <1>3, <1>9 DEF Disconnect
  <2>2. a \in Nat /\ Len(w) = a - m
    <3>1. a \in Nat /\ m <= a
      BY <1>2, <1>4, <2>1
    <3> QED
      BY <1>4, <2>1, <3>1, SpanIs
  <2>3. PICK k \in 0..Len(stream.written) :
           stream' = [stream EXCEPT !.pc = "closed", !.received = @ \o SubSeq(stream.written, 1, k)]
    BY <1>9 DEF Disconnect
  <2>4. k \in 0..(a - m) /\ k \in Nat
    BY <1>1, <2>2, <2>3
  <2>5. stream' = [pc |-> "closed", events |-> e, status |-> t, after |-> a, written |-> w,
                   received |-> r \o SubSeq(w, 1, k), ended |-> x, connections |-> n]
    BY <1>1, <2>3
  <2>6. SubSeq(w, 1, k) = Span(m, m + k)
    BY <1>4, <2>1, <2>2, <2>4, SpanStarts
  <2>7. m + k \in Nat /\ m <= m + k /\ 0 <= m /\ m + k \in 0..e
    BY <1>2, <1>4, <2>1, <2>2, <2>4
  <2>8. r \o SubSeq(w, 1, k) = Span(0, m + k)
    BY <1>3, <1>4, <2>6, <2>7, SpanJoins
  <2> QED
    BY <1>2, <2>5, <2>7, <2>8, StreamFits
<1> QED
  BY <1>5, <1>6, <1>7, <1>8, <1>9

LEMMA StreamStart == ASSUME LiveInit PROVE StreamOK
<1>1. \E t, x : stream = [pc |-> "closed", events |-> 0, status |-> t, after |-> 0, written |-> <<>>,
                          received |-> <<>>, ended |-> x, connections |-> 0]
  <2>1. CASE ActionsInit \/ ProviderInit
    BY <2>1 DEF ActionsInit, ProviderInit, NoStream
  <2>2. CASE StreamInit
    BY <2>2 DEF StreamInit, NoStream
  <2> QED
    BY <2>1, <2>2 DEF LiveInit
<1>2. PICK t, x : stream = [pc |-> "closed", events |-> 0, status |-> t, after |-> 0, written |-> <<>>,
                            received |-> <<>>, ended |-> x, connections |-> 0]
  BY <1>1
<1>3. <<>> = Span(0, 0)
  <2>1. Span(0, 0) \in Seq(Nat) /\ Len(Span(0, 0)) = 0
    BY SpanIs
  <2> QED
    BY <2>1
<1>4. stream.pc = "closed" /\ stream.events = 0 /\ stream.received = <<>>
  BY <1>2
<1>5. \E p, e, s, a, w, r, y, n :
         stream = [pc |-> p, events |-> e, status |-> s, after |-> a, written |-> w, received |-> r,
                   ended |-> y, connections |-> n]
  BY <1>2
<1>6. 0 \in 0..0 /\ 0 \in Nat
  OBVIOUS
<1> QED
  BY <1>3, <1>4, <1>5, <1>6 DEF StreamOK

LEMMA StreamAgrees == ASSUME StreamOK PROVE StreamIsGapless
<1>1. PICK m \in 0..stream.events :
         /\ stream.received = Span(0, m)
         /\ stream.pc # "closed" => stream.after \in m..stream.events /\ stream.written = Span(m, stream.after)
  BY DEF StreamOK
<1>2. stream.events \in Nat /\ m \in Nat
  BY <1>1 DEF StreamOK
<1>3. PICK all : all = stream.received \o (IF stream.pc = "closed" THEN <<>> ELSE stream.written)
  OBVIOUS
<1>4. \E n \in Nat : all = Span(0, n)
  <2>1. CASE stream.pc = "closed"
    <3>1. PICK r : r = stream.received /\ r = Span(0, m)
      BY <1>1
    <3>2. r \in Seq(Nat)
      <4>1. 0 \in Nat /\ 0 <= m
        BY <1>2
      <4> QED
        BY <1>2, <3>1, <4>1, SpanIs
    <3>3. all = r \o <<>>
      BY <1>3, <2>1, <3>1
    <3>4. all = r
      BY <3>2, <3>3
    <3> QED
      BY <1>2, <3>1, <3>4
  <2>2. CASE stream.pc # "closed"
    <3>1. PICK a : a = stream.after
      OBVIOUS
    <3>2. a \in m..stream.events
      BY <1>1, <2>2, <3>1
    <3>3. a \in Nat /\ m <= a /\ 0 <= m /\ 0 \in Nat
      BY <1>2, <3>2
    <3>4. all = Span(0, m) \o Span(m, a)
      BY <1>1, <1>3, <2>2, <3>1
    <3>5. all = Span(0, a)
      BY <1>2, <3>3, <3>4, SpanJoins
    <3> QED
      BY <3>3, <3>5
  <2> QED
    BY <2>1, <2>2
<1>5. PICK n \in Nat : all = Span(0, n)
  BY <1>4
<1>6. all = [i \in DOMAIN all |-> i]
  BY <1>5 DEF Span
<1> QED
  BY <1>3, <1>6 DEF StreamIsGapless

(* Requests that share state are served as if each had come alone, for any *)
(* number of callers, observers, keys and connections and any settings.    *)
(* runtime_actions.go, ai_capability_runtime.go, revisions.go              *)
THEOREM SharedRequestsAgreeHolds ==
    ASSUME CacheLimit \in Nat
    PROVE  LiveInit /\ [][LiveNext]_liveVars => []SharedRequestsAgree
<1> DEFINE I == ActionInv /\ ProviderInv /\ StreamOK
<1>1. LiveInit => I
  BY ActionStart, ProviderStart, StreamStart
<1>2. I /\ [LiveNext]_liveVars => I'
  <2>1. ASSUME I, LiveNext PROVE I'
    <3>1. ActionInv' /\ ProviderInv'
      BY <2>1, ActionStep, CapabilityStep
    <3>2. ASSUME NEW c \in Callers, (\E k \in Keys : Invoke(c, k)) \/ Enter(c) \/ Finish(c) \/ WaiterLeaves(c)
          PROVE  UNCHANGED stream
      BY <3>2 DEF Invoke, Enter, Finish, WaiterLeaves
    <3>3. ASSUME NEW o \in Observers, ReadKey(o) \/ Lock(o) \/ Probe(o) \/ ObserverAgain(o)
          PROVE  UNCHANGED stream
      BY <3>3 DEF ReadKey, Lock, Probe, ObserverAgain
    <3>4. ASSUME CacheExpires \/ (\E s \in AISettings : SettingsChange(s)) PROVE UNCHANGED stream
      BY <3>4 DEF CacheExpires, SettingsChange
    <3>5. StreamOK'
      BY <2>1, <3>2, <3>3, <3>4, StreamStays, StreamStep DEF LiveNext
    <3> QED
      BY <3>1, <3>5
  <2>2. ASSUME I, UNCHANGED liveVars PROVE I'
    <3>1. UNCHANGED <<actions, callers>> /\ UNCHANGED <<aiCache, observers, ai>> /\ UNCHANGED stream
      BY <2>2 DEF liveVars
    <3> QED
      BY <2>2, <3>1, ActionsStay, ProviderStays, StreamStays
  <2> QED
    BY <2>1, <2>2
<1>3. I => SharedRequestsAgree
  BY ActionsAgree, ProviderAgrees, StreamAgrees DEF SharedRequestsAgree
<1> QED
  BY <1>1, <1>2, <1>3, PTL

-------------------------------------------------------------------------------
(***************************************************************************)
(* Diagnostics: the status and its observers, and the end of the process.  *)
(***************************************************************************)
(* A scene of the diagnostics, with its bounds.                            *)
SceneType ==
    [files : Nat \ {0}, observers : SUBSET {"status", "log"}, sizes : SUBSET Nat, closes : BOOLEAN, events : Nat,
     transitions : Nat, faults : Nat, launches : Nat]
BoundsType ==
    [scene : SceneType, events : Nat, made : Nat, transitions : Nat, faults : Nat, launches : Nat]
BoundsOK == bounds \in BoundsType

(* The scene of a behaviour is one of the given ones.                      *)
ScenesAreTyped == Scenes \subseteq SceneType

CloserType ==
    [pc : {"none", "release", "wait", "emit", "close", "await", "closed"}, deadline : BOOLEAN, error : BOOLEAN,
     before : Seq(Nat)]
Silent == {"wait", "emit", "close", "await", "closed"}
BoardType ==
    [generation : Nat, publishing : SUBSET Subscribers, target : {<<>>} \cup {<<o>> : o \in Subscribers}, step : 1..3,
     open : SUBSET Subscribers, channel : [Subscribers -> {<<>>} \cup {<<n>> : n \in Nat}],
     seen : [Subscribers -> Int], busy : [Subscribers -> BOOLEAN]]

(* An observer that has not been sent the current status yet knows an      *)
(* older one only; the others have it, in the channel or seen.             *)
StatusOf(o) ==
    /\ board.channel[o] # <<>> => /\ board.seen[o] < board.channel[o][1]
                                  /\ board.channel[o][1] <= board.generation
    /\ IF o \in board.publishing
       THEN board.seen[o] < board.generation /\ board.channel[o] # <<board.generation>>
       ELSE \/ board.channel[o] = <<board.generation>>
            \/ board.channel[o] = <<>> /\ board.seen[o] = board.generation

(* The publisher that has emptied a channel finds it empty when it sends.  *)
PublisherOK ==
    /\ board.step = 1 <=> board.target = <<>>
    /\ \A o \in Subscribers : board.target = <<o>> =>
         o \in board.publishing /\ (board.step = 3 => board.channel[o] = <<>>)

StatusOK ==
    /\ board \in BoardType /\ closer \in CloserType
    /\ \A o \in Subscribers : StatusOf(o)
    /\ PublisherOK
    /\ closer.pc \in {"none", "release"} => board.open = Subscribers
    /\ closer.pc \in Silent => board.publishing = {}
    /\ closer.pc \in Silent \ {"wait"} /\ ~closer.error => \A o \in Subscribers : board.channel[o] = <<>>

LEMMA CloserStays == ASSUME StatusOK, UNCHANGED <<board, closer>>, Subscribers' = Subscribers PROVE StatusOK'
BY DEF StatusOK, BoardType, StatusOf, PublisherOK

(* A transition marks every subscriber as not served yet.                  *)
LEMMA BeginKeeps ==
    ASSUME StatusOK, BeginTransition, closer.pc = "none", closer' \in CloserType, closer'.pc \in {"none", "release"},
           Subscribers' = Subscribers
    PROVE  StatusOK'
<1>1. PICK g \in Nat, p \in SUBSET Subscribers, t \in {<<>>} \cup {<<o>> : o \in Subscribers}, s \in 1..3,
           w \in SUBSET Subscribers, c \in [Subscribers -> {<<>>} \cup {<<n>> : n \in Nat}],
           n \in [Subscribers -> Int], b \in [Subscribers -> BOOLEAN] :
        board = [generation |-> g, publishing |-> p, target |-> t, step |-> s, open |-> w, channel |-> c,
                 seen |-> n, busy |-> b]
  BY DEF StatusOK, BoardType
<1>2. p = {} /\ w = Subscribers
  BY <1>1 DEF BeginTransition, MutexFree, StatusOK
<1>3. t = <<>>
  <2>1. \A o \in Subscribers : board.target = <<o>> => o \in board.publishing
    BY DEF StatusOK, PublisherOK
  <2> QED
    BY <1>1, <1>2, <2>1
<1>4. board' = [generation |-> g + 1, publishing |-> Subscribers, target |-> <<>>, step |-> 1, open |-> w, channel |-> c,
                seen |-> n, busy |-> b]
  BY <1>1, <1>2, <1>3 DEF BeginTransition
<1>5. ASSUME NEW o \in Subscribers PROVE StatusOf(o)'
  <2>1. /\ c[o] # <<>> => n[o] < c[o][1] /\ c[o][1] <= g
        /\ \/ c[o] = <<g>>
           \/ c[o] = <<>> /\ n[o] = g
    BY <1>1, <1>2, <1>5 DEF StatusOK, StatusOf
  <2>2. n[o] \in Int /\ c[o] \in {<<>>} \cup {<<m>> : m \in Nat}
    BY <1>5
  <2>3. CASE c[o] = <<>>
    BY <1>4, <1>5, <2>1, <2>2, <2>3 DEF StatusOf
  <2>4. ASSUME NEW m \in Nat, c[o] = <<m>>
        PROVE  StatusOf(o)'
    <3>1. n[o] < m /\ m <= g /\ <<m>> # <<g + 1>>
      BY <2>1, <2>2, <2>4
    <3> QED
      BY <1>4, <1>5, <2>2, <2>4, <3>1 DEF StatusOf
  <2> QED
    BY <2>2, <2>3, <2>4
<1>6. board' \in BoardType'
  BY <1>4 DEF BoardType
<1>7. PublisherOK'
  BY <1>4 DEF PublisherOK
<1> QED
  BY <1>2, <1>4, <1>5, <1>6, <1>7 DEF StatusOK, Silent

LEMMA ChannelSet ==
    ASSUME NEW g, NEW p, NEW t, NEW s, NEW w, NEW c, NEW n, NEW b, NEW o, NEW v, NEW r, NEW q,
           r = [generation |-> g, publishing |-> p, target |-> t, step |-> s, open |-> w, channel |-> c,
                seen |-> n, busy |-> b],
           q = [r EXCEPT !.channel[o] = v]
    PROVE  q = [generation |-> g, publishing |-> p, target |-> t, step |-> s, open |-> w,
                channel |-> [c EXCEPT ![o] = v], seen |-> n, busy |-> b]
<1>1. PICK d : d = [c EXCEPT ![o] = v]
  OBVIOUS
<1>2. r.channel = c
  OBVIOUS
<1>3. q = [r EXCEPT !.channel = d]
  BY <1>1, <1>2
<1> QED
  BY <1>1, <1>3

(* A step of the publisher for one subscriber.                             *)
LEMMA publishLatestKeeps == ASSUME StatusOK, NEW o \in Subscribers, publishLatest(o) PROVE StatusOK'
<1>1. PICK g \in Nat, p \in SUBSET Subscribers, t \in {<<>>} \cup {<<q>> : q \in Subscribers}, s \in 1..3,
           w \in SUBSET Subscribers, c \in [Subscribers -> {<<>>} \cup {<<n>> : n \in Nat}],
           n \in [Subscribers -> Int], b \in [Subscribers -> BOOLEAN] :
        board = [generation |-> g, publishing |-> p, target |-> t, step |-> s, open |-> w, channel |-> c,
                 seen |-> n, busy |-> b]
  BY DEF StatusOK, BoardType
<1>2. /\ o \in p /\ t \in {<<>>, <<o>>} /\ n[o] < g /\ c[o] # <<g>>
      /\ s = 3 => t = <<o>> /\ c[o] = <<>>
      /\ s = 1 <=> t = <<>>
  BY <1>1 DEF publishLatest, StatusOK, StatusOf, PublisherOK
<1>3. closer' = closer /\ Subscribers' = Subscribers /\ bounds' = bounds
  BY DEF publishLatest, Subscribers
<1>d. \A x \in Subscribers : <<x>> # <<>> /\ (<<o>> = <<x>> => o = x)
  OBVIOUS
<1>4. CASE s \in {1, 3} /\ c[o] = <<>>
  <2>1. PICK d : d = [c EXCEPT ![o] = <<g>>]
    OBVIOUS
  <2>2. board' = [generation |-> g, publishing |-> p \ {o}, target |-> <<>>, step |-> 1, open |-> w,
                  channel |-> d, seen |-> n, busy |-> b]
    <3>1. PICK r : r = Done(o)
      OBVIOUS
    <3>2. r = [generation |-> g, publishing |-> p \ {o}, target |-> <<>>, step |-> 1, open |-> w,
               channel |-> c, seen |-> n, busy |-> b]
      BY <1>1, <3>1 DEF Done
    <3>3. board' = Sends(o)
      BY <1>1, <1>2, <1>4 DEF publishLatest
    <3>4. board' = [r EXCEPT !.channel[o] = <<g>>]
      BY <1>1, <3>1, <3>3 DEF Sends
    <3> QED
      BY <2>1, <3>2, <3>4, ChannelSet
  <2>3. d \in [Subscribers -> {<<>>} \cup {<<m>> : m \in Nat}] /\ d[o] = <<g>> /\ \A q \in Subscribers \ {o} : d[q] = c[q]
    BY <2>1
  <2>4. StatusOf(o)'
    BY <1>2, <2>2, <2>3 DEF StatusOf
  <2>5. ASSUME NEW q \in Subscribers \ {o} PROVE StatusOf(q)'
    <3>1. StatusOf(q)
      BY <2>5 DEF StatusOK
    <3> QED
      BY <1>1, <2>2, <2>3, <2>5, <3>1 DEF StatusOf
  <2>6. PublisherOK'
    BY <1>3, <1>d, <2>2 DEF PublisherOK
  <2>7. board' \in BoardType'
    BY <1>3, <2>2, <2>3 DEF BoardType
  <2>8. p # {} => closer.pc \notin Silent
    BY <1>1 DEF StatusOK
  <2> QED
    BY <1>1, <1>2, <1>3, <2>2, <2>4, <2>5, <2>6, <2>7, <2>8 DEF StatusOK, CloserType
<1>5. CASE s = 1 /\ c[o] # <<>>
  <2>2. board' = [generation |-> g, publishing |-> p, target |-> <<o>>, step |-> 2, open |-> w,
                  channel |-> c, seen |-> n, busy |-> b]
    BY <1>1, <1>2, <1>5 DEF publishLatest
  <2>3. ASSUME NEW q \in Subscribers PROVE StatusOf(q)'
    <3>1. StatusOf(q)
      BY <2>3 DEF StatusOK
    <3> QED
      BY <1>1, <2>2, <3>1 DEF StatusOf
  <2>4. PublisherOK'
    BY <1>2, <1>3, <1>d, <2>2 DEF PublisherOK
  <2>5. board' \in BoardType'
    BY <1>3, <2>2 DEF BoardType
  <2> QED
    BY <1>1, <1>3, <2>2, <2>3, <2>4, <2>5 DEF StatusOK
<1>6. CASE s = 2
  <2>1. PICK d : d = [c EXCEPT ![o] = <<>>]
    OBVIOUS
  <2>2. board' = [generation |-> g, publishing |-> p, target |-> t, step |-> 3, open |-> w,
                  channel |-> d, seen |-> n, busy |-> b]
    <3>1. board' = [board EXCEPT !.channel[o] = <<>>, !.step = 3]
      BY <1>1, <1>6 DEF publishLatest
    <3>2. PICK r : r = [board EXCEPT !.channel[o] = <<>>]
      OBVIOUS
    <3>3. r = [generation |-> g, publishing |-> p, target |-> t, step |-> s, open |-> w,
               channel |-> d, seen |-> n, busy |-> b]
      BY <1>1, <2>1, <3>2, ChannelSet
    <3>4. board' = [r EXCEPT !.step = 3]
      BY <3>1, <3>2
    <3> QED
      BY <3>3, <3>4
  <2>3. d \in [Subscribers -> {<<>>} \cup {<<m>> : m \in Nat}] /\ d[o] = <<>> /\ \A q \in Subscribers \ {o} : d[q] = c[q]
    BY <2>1
  <2>4. StatusOf(o)'
    BY <1>2, <2>2, <2>3 DEF StatusOf
  <2>5. ASSUME NEW q \in Subscribers \ {o} PROVE StatusOf(q)'
    <3>1. StatusOf(q)
      BY <2>5 DEF StatusOK
    <3> QED
      BY <1>1, <2>2, <2>3, <2>5, <3>1 DEF StatusOf
  <2>6. PublisherOK'
    <3>1. t = <<o>>
      BY <1>2, <1>6
    <3> QED
      BY <1>2, <1>3, <1>d, <2>2, <2>3, <3>1 DEF PublisherOK
  <2>7. board' \in BoardType'
    BY <1>3, <2>2, <2>3 DEF BoardType
  <2>8. p # {} => closer.pc \notin Silent
    BY <1>1 DEF StatusOK
  <2> QED
    BY <1>1, <1>2, <1>3, <2>2, <2>4, <2>5, <2>6, <2>7, <2>8 DEF StatusOK, CloserType
<1> QED
  BY <1>2, <1>4, <1>5, <1>6

(* An observer takes what it finds in its channel.                         *)
LEMMA ObserveKeeps == ASSUME StatusOK, NEW o \in Subscribers, Observe(o) PROVE StatusOK'
<1>1. PICK g \in Nat, p \in SUBSET Subscribers, t \in {<<>>} \cup {<<q>> : q \in Subscribers}, s \in 1..3,
           w \in SUBSET Subscribers, c \in [Subscribers -> {<<>>} \cup {<<n>> : n \in Nat}],
           n \in [Subscribers -> Int], b \in [Subscribers -> BOOLEAN] :
        board = [generation |-> g, publishing |-> p, target |-> t, step |-> s, open |-> w, channel |-> c,
                 seen |-> n, busy |-> b]
  BY DEF StatusOK, BoardType
<1>2. closer' = closer /\ Subscribers' = Subscribers
  BY DEF Observe, Subscribers
<1>3. PICK m \in Nat : c[o] = <<m>>
  <2>1. c[o] # <<>>
    BY <1>1 DEF Observe
  <2> QED
    BY <2>1
<1>4. PICK d, e, f : d = [c EXCEPT ![o] = <<>>] /\ e = [n EXCEPT ![o] = m] /\ f = [b EXCEPT ![o] = TRUE]
  OBVIOUS
<1>5. board' = [generation |-> g, publishing |-> p, target |-> t, step |-> s, open |-> w, channel |-> d,
                seen |-> e, busy |-> f]
  <2>1. board' = [board EXCEPT !.channel[o] = <<>>, !.seen[o] = m, !.busy[o] = TRUE]
    <3>1. board' = [board EXCEPT !.channel[o] = <<>>, !.seen[o] = board.channel[o][1], !.busy[o] = TRUE]
      BY DEF Observe
    <3>2. <<m>>[1] = m
      OBVIOUS
    <3>3. board.channel = c
      BY <1>1
    <3>4. board.channel[o][1] = m
      BY <1>3, <3>2, <3>3
    <3> QED
      BY <3>1, <3>4
  <2>2. PICK r : r = [board EXCEPT !.channel[o] = <<>>]
    OBVIOUS
  <2>3. r = [generation |-> g, publishing |-> p, target |-> t, step |-> s, open |-> w, channel |-> d,
             seen |-> n, busy |-> b]
    BY <1>1, <1>4, <2>2, ChannelSet
  <2>4. PICK x : x = [r EXCEPT !.seen[o] = m]
    OBVIOUS
  <2>5. x = [generation |-> g, publishing |-> p, target |-> t, step |-> s, open |-> w, channel |-> d,
             seen |-> e, busy |-> b]
    <3>1. r.seen = n
      BY <2>3
    <3>2. x = [r EXCEPT !.seen = e]
      BY <1>4, <2>4, <3>1
    <3> QED
      BY <2>3, <3>2
  <2>6. board' = [x EXCEPT !.busy[o] = TRUE]
    BY <2>1, <2>2, <2>4
  <2>7. x.busy = b
    BY <2>5
  <2>8. board' = [x EXCEPT !.busy = f]
    BY <1>4, <2>6, <2>7
  <2> QED
    BY <2>5, <2>8
<1>6. /\ d \in [Subscribers -> {<<>>} \cup {<<x>> : x \in Nat}] /\ d[o] = <<>> /\ \A q \in Subscribers \ {o} : d[q] = c[q]
      /\ e \in [Subscribers -> Int] /\ e[o] = m /\ \A q \in Subscribers \ {o} : e[q] = n[q]
      /\ f \in [Subscribers -> BOOLEAN]
  BY <1>4
<1>7. StatusOf(o)'
  <2>1. m <= g /\ (o \in p => <<m>> # <<g>>) /\ (o \notin p => <<m>> = <<g>>)
    <3>1. StatusOf(o)
      BY DEF StatusOK
    <3>2. <<m>> # <<>> /\ <<m>>[1] = m
      OBVIOUS
    <3> QED
      BY <1>1, <1>3, <3>1, <3>2 DEF StatusOf
  <2>2. (o \in p => m < g) /\ (o \notin p => m = g)
    BY <2>1
  <2> QED
    BY <1>5, <1>6, <2>2 DEF StatusOf
<1>8. ASSUME NEW q \in Subscribers \ {o} PROVE StatusOf(q)'
  <2>1. StatusOf(q)
    BY <1>8 DEF StatusOK
  <2> QED
    BY <1>1, <1>5, <1>6, <1>8, <2>1 DEF StatusOf
<1>9. PublisherOK'
  <2>1. \A q \in Subscribers : c[q] = <<>> => d[q] = <<>>
    BY <1>4
  <2> QED
    BY <1>1, <1>2, <1>5, <2>1 DEF PublisherOK, StatusOK
<1>10. board' \in BoardType'
  BY <1>2, <1>5, <1>6 DEF BoardType
<1>11. \A q \in Subscribers : c[q] = <<>> => d[q] = <<>>
  BY <1>4
<1> QED
  BY <1>1, <1>2, <1>5, <1>7, <1>8, <1>9, <1>10, <1>11 DEF StatusOK
(* Whether an observer is busy is its own matter.                          *)
LEMMA BusyKeeps ==
    ASSUME StatusOK, NEW o \in Subscribers, board' = [board EXCEPT !.busy[o] = FALSE], closer' = closer,
           Subscribers' = Subscribers
    PROVE  StatusOK'
<1>1. PICK g \in Nat, p \in SUBSET Subscribers, t \in {<<>>} \cup {<<q>> : q \in Subscribers}, s \in 1..3,
           w \in SUBSET Subscribers, c \in [Subscribers -> {<<>>} \cup {<<n>> : n \in Nat}],
           n \in [Subscribers -> Int], b \in [Subscribers -> BOOLEAN] :
        board = [generation |-> g, publishing |-> p, target |-> t, step |-> s, open |-> w, channel |-> c,
                 seen |-> n, busy |-> b]
  BY DEF StatusOK, BoardType
<1>2. PICK f : f = [b EXCEPT ![o] = FALSE]
  OBVIOUS
<1>3. board' = [generation |-> g, publishing |-> p, target |-> t, step |-> s, open |-> w, channel |-> c,
                seen |-> n, busy |-> f]
  <2>1. board.busy = b
    BY <1>1
  <2>2. board' = [board EXCEPT !.busy = f]
    BY <1>2, <2>1
  <2> QED
    BY <1>1, <2>2
<1>4. f \in [Subscribers -> BOOLEAN]
  BY <1>2
<1>5. board' \in BoardType'
  <2>1. BoardType' = BoardType
    BY DEF BoardType
  <2>2. PICK r : r = [generation |-> g, publishing |-> p, target |-> t, step |-> s, open |-> w, channel |-> c,
                      seen |-> n, busy |-> f]
    OBVIOUS
  <2>3. r \in BoardType
    BY <1>4, <2>2 DEF BoardType
  <2> QED
    BY <1>3, <2>1, <2>2, <2>3
<1>6. \A q \in Subscribers : StatusOf(q) => StatusOf(q)'
  BY <1>1, <1>3 DEF StatusOf
<1>7. PublisherOK'
  BY <1>1, <1>3 DEF StatusOK, PublisherOK
<1> QED
  BY <1>1, <1>3, <1>5, <1>6, <1>7 DEF StatusOK

(* The end of the process while the board stays.                           *)
LEMMA CloserKeeps ==
    ASSUME StatusOK, board' = board, Subscribers' = Subscribers, closer' \in CloserType,
           closer'.pc \in {"none", "release"} => board.open = Subscribers,
           closer'.pc \in Silent => board.publishing = {},
           closer'.pc \in Silent \ {"wait"} /\ ~closer'.error => \A o \in Subscribers : board.channel[o] = <<>>
    PROVE  StatusOK'
<1>1. board' \in BoardType' /\ PublisherOK' /\ \A o \in Subscribers : StatusOf(o)'
  BY DEF StatusOK, BoardType, PublisherOK, StatusOf
<1> QED
  BY <1>1 DEF StatusOK, Silent

LEMMA CloserFields ==
    ASSUME closer \in CloserType
    PROVE  \E p \in {"none", "release", "wait", "emit", "close", "await", "closed"}, d, e \in BOOLEAN, b \in Seq(Nat) :
             closer = [pc |-> p, deadline |-> d, error |-> e, before |-> b]
BY DEF CloserType

(* Nobody publishes any more when the observers have been released.        *)
LEMMA UnsubscribeKeeps == ASSUME StatusOK, Unsubscribe PROVE StatusOK'
<1>1. PICK g \in Nat, p \in SUBSET Subscribers, t \in {<<>>} \cup {<<q>> : q \in Subscribers}, s \in 1..3,
           w \in SUBSET Subscribers, c \in [Subscribers -> {<<>>} \cup {<<n>> : n \in Nat}],
           n \in [Subscribers -> Int], b \in [Subscribers -> BOOLEAN] :
        board = [generation |-> g, publishing |-> p, target |-> t, step |-> s, open |-> w, channel |-> c,
                 seen |-> n, busy |-> b]
  BY DEF StatusOK, BoardType
<1>2. p = {} /\ Subscribers' = Subscribers
  BY <1>1 DEF Unsubscribe, MutexFree, Subscribers
<1>3. board' = [generation |-> g, publishing |-> p, target |-> t, step |-> s, open |-> {}, channel |-> c,
                seen |-> n, busy |-> b]
  BY <1>1 DEF Unsubscribe
<1>4. closer' \in CloserType /\ closer'.pc = "wait"
  BY CloserFields DEF Unsubscribe, Closes, CloserType, StatusOK
<1>5. board' \in BoardType'
  BY <1>2, <1>3 DEF BoardType
<1>6. \A q \in Subscribers : StatusOf(q) => StatusOf(q)'
  BY <1>1, <1>3 DEF StatusOf
<1>7. PublisherOK'
  BY <1>1, <1>2, <1>3 DEF StatusOK, PublisherOK
<1> QED
  BY <1>1, <1>2, <1>3, <1>4, <1>5, <1>6, <1>7 DEF StatusOK, Silent

(* Each event of the end of the process.                                   *)
LEMMA CloseProcessKeeps == ASSUME StatusOK, CloseProcess PROVE StatusOK'
<1>1. closer' \in CloserType /\ closer'.pc = "release" /\ closer.pc = "none" /\ Subscribers' = Subscribers
  BY CloserFields DEF CloseProcess, Closes, CloserType, StatusOK, Subscribers
<1> QED
  BY <1>1, BeginKeeps DEF CloseProcess

LEMMA DeadlineKeeps == ASSUME StatusOK, Deadline PROVE StatusOK'
<1>1. closer' \in CloserType /\ closer'.pc = closer.pc /\ closer'.error = closer.error
  BY CloserFields DEF Deadline, CloserType, StatusOK
<1> QED
  BY <1>1, CloserKeeps DEF Deadline, StatusOK, Subscribers

LEMMA EmitStoppedKeeps == ASSUME StatusOK, EmitStopped, Subscribers' = Subscribers PROVE StatusOK'
<1>1. closer.pc = "wait" /\ board' = board
  BY DEF EmitStopped, Closes
<1>2. PICK p \in {"none", "release", "wait", "emit", "close", "await", "closed"}, d \in BOOLEAN, e \in BOOLEAN, b \in Seq(Nat) :
        closer = [pc |-> p, deadline |-> d, error |-> e, before |-> b]
  BY CloserFields DEF StatusOK
<1>3. PICK f \in BOOLEAN : f = \E o \in Subscribers : ~Ended(o)
  OBVIOUS
<1>4. closer' = [pc |-> "emit", deadline |-> d, error |-> f, before |-> b]
  BY <1>2, <1>3 DEF EmitStopped
<1>5. ~f => \A o \in Subscribers : board.channel[o] = <<>>
  BY <1>3 DEF Ended
<1>6. closer' \in CloserType /\ closer'.pc = "emit" /\ closer'.error = f
  BY <1>4 DEF CloserType
<1>7. board.publishing = {}
  BY <1>1 DEF StatusOK, Silent
<1> QED
  BY <1>1, <1>5, <1>6, <1>7, CloserKeeps

LEMMA CloseKeeps == ASSUME StatusOK, Close, logger.accepted \in Seq(Nat) PROVE StatusOK'
<1>1. /\ closer.pc = "close" /\ board' = board /\ Subscribers' = Subscribers
      /\ closer' \in CloserType /\ closer'.pc = "await" /\ closer'.error = closer.error
  BY CloserFields DEF Close, Closes, CloserType, StatusOK, Subscribers
<1> QED
  BY <1>1, CloserKeeps DEF StatusOK, Silent

LEMMA ClosedKeeps == ASSUME StatusOK, Closed PROVE StatusOK'
<1>1. /\ closer.pc = "await" /\ board' = board /\ Subscribers' = Subscribers
      /\ closer'.pc = "closed" /\ (closer.error => closer'.error) /\ closer' \in CloserType
  <2>1. PICK p \in {"none", "release", "wait", "emit", "close", "await", "closed"}, d \in BOOLEAN, e \in BOOLEAN, b \in Seq(Nat) :
          closer = [pc |-> p, deadline |-> d, error |-> e, before |-> b]
    BY CloserFields DEF StatusOK
  <2>2. closer.pc = "await" /\ board' = board /\ Subscribers' = Subscribers
    BY DEF Closed, Closes, Subscribers
  <2>3. PICK x \in BOOLEAN : (e => x) /\ closer' = [closer EXCEPT !.pc = "closed", !.error = x]
    <3>1. CASE closer' = [closer EXCEPT !.pc = "closed", !.error = @ \/ logger.failures > 0]
      <4>1. PICK y : y = (logger.failures > 0)
        OBVIOUS
      <4>2. closer' = [closer EXCEPT !.pc = "closed", !.error = (closer.error \/ logger.failures > 0)]
        BY <3>1
      <4>3. (e \/ logger.failures > 0) \in BOOLEAN /\ closer.error = e
        BY <2>1
      <4> QED
        BY <4>2, <4>3
    <3>2. CASE closer' = [closer EXCEPT !.pc = "closed", !.error = TRUE]
      BY <3>2
    <3> QED
      BY <3>1, <3>2 DEF Closed
  <2>4. closer' = [pc |-> "closed", deadline |-> d, error |-> x, before |-> b]
    BY <2>1, <2>3
  <2> QED
    BY <2>1, <2>2, <2>3, <2>4 DEF CloserType
<1> QED
  BY <1>1, CloserKeeps DEF StatusOK, Silent

LEMMA RelaunchKeeps == ASSUME StatusOK, Relaunch, Subscribers' = Subscribers PROVE StatusOK'
<1>1. board' = [generation |-> 0, publishing |-> {}, target |-> <<>>, step |-> 1, open |-> Subscribers,
                channel |-> [o \in Subscribers |-> <<0>>], seen |-> [o \in Subscribers |-> -1],
                busy |-> [o \in Subscribers |-> FALSE]]
  BY DEF Relaunch, Subscribed
<1>2. closer' = [pc |-> "none", deadline |-> FALSE, error |-> FALSE, before |-> <<>>]
  BY DEF Relaunch, NotClosing
<1>3. closer' \in CloserType /\ board' \in BoardType'
  BY <1>1, <1>2 DEF CloserType, BoardType
<1>4. \A o \in Subscribers : StatusOf(o)'
  BY <1>1 DEF StatusOf
<1> QED
  BY <1>1, <1>2, <1>3, <1>4 DEF StatusOK, PublisherOK, Silent

LEMMA StatusStart == ASSUME DiagnosticInit PROVE StatusOK
<1>0. PICK scene \in Scenes : /\ board = Subscribed(scene.observers) /\ closer = NotClosing
                             /\ bounds = [scene |-> scene, events |-> 0, made |-> 0, transitions |-> 0, faults |-> 0, launches |-> 1]
  BY DEF DiagnosticInit
<1>1. board = [generation |-> 0, publishing |-> {}, target |-> <<>>, step |-> 1, open |-> Subscribers,
                channel |-> [o \in Subscribers |-> <<0>>], seen |-> [o \in Subscribers |-> -1],
                busy |-> [o \in Subscribers |-> FALSE]]
  BY <1>0 DEF Subscribed, Subscribers
<1>2. closer = [pc |-> "none", deadline |-> FALSE, error |-> FALSE, before |-> <<>>]
  BY <1>0 DEF NotClosing
<1>3. closer \in CloserType /\ board \in BoardType
  BY <1>1, <1>2 DEF CloserType, BoardType
<1>4. \A o \in Subscribers : StatusOf(o)
  BY <1>1 DEF StatusOf
<1> QED
  BY <1>1, <1>2, <1>3, <1>4 DEF StatusOK, PublisherOK, Silent

LEMMA StatusIsKept == ASSUME StatusOK PROVE StatusIsLatest
BY DEF StatusOK, StatusIsLatest, StatusOf, MutexFree, BoardType
-------------------------------------------------------------------------------
(***************************************************************************)
(* Diagnostics: the log.                                                   *)
(***************************************************************************)
LogLine == [id : Nat, size : Nat, whole : BOOLEAN]
LogEvent == [id : Nat, size : Nat, whole : {TRUE}]
Ids(lines) == {line.id : line \in ToSet(lines)}
Written == {line.id : line \in {l \in ToSet(logged) : l.whole}}
Pending == Ids(logger.queue) \cup Ids(logger.body)

(* The goroutine has an event exactly when it is at work, each failure     *)
(* loses at most one, and it drains the queue only when it has been told.  *)
LoggerShape ==
    \E q, x, p, f, s, a, h, b, n, d, l, r :
      logger = [queue |-> q, closed |-> x, pc |-> p, file |-> f, size |-> s, at |-> a, shifts |-> h, body |-> b,
                failures |-> n, accepted |-> d, lost |-> l, dropped |-> r]
LoggerOK ==
    /\ LoggerShape
    /\ logger.queue \in Seq(LogEvent) /\ logger.body \in {<<>>} \cup {<<e>> : e \in LogEvent}
    /\ logger.at = "idle" <=> logger.body = <<>>
    /\ logger.accepted \in Seq(Nat)
    /\ IsFiniteSet(logger.lost) /\ logger.failures \in Nat /\ Cardinality(logger.lost) <= logger.failures
    /\ ~logger.closed => logger.pc = "select"

EmittersOK ==
    emitters \in [Emitters -> [pc : {"idle"}, event : {<<>>}] \cup [pc : {"send"}, event : {<<e>> : e \in LogEvent}]]
Accounted == ToSet(logger.accepted) \subseteq Written \cup Pending \cup logger.lost

(* What was accepted before Close is settled when the goroutine has ended, *)
(* and written when Close has nothing to report.                           *)
CloseOK ==
    /\ emitters["closer"].pc = "send" => closer.pc = "emit"
    /\ closer.pc \in {"none", "release", "wait", "emit", "close"} => ~logger.closed
    /\ closer.pc \in {"await", "closed"} =>
         /\ ToSet(closer.before) \subseteq ToSet(logger.accepted)
         /\ logger.pc = "done" => ToSet(closer.before) \subseteq Written \cup logger.lost
    /\ closer.pc = "closed" /\ ~closer.error => ToSet(closer.before) \subseteq Written

LogInv == logged \in Seq(LogLine) /\ LoggerOK /\ EmittersOK /\ Accounted /\ CloseOK

(* What a step of the goroutine leaves as it is, and what it keeps.        *)
WriterKeeps ==
    /\ LoggerOK' /\ logged' \in Seq(LogLine) /\ UNCHANGED <<emitters, board, closer>>
    /\ logger'.closed = logger.closed /\ logger'.accepted = logger.accepted
    /\ Written \subseteq Written' /\ logger.lost \subseteq logger'.lost
    /\ Pending \subseteq Written' \cup Pending' \cup logger'.lost
    /\ logger'.pc = "done" /\ logger.pc # "done" => Pending = {}

LEMMA WriterInv == ASSUME LogInv, WriterKeeps PROVE LogInv'
<1>1. EmittersOK'
  BY DEF LogInv, EmittersOK, WriterKeeps
<1>2. Accounted'
  BY DEF LogInv, Accounted, WriterKeeps
<1>3. CloseOK'
  <2>1. closer' = closer /\ emitters' = emitters /\ logger'.closed = logger.closed /\ logger'.accepted = logger.accepted
    BY DEF WriterKeeps
  <2>2. ASSUME closer.pc \in {"await", "closed"}, logger'.pc = "done"
        PROVE  ToSet(closer.before) \subseteq Written' \cup logger'.lost
    <3>1. ToSet(closer.before) \subseteq Written \cup logger.lost
      BY <2>2 DEF WriterKeeps, LogInv, CloseOK, Accounted
    <3> QED
      BY <3>1 DEF WriterKeeps
  <2>3. Written \subseteq Written'
    BY DEF WriterKeeps
  <2> QED
    BY <2>1, <2>2, <2>3 DEF LogInv, CloseOK
<1> QED
  BY <1>1, <1>2, <1>3 DEF LogInv, WriterKeeps

(* What the lists of events and of lines hold.                             *)
LEMMA IdsOfOne == ASSUME NEW e PROVE Ids(<<e>>) = {e.id} /\ Ids(<<>>) = {}
BY DEF Ids, ToSet

LEMMA ToSetAppend == ASSUME NEW S, NEW s \in Seq(S), NEW x PROVE ToSet(Append(s, x)) = ToSet(s) \cup {x}
<1>1. PICK t : t = Append(s, x)
  OBVIOUS
<1>2. DOMAIN t = 1..(Len(s) + 1) /\ t[Len(s) + 1] = x /\ \A i \in 1..Len(s) : t[i] = s[i]
  BY <1>1
<1>3. DOMAIN s = 1..Len(s) /\ Len(s) \in Nat
  OBVIOUS
<1>4. {t[i] : i \in DOMAIN t} = {s[i] : i \in DOMAIN s} \cup {x}
  BY <1>2, <1>3
<1> QED
  BY <1>1, <1>4 DEF ToSet

LEMMA IdsJoined ==
    ASSUME NEW s \in Seq(LogEvent), NEW e \in LogEvent
    PROVE  s \o <<e>> \in Seq(LogEvent) /\ Ids(s \o <<e>>) = Ids(s) \cup {e.id}
<1>1. s \o <<e>> = Append(s, e) /\ Append(s, e) \in Seq(LogEvent)
  OBVIOUS
<1>2. ToSet(s \o <<e>>) = ToSet(s) \cup {e}
  BY <1>1, ToSetAppend
<1>3. PICK A : A = ToSet(s)
  OBVIOUS
<1>4. {x.id : x \in A \cup {e}} = {x.id : x \in A} \cup {e.id}
  OBVIOUS
<1>5. Ids(s) = {x.id : x \in A} /\ Ids(s \o <<e>>) = {x.id : x \in A \cup {e}}
  BY <1>2, <1>3 DEF Ids
<1> QED
  BY <1>1, <1>4, <1>5

LEMMA IdsHeaded ==
    ASSUME NEW s \in Seq(LogEvent), s # <<>>
    PROVE  Head(s) \in LogEvent /\ Tail(s) \in Seq(LogEvent) /\ Ids(s) = Ids(Tail(s)) \cup {Head(s).id}
<1>1. PICK t : t = Tail(s)
  OBVIOUS
<1>2. Head(s) \in LogEvent /\ t \in Seq(LogEvent)
  BY <1>1
<1>3. DOMAIN t = 1..(Len(s) - 1) /\ \A i \in 1..(Len(s) - 1) : t[i] = s[i + 1]
  BY <1>1
<1>4. DOMAIN s = 1..Len(s) /\ Len(s) \in Nat /\ Len(s) >= 1 /\ Head(s) = s[1]
  OBVIOUS
<1>5. {s[i] : i \in DOMAIN s} = {t[i] : i \in DOMAIN t} \cup {s[1]}
  <2>1. ASSUME NEW i \in DOMAIN s PROVE s[i] \in {t[j] : j \in DOMAIN t} \cup {s[1]}
    <3>1. CASE i = 1
      BY <3>1
    <3>2. CASE i # 1
      <4>1. i - 1 \in DOMAIN t /\ t[i - 1] = s[i]
        BY <1>3, <1>4, <2>1, <3>2
      <4> QED
        BY <4>1
    <3> QED
      BY <3>1, <3>2
  <2>2. ASSUME NEW j \in DOMAIN t PROVE t[j] \in {s[i] : i \in DOMAIN s}
    <3>1. j + 1 \in DOMAIN s /\ t[j] = s[j + 1]
      BY <1>3, <1>4, <2>2
    <3> QED
      BY <3>1
  <2>3. s[1] \in {s[i] : i \in DOMAIN s}
    BY <1>4
  <2> QED
    BY <2>1, <2>2, <2>3
<1>6. ToSet(s) = ToSet(t) \cup {Head(s)}
  BY <1>4, <1>5 DEF ToSet
<1> QED
  BY <1>1, <1>2, <1>6 DEF Ids

LEMMA WrittenGrows ==
    ASSUME logged \in Seq(LogLine), NEW l \in LogLine, logged' = Append(logged, l)
    PROVE  /\ logged' \in Seq(LogLine) /\ Written \subseteq Written'
           /\ l.whole => l.id \in Written'
<1>1. ToSet(logged') = ToSet(logged) \cup {l}
  BY ToSetAppend
<1> QED
  BY <1>1 DEF Written
(* The state of the logger with some of its fields replaced: when it goes  *)
(* on with its event, and when it loses it.                                *)
Going(f, s, a, h) ==
    [queue |-> logger.queue, closed |-> logger.closed, pc |-> logger.pc, file |-> f, size |-> s, at |-> a,
     shifts |-> h, body |-> logger.body, failures |-> logger.failures, accepted |-> logger.accepted,
     lost |-> logger.lost, dropped |-> logger.dropped]
Losing(f, s, h) ==
    [queue |-> logger.queue, closed |-> logger.closed, pc |-> logger.pc, file |-> f, size |-> s, at |-> "idle",
     shifts |-> h, body |-> <<>>, failures |-> logger.failures + 1, accepted |-> logger.accepted,
     lost |-> logger.lost \cup Ids(logger.body), dropped |-> logger.dropped]

LEMMA GoingIs ==
    ASSUME LoggerShape, NEW f, NEW s, NEW a, NEW h
    PROVE  /\ [logger EXCEPT !.at = a] = Going(logger.file, logger.size, a, logger.shifts)
           /\ [logger EXCEPT !.file = f, !.at = a] = Going(f, logger.size, a, logger.shifts)
           /\ [logger EXCEPT !.at = a, !.shifts = h] = Going(logger.file, logger.size, a, h)
           /\ [logger EXCEPT !.shifts = h] = Going(logger.file, logger.size, logger.at, h)
           /\ [logger EXCEPT !.file = f, !.size = s, !.at = a] = Going(f, s, a, logger.shifts)
<1>1. PICK q, x, p, f1, s1, a1, h1, b, n, d, l, r :
        logger = [queue |-> q, closed |-> x, pc |-> p, file |-> f1, size |-> s1, at |-> a1, shifts |-> h1, body |-> b,
                  failures |-> n, accepted |-> d, lost |-> l, dropped |-> r]
  BY DEF LoggerShape
<1>2. [logger EXCEPT !.at = a] = Going(logger.file, logger.size, a, logger.shifts)
  BY <1>1 DEF Going
<1>3. PICK y, z : y = [logger EXCEPT !.file = f] /\ z = [logger EXCEPT !.at = a]
  OBVIOUS
<1>4. /\ y = [queue |-> q, closed |-> x, pc |-> p, file |-> f, size |-> s1, at |-> a1, shifts |-> h1, body |-> b,
               failures |-> n, accepted |-> d, lost |-> l, dropped |-> r]
      /\ z = [queue |-> q, closed |-> x, pc |-> p, file |-> f1, size |-> s1, at |-> a, shifts |-> h1, body |-> b,
               failures |-> n, accepted |-> d, lost |-> l, dropped |-> r]
  BY <1>1, <1>3
<1>7. [y EXCEPT !.at = a] = Going(f, logger.size, a, logger.shifts)
  BY <1>1, <1>4 DEF Going
<1>8. [z EXCEPT !.shifts = h] = Going(logger.file, logger.size, a, h)
  BY <1>1, <1>4 DEF Going
<1>9. PICK w : w = [y EXCEPT !.size = s]
  OBVIOUS
<1>10. w = [queue |-> q, closed |-> x, pc |-> p, file |-> f, size |-> s, at |-> a1, shifts |-> h1, body |-> b,
            failures |-> n, accepted |-> d, lost |-> l, dropped |-> r]
  BY <1>4, <1>9
<1>5. [logger EXCEPT !.shifts = h] = Going(logger.file, logger.size, logger.at, h)
  BY <1>1 DEF Going
<1>6. [w EXCEPT !.at = a] = Going(f, s, a, logger.shifts)
  BY <1>1, <1>10 DEF Going
<1> QED
  BY <1>2, <1>3, <1>5, <1>6, <1>7, <1>8, <1>9

LEMMA LosingIs ==
    ASSUME LoggerShape, NEW f, NEW s, NEW h
    PROVE  /\ recordFailure = Losing(logger.file, logger.size, logger.shifts)
           /\ [recordFailure EXCEPT !.file = f] = Losing(f, logger.size, logger.shifts)
           /\ [recordFailure EXCEPT !.shifts = h] = Losing(logger.file, logger.size, h)
           /\ [recordFailure EXCEPT !.size = s] = Losing(logger.file, s, logger.shifts)
<1>1. PICK q, x, p, f1, s1, a1, h1, b, n, d, l, r :
        logger = [queue |-> q, closed |-> x, pc |-> p, file |-> f1, size |-> s1, at |-> a1, shifts |-> h1, body |-> b,
                  failures |-> n, accepted |-> d, lost |-> l, dropped |-> r]
  BY DEF LoggerShape
<1>2. PICK ids : ids = Ids(logger.body)
  OBVIOUS
<1>3. recordFailure = [logger EXCEPT !.at = "idle", !.body = <<>>, !.failures = @ + 1, !.lost = @ \cup ids]
  BY <1>2 DEF recordFailure, Ids
<1>4. PICK z : z = recordFailure
  OBVIOUS
<1>5. PICK m, k : m = n + 1 /\ k = l \cup ids
  OBVIOUS
<1>6. z = [queue |-> q, closed |-> x, pc |-> p, file |-> f1, size |-> s1, at |-> "idle", shifts |-> h1, body |-> <<>>,
           failures |-> m, accepted |-> d, lost |-> k, dropped |-> r]
  BY <1>1, <1>3, <1>4, <1>5
<1>7. ASSUME NEW f2, NEW s2, NEW h2
      PROVE  Losing(f2, s2, h2) =
               [queue |-> q, closed |-> x, pc |-> p, file |-> f2, size |-> s2, at |-> "idle", shifts |-> h2, body |-> <<>>,
                failures |-> m, accepted |-> d, lost |-> k, dropped |-> r]
  <2>1. /\ logger.queue = q /\ logger.closed = x /\ logger.pc = p /\ logger.accepted = d /\ logger.dropped = r
        /\ logger.failures + 1 = m /\ logger.lost \cup Ids(logger.body) = k
    BY <1>1, <1>2, <1>5
  <2> QED
    BY <2>1 DEF Losing
<1>8. z = Losing(logger.file, logger.size, logger.shifts)
  BY <1>1, <1>6, <1>7
<1>9. [z EXCEPT !.file = f] = Losing(f, logger.size, logger.shifts)
  BY <1>1, <1>6, <1>7
<1>10. [z EXCEPT !.shifts = h] = Losing(logger.file, logger.size, h)
  BY <1>1, <1>6, <1>7
<1>11. [z EXCEPT !.size = s] = Losing(logger.file, s, logger.shifts)
  BY <1>1, <1>6, <1>7
<1> QED
  BY <1>4, <1>8, <1>9, <1>10, <1>11

(* A step within the work on an event, which goes on.                      *)
LEMMA GoingKeeps ==
    ASSUME LogInv, NEW f, NEW s, NEW a, NEW h, logger' = Going(f, s, a, h), a # "idle", logger.at # "idle",
           logged' = logged, UNCHANGED <<emitters, board, closer>>
    PROVE  WriterKeeps
<1>1. /\ logger'.queue = logger.queue /\ logger'.closed = logger.closed /\ logger'.pc = logger.pc /\ logger'.at = a
      /\ logger'.body = logger.body /\ logger'.failures = logger.failures /\ logger'.accepted = logger.accepted
      /\ logger'.lost = logger.lost
  BY DEF Going
<1>2. LoggerShape'
  <2>1. PICK q, x, p, b, n, d, l, r :
          logger' = [queue |-> q, closed |-> x, pc |-> p, file |-> f, size |-> s, at |-> a, shifts |-> h, body |-> b,
                     failures |-> n, accepted |-> d, lost |-> l, dropped |-> r]
    BY DEF Going
  <2> QED
    BY <2>1 DEF LoggerShape
<1>3. LoggerOK'
  BY <1>1, <1>2 DEF LoggerOK, LogInv
<1>4. Written' = Written /\ Pending' = Pending
  BY <1>1 DEF Written, Pending
<1> QED
  BY <1>1, <1>3, <1>4 DEF WriterKeeps, LogInv

(* A step that gives the event up counts it, so no more are lost than      *)
(* failures are counted.                                                   *)
LEMMA LosingKeeps ==
    ASSUME LogInv, NEW f, NEW s, NEW h, logger' = Losing(f, s, h), logger.at # "idle",
           logged' \in Seq(LogLine), Written \subseteq Written', UNCHANGED <<emitters, board, closer>>
    PROVE  WriterKeeps
<1>1. /\ logger'.queue = logger.queue /\ logger'.closed = logger.closed /\ logger'.pc = logger.pc /\ logger'.at = "idle"
      /\ logger'.body = <<>> /\ logger'.failures = logger.failures + 1 /\ logger'.accepted = logger.accepted
      /\ logger'.lost = logger.lost \cup Ids(logger.body)
  BY DEF Losing
<1>2. LoggerShape'
  <2>1. PICK q, x, p, b, n, d, l, r :
          logger' = [queue |-> q, closed |-> x, pc |-> p, file |-> f, size |-> s, at |-> "idle", shifts |-> h, body |-> b,
                     failures |-> n, accepted |-> d, lost |-> l, dropped |-> r]
    BY DEF Losing
  <2> QED
    BY <2>1 DEF LoggerShape
<1>3. PICK e \in LogEvent : logger.body = <<e>>
  BY DEF LogInv, LoggerOK
<1>4. Ids(logger.body) = {e.id} /\ Ids(<<>>) = {}
  BY <1>3, IdsOfOne
<1>5. IsFiniteSet(logger'.lost) /\ Cardinality(logger'.lost) <= logger'.failures /\ logger'.failures \in Nat
  <2>1. PICK lost : lost = logger.lost
    OBVIOUS
  <2>2. IsFiniteSet(lost) /\ Cardinality(lost) <= logger.failures /\ logger.failures \in Nat
    BY <2>1 DEF LogInv, LoggerOK
  <2>3. /\ IsFiniteSet(lost \cup {e.id})
        /\ Cardinality(lost \cup {e.id}) = IF e.id \in lost THEN Cardinality(lost) ELSE Cardinality(lost) + 1
    BY <2>2, FS_AddElement
  <2>4. Cardinality(lost) \in Nat
    BY <2>2, FS_CardinalityType
  <2>5. Cardinality(lost \cup {e.id}) <= logger.failures + 1
    BY <2>2, <2>3, <2>4
  <2> QED
    BY <1>1, <1>4, <2>1, <2>2, <2>3, <2>5
<1>6. LoggerOK'
  BY <1>1, <1>2, <1>5 DEF LoggerOK, LogInv
<1>7. Pending \subseteq Pending' \cup logger'.lost
  BY <1>1 DEF Pending
<1> QED
  BY <1>1, <1>6, <1>7 DEF WriterKeeps

(* The goroutine takes the next event, and stops when it is told to.       *)
LEMMA ReceiveKeeps == ASSUME LogInv, Receive PROVE WriterKeeps
<1>1. PICK q, x, p, f1, s1, a1, h1, b, n, d, l, r :
        logger = [queue |-> q, closed |-> x, pc |-> p, file |-> f1, size |-> s1, at |-> a1, shifts |-> h1, body |-> b,
                  failures |-> n, accepted |-> d, lost |-> l, dropped |-> r]
  BY DEF LogInv, LoggerOK, LoggerShape
<1>2. logger.queue \in Seq(LogEvent) /\ logger.queue # <<>> /\ logger.at = "idle" /\ logger.body = <<>>
  BY DEF LogInv, LoggerOK, Receive
<1>3. PICK u, e : u = Tail(logger.queue) /\ e = Head(logger.queue)
  OBVIOUS
<1>4. u \in Seq(LogEvent) /\ e \in LogEvent /\ Ids(logger.queue) = Ids(u) \cup {e.id}
  BY <1>2, <1>3, IdsHeaded
<1>5. logger' = [queue |-> u, closed |-> x, pc |-> p, file |-> f1, size |-> s1, at |-> "write", shifts |-> h1, body |-> <<e>>,
                 failures |-> n, accepted |-> d, lost |-> l, dropped |-> r]
  <2>1. logger' = [logger EXCEPT !.queue = u, !.body = <<e>>, !.at = "write"]
    BY <1>3 DEF Receive
  <2> QED
    BY <1>1, <2>1
<1>6. LoggerShape'
  BY <1>5 DEF LoggerShape
<1>7. <<e>> # <<>>
  OBVIOUS
<1>8. LoggerOK'
  BY <1>1, <1>4, <1>5, <1>6, <1>7 DEF LoggerOK, LogInv
<1>9. Ids(<<e>>) = {e.id} /\ Ids(<<>>) = {}
  BY IdsOfOne
<1>10. Pending' = Ids(u) \cup {e.id}
  <2>1. logger'.queue = u /\ logger'.body = <<e>>
    BY <1>5
  <2> QED
    BY <1>9, <2>1 DEF Pending
<1>11. Pending = Pending' /\ Written' = Written /\ logged' = logged
  BY <1>2, <1>4, <1>9, <1>10 DEF Pending, Written, Receive
<1> QED
  BY <1>1, <1>5, <1>8, <1>11 DEF WriterKeeps, Receive, LogInv

LEMMA StopKeeps == ASSUME LogInv, Stop PROVE WriterKeeps
<1>1. PICK q, x, p, f1, s1, a1, h1, b, n, d, l, r :
        logger = [queue |-> q, closed |-> x, pc |-> p, file |-> f1, size |-> s1, at |-> a1, shifts |-> h1, body |-> b,
                  failures |-> n, accepted |-> d, lost |-> l, dropped |-> r]
  BY DEF LogInv, LoggerOK, LoggerShape
<1>2. logger' = [queue |-> q, closed |-> x, pc |-> "drain", file |-> f1, size |-> s1, at |-> a1, shifts |-> h1, body |-> b,
                 failures |-> n, accepted |-> d, lost |-> l, dropped |-> r]
  BY <1>1 DEF Stop
<1>3. LoggerShape'
  BY <1>2 DEF LoggerShape
<1>4. LoggerOK'
  BY <1>1, <1>2, <1>3 DEF LoggerOK, LogInv, Stop
<1>5. Pending = Pending' /\ Written' = Written /\ logged' = logged
  BY <1>1, <1>2 DEF Pending, Written, Stop
<1> QED
  BY <1>1, <1>2, <1>4, <1>5 DEF WriterKeeps, Stop, LogInv

(* It has ended when the queue is empty and no event is at work.           *)
LEMMA finishKeeps == ASSUME LogInv, finish PROVE WriterKeeps
<1>1. PICK q, x, p, f1, s1, a1, h1, b, n, d, l, r :
        logger = [queue |-> q, closed |-> x, pc |-> p, file |-> f1, size |-> s1, at |-> a1, shifts |-> h1, body |-> b,
                  failures |-> n, accepted |-> d, lost |-> l, dropped |-> r]
  BY DEF LogInv, LoggerOK, LoggerShape
<1>2. n \in Nat /\ p = "drain" /\ q = <<>> /\ b = <<>>
  BY <1>1 DEF finish, LogInv, LoggerOK
<1>3. PICK m \in {n, n + 1, n + 2} :
        logger' = [queue |-> q, closed |-> x, pc |-> "done", file |-> "closed", size |-> s1, at |-> a1, shifts |-> h1, body |-> b,
                   failures |-> m, accepted |-> d, lost |-> l, dropped |-> r]
  <2>1. PICK m \in {n, n + 1, n + 2} : logger' = [logger EXCEPT !.pc = "done", !.file = "closed", !.failures = m]
    BY <1>1 DEF finish
  <2> QED
    BY <1>1, <2>1
<1>4. LoggerShape'
  BY <1>3 DEF LoggerShape
<1>5. m \in Nat /\ n <= m
  BY <1>2
<1>6. IsFiniteSet(l) /\ Cardinality(l) <= m
  BY <1>1, <1>2, <1>5, FS_CardinalityType DEF LogInv, LoggerOK
<1>8. LoggerOK'
  <2>1. /\ logger'.queue = q /\ logger'.body = b /\ logger'.at = a1 /\ logger'.accepted = d /\ logger'.lost = l
        /\ logger'.failures = m /\ logger'.closed = x /\ logger'.pc = "done"
    BY <1>3
  <2>2. /\ q \in Seq(LogEvent) /\ b \in {<<>>} \cup {<<e>> : e \in LogEvent} /\ (a1 = "idle" <=> b = <<>>) /\ d \in Seq(Nat)
    BY <1>1 DEF LoggerOK, LogInv
  <2>3. ~x => FALSE
    BY <1>1, <1>2 DEF LogInv, LoggerOK
  <2> QED
    BY <1>4, <1>5, <1>6, <2>1, <2>2, <2>3 DEF LoggerOK
<1>9. Pending = Pending' /\ Written' = Written /\ logged' = logged /\ Pending = {}
  BY <1>1, <1>2, <1>3, IdsOfOne DEF Pending, Written, finish
<1> QED
  BY <1>1, <1>3, <1>8, <1>9 DEF WriterKeeps, finish, LogInv
(* The steps of a write and of a rotation go on with the event or lose it. *)
GoesOrLoses ==
    \E f, s, a, h : \/ logger' = Going(f, s, a, h) /\ a # "idle" /\ logged' = logged
                    \/ logger' = Losing(f, s, h) /\ logged' = logged

LEMMA GoingGoes ==
    ASSUME NEW f, NEW s, NEW a, NEW h, logger' = Going(f, s, a, h), a # "idle", logged' = logged PROVE GoesOrLoses
BY DEF GoesOrLoses

LEMMA LosingLoses ==
    ASSUME NEW f, NEW s, NEW h, logger' = Losing(f, s, h), logged' = logged PROVE GoesOrLoses
BY DEF GoesOrLoses

LEMMA GoesOrLosesKeeps ==
    ASSUME LogInv, GoesOrLoses, logger.at # "idle", UNCHANGED <<emitters, board, closer>> PROVE WriterKeeps
<1>1. PICK f, s, a, h : \/ logger' = Going(f, s, a, h) /\ a # "idle" /\ logged' = logged
                        \/ logger' = Losing(f, s, h) /\ logged' = logged
  BY DEF GoesOrLoses
<1>2. ASSUME logged' = logged PROVE logged' \in Seq(LogLine) /\ Written \subseteq Written'
  BY <1>2 DEF LogInv, Written
<1>3. CASE logger' = Going(f, s, a, h) /\ a # "idle" /\ logged' = logged
  BY <1>3, GoingKeeps
<1>4. CASE logger' = Losing(f, s, h) /\ logged' = logged
  BY <1>2, <1>4, LosingKeeps
<1> QED
  BY <1>1, <1>3, <1>4

LEMMA rotateGoes ==
    ASSUME LogInv, write \/ rotateSync \/ rotateClose \/ rotateDrop \/ rotateShift \/ rotateOpen
    PROVE  GoesOrLoses /\ logger.at # "idle" /\ UNCHANGED <<emitters, board, closer, logged>>
<1>s. LoggerShape
  BY DEF LogInv, LoggerOK
<1>1. logger.at # "idle" /\ UNCHANGED <<emitters, board, closer, logged>>
  BY DEF write, rotateSync, rotateClose, rotateDrop, rotateShift, rotateOpen, At
<1>2. ASSUME logger' = recordFailure PROVE GoesOrLoses
  <2>1. logger' = Losing(logger.file, logger.size, logger.shifts)
    BY <1>2, <1>s, LosingIs
  <2> QED
    BY <1>1, <2>1, LosingLoses
<1>3. ASSUME NEW a, a # "idle", logger' = [logger EXCEPT !.at = a] PROVE GoesOrLoses
  <2>1. logger' = Going(logger.file, logger.size, a, logger.shifts)
    BY <1>3, <1>s, GoingIs
  <2> QED
    BY <1>1, <1>3, <2>1, GoingGoes
<1>4. CASE write
  <2>1. logger' = recordFailure \/ \E a \in {"sync", "append"} : logger' = [logger EXCEPT !.at = a]
    BY <1>4 DEF write, Goes
  <2> QED
    BY <2>1, <1>1, <1>2, <1>3
<1>5. CASE rotateSync
  <2>1. logger' = recordFailure \/ logger' = [logger EXCEPT !.at = "close"]
    BY <1>5 DEF rotateSync, Goes, GivesUp
  <2> QED
    BY <2>1, <1>1, <1>2, <1>3
<1>6. CASE rotateClose
  <2>1. logger' = [recordFailure EXCEPT !.file = "closed"] \/ logger' = [logger EXCEPT !.file = "closed", !.at = "drop"]
    BY <1>6 DEF rotateClose
  <2>2. GoesOrLoses
    <3>1. \/ logger' = Losing("closed", logger.size, logger.shifts)
          \/ logger' = Going("closed", logger.size, "drop", logger.shifts)
      BY <2>1, <1>s, LosingIs, GoingIs
    <3> QED
      BY <1>1, <3>1, LosingLoses, GoingGoes
  <2> QED
    BY <2>2, <1>1
<1>7. CASE rotateDrop
  <2>1. logger' = recordFailure \/ \E a \in {"open", "shift"} : logger' = [logger EXCEPT !.at = a]
    BY <1>7 DEF rotateDrop, Goes, GivesUp
  <2> QED
    BY <2>1, <1>1, <1>2, <1>3
<1>8. CASE rotateShift
  <2>1. \/ logger' = [recordFailure EXCEPT !.shifts = 0]
        \/ logger' = [logger EXCEPT !.at = "open", !.shifts = 0]
        \/ logger' = [logger EXCEPT !.shifts = @ + 1]
    BY <1>8 DEF rotateShift
  <2>2. GoesOrLoses
    <3>1. CASE logger' = [recordFailure EXCEPT !.shifts = 0]
      <4>1. logger' = Losing(logger.file, logger.size, 0)
        BY <3>1, <1>s, LosingIs
      <4> QED
        BY <1>1, <4>1, LosingLoses
    <3>2. CASE logger' = [logger EXCEPT !.at = "open", !.shifts = 0]
      <4>1. logger' = Going(logger.file, logger.size, "open", 0)
        BY <3>2, <1>s, GoingIs
      <4> QED
        BY <1>1, <4>1, GoingGoes
    <3>3. CASE logger' = [logger EXCEPT !.shifts = @ + 1]
      <4>1. PICK h : h = logger.shifts + 1
        OBVIOUS
      <4>2. logger' = [logger EXCEPT !.shifts = h]
        BY <3>3, <4>1
      <4>3. logger' = Going(logger.file, logger.size, logger.at, h)
        BY <4>2, <1>s, GoingIs
      <4> QED
        BY <1>1, <4>3, GoingGoes
    <3> QED
      BY <2>1, <3>1, <3>2, <3>3
  <2> QED
    BY <2>2, <1>1
<1>9. CASE rotateOpen
  <2>1. logger' = recordFailure \/ logger' = [logger EXCEPT !.file = "open", !.size = 0, !.at = "append"]
    BY <1>9 DEF rotateOpen, GivesUp
  <2>2. ASSUME logger' = [logger EXCEPT !.file = "open", !.size = 0, !.at = "append"] PROVE GoesOrLoses
    <3>1. logger' = Going("open", 0, "append", logger.shifts)
      BY <2>2, <1>s, GoingIs
    <3> QED
      BY <1>1, <3>1, GoingGoes
  <2> QED
    BY <2>1, <2>2, <1>1, <1>2
<1> QED
  BY <1>4, <1>5, <1>6, <1>7, <1>8, <1>9

LEMMA rotateKeeps ==
    ASSUME LogInv, write \/ rotateSync \/ rotateClose \/ rotateDrop \/ rotateShift \/ rotateOpen
    PROVE  WriterKeeps
BY rotateGoes, GoesOrLosesKeeps

(* A line is written whole, not at all, or cut short by a failure.         *)
LEMMA WriteBodyKeeps == ASSUME LogInv, WriteBody PROVE WriterKeeps
<1>1. logger.at = "append" /\ UNCHANGED <<emitters, board, closer>>
  BY DEF WriteBody, At
<1>2. PICK e \in LogEvent : logger.body = <<e>>
  BY <1>1 DEF LogInv, LoggerOK
<1>3. logger.body[1] = e /\ LoggerShape
  <2>1. <<e>>[1] = e
    OBVIOUS
  <2> QED
    BY <1>2, <2>1 DEF LogInv, LoggerOK
<1>4. \/ logged' = Append(logged, e) /\ \E s : logger' = [logger EXCEPT !.at = "idle", !.body = <<>>, !.size = s]
      \/ logged' = logged /\ logger' = recordFailure
      \/ /\ logged' = Append(logged, [e EXCEPT !.size = 1, !.whole = FALSE])
         /\ \E s : logger' = [recordFailure EXCEPT !.size = s]
  BY <1>3 DEF WriteBody
<1>5. CASE logged' = Append(logged, e) /\ \E s : logger' = [logger EXCEPT !.at = "idle", !.body = <<>>, !.size = s]
  <2>1. PICK s : logger' = [logger EXCEPT !.at = "idle", !.body = <<>>, !.size = s]
    BY <1>5
  <2>2. PICK q, x, p, f1, s1, a1, h1, b, n, d, l, r :
          logger = [queue |-> q, closed |-> x, pc |-> p, file |-> f1, size |-> s1, at |-> a1, shifts |-> h1, body |-> b,
                    failures |-> n, accepted |-> d, lost |-> l, dropped |-> r]
    BY <1>3 DEF LoggerShape
  <2>3. logger' = [queue |-> q, closed |-> x, pc |-> p, file |-> f1, size |-> s, at |-> "idle", shifts |-> h1, body |-> <<>>,
                   failures |-> n, accepted |-> d, lost |-> l, dropped |-> r]
    BY <2>1, <2>2
  <2>4. LoggerShape'
    BY <2>3 DEF LoggerShape
  <2>5. LoggerOK'
    BY <2>2, <2>3, <2>4 DEF LoggerOK, LogInv
  <2>6. e \in LogLine /\ e.whole
    BY DEF LogLine, LogEvent
  <2>7. logged' \in Seq(LogLine) /\ Written \subseteq Written' /\ e.id \in Written'
    BY <1>5, <2>6, WrittenGrows DEF LogInv
  <2>8. Pending = Ids(q) \cup {e.id} /\ Ids(q) \subseteq Pending'
    BY <1>2, <2>2, <2>3, IdsOfOne DEF Pending
  <2> QED
    BY <1>1, <2>2, <2>3, <2>5, <2>7, <2>8 DEF WriterKeeps
<1>6. CASE logged' = logged /\ logger' = recordFailure
  <2>1. logger' = Losing(logger.file, logger.size, logger.shifts)
    BY <1>3, <1>6, LosingIs
  <2> QED
    BY <1>1, <1>6, <2>1, LosingLoses, GoesOrLosesKeeps
<1>7. CASE /\ logged' = Append(logged, [e EXCEPT !.size = 1, !.whole = FALSE])
           /\ \E s : logger' = [recordFailure EXCEPT !.size = s]
  <2>1. PICK s : logger' = [recordFailure EXCEPT !.size = s]
    BY <1>7
  <2>2. PICK l : l = [e EXCEPT !.size = 1, !.whole = FALSE]
    OBVIOUS
  <2>3. l \in LogLine
    BY <2>2 DEF LogLine, LogEvent
  <2>4. logged' \in Seq(LogLine) /\ Written \subseteq Written'
    BY <1>7, <2>2, <2>3, WrittenGrows DEF LogInv
  <2>5. logger' = Losing(logger.file, s, logger.shifts)
    BY <1>3, <2>1, LosingIs
  <2> QED
    BY <1>1, <2>4, <2>5, LosingKeeps
<1> QED
  BY <1>4, <1>5, <1>6, <1>7

LEMMA WriterStep == ASSUME LogInv, Writer PROVE LogInv' /\ UNCHANGED <<board, closer>>
<1>1. WriterKeeps
  BY ReceiveKeeps, StopKeeps, finishKeeps, rotateKeeps, WriteBodyKeeps DEF Writer
<1> QED
  BY <1>1, WriterInv DEF WriterKeeps

(* The queue and what was accepted get an event, or neither does.          *)
LEMMA SendKeeps ==
    ASSUME LogInv, closer \in CloserType, NEW e \in Emitters, Send(e) PROVE LogInv'
<1>1. PICK v \in LogEvent : emitters[e] = [pc |-> "send", event |-> <<v>>]
  <2>1. emitters[e] \in [pc : {"idle"}, event : {<<>>}] \cup [pc : {"send"}, event : {<<v>> : v \in LogEvent}]
    BY DEF LogInv, EmittersOK
  <2>2. emitters[e].pc = "send"
    BY DEF Send
  <2>3. emitters[e] \in [pc : {"send"}, event : {<<v>> : v \in LogEvent}]
    BY <2>1, <2>2
  <2> QED
    BY <2>3
<1>2. PICK q, x, p, f1, s1, a1, h1, b, n, d, l, r :
        logger = [queue |-> q, closed |-> x, pc |-> p, file |-> f1, size |-> s1, at |-> a1, shifts |-> h1, body |-> b,
                  failures |-> n, accepted |-> d, lost |-> l, dropped |-> r]
  BY DEF LogInv, LoggerOK, LoggerShape
<1>3. q \in Seq(LogEvent) /\ d \in Seq(Nat) /\ v.id \in Nat
  BY <1>2 DEF LogInv, LoggerOK, LogEvent
<1>4. PICK u, w : u = q \o <<v>> /\ w = Append(d, v.id)
  OBVIOUS
<1>5. /\ u \in Seq(LogEvent) /\ Ids(u) = Ids(q) \cup {v.id}
      /\ w \in Seq(Nat) /\ ToSet(w) = ToSet(d) \cup {v.id}
  BY <1>3, <1>4, IdsJoined, ToSetAppend
<1>6. /\ LoggerOK' /\ logger'.closed = x /\ logger'.pc = p /\ logger'.lost = l
      /\ Accounted' /\ ToSet(d) \subseteq ToSet(logger'.accepted) /\ Written' = Written /\ logged' = logged
  <2>0. Written' = Written /\ logged' = logged
    BY DEF Send, Written
  <2>1. CASE logger' = [logger EXCEPT !.queue = u, !.accepted = w]
    <3>1. logger' = [queue |-> u, closed |-> x, pc |-> p, file |-> f1, size |-> s1, at |-> a1, shifts |-> h1, body |-> b,
                     failures |-> n, accepted |-> w, lost |-> l, dropped |-> r]
      BY <1>2, <2>1
    <3>2. LoggerShape'
      BY <3>1 DEF LoggerShape
    <3>3. LoggerOK'
      BY <1>2, <1>5, <3>1, <3>2 DEF LoggerOK, LogInv
    <3>4. Pending' = Ids(u) \cup Ids(b) /\ Pending = Ids(q) \cup Ids(b)
      BY <1>2, <3>1 DEF Pending
    <3>5. Accounted'
      BY <1>2, <1>5, <2>0, <3>1, <3>4 DEF Accounted, LogInv
    <3> QED
      BY <1>5, <2>0, <3>1, <3>3, <3>5
  <2>2. CASE logger' = [logger EXCEPT !.dropped = @ + 1]
    <3>1. PICK m : logger' = [queue |-> q, closed |-> x, pc |-> p, file |-> f1, size |-> s1, at |-> a1, shifts |-> h1, body |-> b,
                              failures |-> n, accepted |-> d, lost |-> l, dropped |-> m]
      BY <1>2, <2>2
    <3>2. LoggerShape'
      BY <3>1 DEF LoggerShape
    <3>3. LoggerOK'
      BY <1>2, <3>1, <3>2 DEF LoggerOK, LogInv
    <3>4. Pending' = Pending
      BY <1>2, <3>1 DEF Pending
    <3>5. Accounted'
      BY <1>2, <2>0, <3>1, <3>4 DEF Accounted, LogInv
    <3> QED
      BY <2>0, <3>1, <3>3, <3>5
  <2>3. emitters[e].event = <<v>> /\ emitters[e].event[1].id = v.id /\ logger.queue = q /\ logger.accepted = d
    <3>1. <<v>>[1] = v
      OBVIOUS
    <3>2. emitters[e].event = <<v>>
      BY <1>1
    <3> QED
      BY <1>2, <3>1, <3>2
  <2> QED
    <3>1. \/ logger' = [logger EXCEPT !.queue = @ \o emitters[e].event, !.accepted = Append(@, emitters[e].event[1].id)]
          \/ logger' = [logger EXCEPT !.dropped = @ + 1]
      BY DEF Send
    <3>2. ASSUME logger' = [logger EXCEPT !.queue = @ \o emitters[e].event, !.accepted = Append(@, emitters[e].event[1].id)]
          PROVE  logger' = [logger EXCEPT !.queue = u, !.accepted = w]
      <4>1. logger' = [logger EXCEPT !.queue = logger.queue \o emitters[e].event,
                                     !.accepted = Append(logger.accepted, emitters[e].event[1].id)]
        BY <3>2
      <4> QED
        BY <1>4, <2>3, <4>1
    <3> QED
      BY <2>1, <2>2, <3>1, <3>2
<1>7. EmittersOK' /\ emitters'[e].pc = "idle" /\ \A i \in Emitters \ {e} : emitters'[i] = emitters[i]
  BY DEF Send, NotEmitting, EmittersOK, LogInv
<1>8. CloseOK'
  <2>1. CASE e = "closer"
    <3>1. closer.pc = "emit"
      BY <1>1, <2>1 DEF LogInv, CloseOK
    <3>2. closer'.pc = "close"
      BY <2>1, CloserFields DEF Send
    <3>3. ~x
      BY <1>2, <3>1 DEF LogInv, CloseOK
    <3> QED
      BY <1>6, <1>7, <2>1, <3>2, <3>3 DEF CloseOK
  <2>2. CASE e # "closer"
    <3>1. closer' = closer /\ emitters'["closer"] = emitters["closer"]
      BY <1>7, <2>2 DEF Send, Emitters
    <3>2. ToSet(logger.accepted) = ToSet(d) /\ logger.closed = x /\ logger.pc = p /\ logger.lost = l
      BY <1>2
    <3> QED
      BY <1>6, <3>1, <3>2 DEF CloseOK, LogInv
  <2> QED
    BY <2>1, <2>2
<1> QED
  BY <1>6, <1>7, <1>8 DEF LogInv

LEMMA LoggerStays ==
    ASSUME LogInv, UNCHANGED <<logged, logger>>
    PROVE  LoggerOK' /\ Accounted' /\ Written' = Written /\ logged' \in Seq(LogLine)
<1>0. PICK q, x, p, f1, s1, a1, h1, b, n, d, l, r :
        logger = [queue |-> q, closed |-> x, pc |-> p, file |-> f1, size |-> s1, at |-> a1, shifts |-> h1, body |-> b,
                  failures |-> n, accepted |-> d, lost |-> l, dropped |-> r]
  BY DEF LogInv, LoggerOK, LoggerShape
<1>1. LoggerShape'
  BY <1>0 DEF LoggerShape
<1>2. LoggerOK'
  BY <1>1 DEF LogInv, LoggerOK
<1>3. Written' = Written /\ Pending' = Pending
  BY DEF Written, Pending
<1> QED
  BY <1>2, <1>3 DEF LogInv, Accounted

(* An event that is made waits with its emitter.                           *)
LEMMA EmitKeeps ==
    ASSUME LogInv, BoundsOK, NEW e \in Emitters, NEW size \in Nat, Emit(e, size), UNCHANGED <<logged, logger, closer>>,
           e # "closer"
    PROVE  LogInv'
<1>1. PICK v : v = [id |-> bounds.made + 1, size |-> size, whole |-> TRUE]
  OBVIOUS
<1>2. v \in LogEvent
  BY <1>1 DEF LogEvent, BoundsOK, BoundsType
<1>3. emitters' = [emitters EXCEPT ![e] = [pc |-> "send", event |-> <<v>>]]
  BY <1>1 DEF Emit
<1>4. EmittersOK' /\ emitters'["closer"] = emitters["closer"]
  BY <1>2, <1>3 DEF EmittersOK, LogInv, Emitters
<1>5. LoggerOK' /\ Accounted' /\ Written' = Written
  BY LoggerStays DEF LogInv
<1>6. CloseOK'
  BY <1>4, <1>5 DEF LogInv, CloseOK
<1> QED
  BY <1>4, <1>5, <1>6 DEF LogInv

(* The board is nothing to the log.                                        *)
LEMMA LogStays == ASSUME LogInv, UNCHANGED <<logged, logger, emitters, closer>> PROVE LogInv'
<1>1. EmittersOK'
  BY DEF LogInv, EmittersOK
<1>2. CloseOK'
  BY LoggerStays DEF LogInv, CloseOK
<1> QED
  BY <1>1, <1>2, LoggerStays DEF LogInv

(* The steps of Process.Close before the log is closed.                    *)
LEMMA EndingKeeps ==
    ASSUME LogInv, StatusOK, CloseProcess \/ Unsubscribe \/ Deadline PROVE LogInv'
<1>1. UNCHANGED <<logged, logger, emitters>>
  BY DEF CloseProcess, Unsubscribe, Deadline, Closes
<1>2. closer'.before = closer.before /\ closer'.error = closer.error
  BY CloserFields DEF CloseProcess, Unsubscribe, Deadline, StatusOK
<1>3. \/ closer.pc \in {"none", "release"} /\ closer'.pc \in {"release", "wait"}
      \/ closer'.pc = closer.pc
  BY CloserFields DEF CloseProcess, Unsubscribe, Deadline, Closes, StatusOK
<1>4. CloseOK'
  BY <1>1, <1>2, <1>3, LoggerStays DEF LogInv, CloseOK
<1>5. EmittersOK'
  BY <1>1 DEF LogInv, EmittersOK
<1> QED
  BY <1>1, <1>4, <1>5, LoggerStays DEF LogInv

LEMMA StoppedKeeps == ASSUME LogInv, StatusOK, BoundsOK, EmitStopped PROVE LogInv'
<1>1. UNCHANGED <<logged, logger>> /\ closer.pc = "wait"
  BY DEF EmitStopped, Closes
<1>2. closer'.pc = "emit"
  BY CloserFields DEF EmitStopped, StatusOK
<1>3. PICK v : v = [id |-> bounds.made + 1, size |-> 1, whole |-> TRUE]
  OBVIOUS
<1>4. v \in LogEvent
  BY <1>3 DEF LogEvent, BoundsOK, BoundsType
<1>5. emitters' = [emitters EXCEPT !["closer"] = [pc |-> "send", event |-> <<v>>]]
  BY <1>3 DEF EmitStopped, Emit
<1>6. EmittersOK'
  BY <1>4, <1>5 DEF EmittersOK, LogInv
<1>7. CloseOK'
  BY <1>1, <1>2, LoggerStays DEF LogInv, CloseOK
<1> QED
  BY <1>1, <1>6, <1>7, LoggerStays DEF LogInv

(* Close remembers what had been accepted; when it returns without an      *)
(* error the goroutine has ended and lost nothing.                         *)
LEMMA LogCloseKeeps == ASSUME LogInv, StatusOK, Close PROVE LogInv'
<1>1. /\ UNCHANGED <<logged, emitters>> /\ closer.pc = "close"
  BY DEF Close, Closes
<1>2. closer'.pc = "await" /\ closer'.before = logger.accepted
  BY CloserFields DEF Close, StatusOK
<1>3. PICK q, x, p, f1, s1, a1, h1, b, n, d, l, r :
        logger = [queue |-> q, closed |-> x, pc |-> p, file |-> f1, size |-> s1, at |-> a1, shifts |-> h1, body |-> b,
                  failures |-> n, accepted |-> d, lost |-> l, dropped |-> r]
  BY DEF LogInv, LoggerOK, LoggerShape
<1>4. logger' = [queue |-> q, closed |-> TRUE, pc |-> p, file |-> f1, size |-> s1, at |-> a1, shifts |-> h1, body |-> b,
                 failures |-> n, accepted |-> d, lost |-> l, dropped |-> r]
  BY <1>3 DEF Close
<1>5. LoggerShape'
  BY <1>4 DEF LoggerShape
<1>6. LoggerOK'
  BY <1>3, <1>4, <1>5 DEF LoggerOK, LogInv
<1>7. Written' = Written /\ Pending' = Pending
  BY <1>1, <1>3, <1>4 DEF Written, Pending
<1>8. Accounted' /\ EmittersOK'
  BY <1>1, <1>3, <1>4, <1>7 DEF LogInv, Accounted, EmittersOK
<1>9. p = "select"
  BY <1>1, <1>3 DEF LogInv, LoggerOK, CloseOK
<1>10. emitters["closer"].pc # "send"
  BY <1>1 DEF LogInv, CloseOK
<1>11. CloseOK'
  BY <1>1, <1>2, <1>3, <1>4, <1>9, <1>10 DEF CloseOK
<1> QED
  BY <1>1, <1>6, <1>8, <1>11 DEF LogInv

LEMMA LogClosedKeeps == ASSUME LogInv, StatusOK, Closed PROVE LogInv'
<1>1. UNCHANGED <<logged, logger, emitters>> /\ closer.pc = "await"
  BY DEF Closed, Closes
<1>2. PICK p \in {"none", "release", "wait", "emit", "close", "await", "closed"}, d \in BOOLEAN, e \in BOOLEAN, b \in Seq(Nat) :
        closer = [pc |-> p, deadline |-> d, error |-> e, before |-> b]
  BY CloserFields DEF StatusOK
<1>3. /\ closer'.pc = "closed" /\ closer'.before = closer.before
      /\ ~closer'.error => logger.pc = "done" /\ ~(logger.failures > 0)
  BY <1>2 DEF Closed
<1>4. ASSUME logger.pc = "done", ~(logger.failures > 0) PROVE ToSet(closer.before) \subseteq Written
  <2>1. PICK l : l = logger.lost
    OBVIOUS
  <2>2. IsFiniteSet(l) /\ Cardinality(l) = 0
    BY <1>4, <2>1, FS_CardinalityType DEF LogInv, LoggerOK
  <2>3. l = {}
    BY <2>2, FS_EmptySet
  <2> QED
    BY <1>1, <1>4, <2>1, <2>3 DEF LogInv, CloseOK
<1>5. CloseOK'
  BY <1>1, <1>3, <1>4, LoggerStays DEF LogInv, CloseOK
<1>6. EmittersOK'
  BY <1>1 DEF LogInv, EmittersOK
<1> QED
  BY <1>1, <1>5, <1>6, LoggerStays DEF LogInv

Fresh ==
    /\ \E files : logger = New(files)
    /\ emitters = [e \in Emitters |-> NotEmitting] /\ closer = NotClosing /\ logged \in Seq(LogLine)

LEMMA FreshIsOK == Fresh => LogInv
<1>0. SUFFICES ASSUME NEW files, logger = New(files), emitters = [e \in Emitters |-> NotEmitting], closer = NotClosing,
                      logged \in Seq(LogLine)
               PROVE  LogInv
  BY DEF Fresh
<1>1. LoggerShape
  BY <1>0 DEF New, LoggerShape
<1>2. /\ logger.queue = <<>> /\ logger.body = <<>> /\ logger.at = "idle" /\ logger.accepted = <<>> /\ logger.lost = {}
      /\ logger.failures = 0 /\ logger.closed = FALSE /\ logger.pc = "select"
  BY <1>0 DEF New
<1>3. IsFiniteSet({}) /\ Cardinality({}) = 0
  BY FS_EmptySet
<1>4. LoggerOK
  BY <1>1, <1>2, <1>3 DEF LoggerOK
<1>5. EmittersOK /\ emitters["closer"].pc = "idle"
  BY <1>0 DEF EmittersOK, NotEmitting, Emitters
<1>6. Accounted
  BY <1>2 DEF Accounted, ToSet
<1>7. CloseOK
  BY <1>0, <1>2, <1>5 DEF CloseOK, NotClosing
<1> QED
  BY <1>0, <1>4, <1>5, <1>6, <1>7 DEF LogInv

LEMMA LogStart == ASSUME DiagnosticInit PROVE LogInv
<1>1. Fresh
  BY DEF DiagnosticInit, Fresh
<1> QED
  BY <1>1, FreshIsOK

LEMMA LogRelaunchKeeps == ASSUME LogInv, Relaunch PROVE LogInv'
<1>1. Fresh'
  BY DEF Relaunch, LogInv, Fresh
<1> QED
  BY <1>1, FreshIsOK, PTL

LEMMA LogIsKept == ASSUME LogInv, StatusOK PROVE EventsAreAccounted /\ CloseIsHonest
<1>1. EventsAreAccounted
  <2>2. {line.id : line \in ToSet(logger.queue \o logger.body)} = Pending
    <3>1. CASE logger.body = <<>>
      <4>1. logger.queue \o logger.body = logger.queue
        BY <3>1 DEF LogInv, LoggerOK
      <4>2. Ids(logger.body) = {}
        BY <3>1, IdsOfOne
      <4> QED
        BY <4>1, <4>2 DEF Pending, Ids
    <3>2. ASSUME NEW e \in LogEvent, logger.body = <<e>>
          PROVE  {line.id : line \in ToSet(logger.queue \o logger.body)} = Pending
      <4>1. Ids(logger.queue \o <<e>>) = Ids(logger.queue) \cup {e.id} /\ Ids(<<e>>) = {e.id}
        BY IdsJoined, IdsOfOne DEF LogInv, LoggerOK
      <4> QED
        BY <3>2, <4>1 DEF Pending, Ids
    <3> QED
      BY <3>1, <3>2 DEF LogInv, LoggerOK
  <2> QED
    BY <2>2 DEF EventsAreAccounted, LogInv, Accounted, LoggerOK, Written
<1>2. CloseIsHonest
  <2>1. SUFFICES ASSUME closer.pc = "closed", ~closer.error
                 PROVE  /\ \A id \in ToSet(closer.before) : \E line \in ToSet(logged) : line.id = id /\ line.whole
                        /\ \A o \in Subscribers : board.seen[o] = board.generation
    BY DEF CloseIsHonest
  <2>2. \A id \in ToSet(closer.before) : \E line \in ToSet(logged) : line.id = id /\ line.whole
    BY <2>1 DEF LogInv, CloseOK, Written
  <2>3. ASSUME NEW o \in Subscribers PROVE board.seen[o] = board.generation
    <3>1. board.publishing = {} /\ board.channel[o] = <<>> /\ StatusOf(o)
      BY <2>1 DEF StatusOK, Silent
    <3>2. <<board.generation>> # <<>>
      OBVIOUS
    <3> QED
      BY <3>1, <3>2 DEF StatusOf
  <2> QED
    BY <2>2, <2>3
<1> QED
  BY <1>1, <1>2
-------------------------------------------------------------------------------
(***************************************************************************)
(* Diagnostics: the order of the log, and its files.                       *)
(***************************************************************************)
(* How many accepted events have left the queue.                           *)
Taken == Len(logger.accepted) - Len(logger.queue)

(* The queue holds the last of the accepted events, the goroutine the one  *)
(* before them, and what is written comes before these.                    *)
QueueOK ==
    /\ Taken \in 0..Len(logger.accepted)
    /\ \A i \in 1..Len(logger.queue) : logger.queue[i].id = logger.accepted[Taken + i]
    /\ logger.body # <<>> => Taken >= 1 /\ logger.body[1].id = logger.accepted[Taken]
    /\ \A i \in DOMAIN logged, a \in DOMAIN logger.accepted :
         logged[i].id = logger.accepted[a] => a <= Taken /\ (logger.body # <<>> => a < Taken)

(* The events made so far are numbered, and one that is on its way to the  *)
(* queue is neither there nor anywhere else.                               *)
Sending(e) == emitters[e].event[1].id
IdsOK ==
    /\ bounds.made \in Nat
    /\ \A i \in DOMAIN logged : logged[i].id <= bounds.made
    /\ \A a \in DOMAIN logger.accepted : logger.accepted[a] <= bounds.made
    /\ \A e \in Emitters : emitters[e].pc = "send" =>
         /\ Sending(e) <= bounds.made
         /\ \A i \in DOMAIN logged : logged[i].id # Sending(e)
         /\ \A a \in DOMAIN logger.accepted : logger.accepted[a] # Sending(e)
         /\ \A d \in Emitters : emitters[d].pc = "send" /\ Sending(d) = Sending(e) => d = e
AcceptedOnce ==
    \A a, b \in DOMAIN logger.accepted : logger.accepted[a] = logger.accepted[b] => a = b

OrderInv == QueueOK /\ IdsOK /\ AcceptedOnce /\ WrittenAsAccepted

LEMMA OrderStays ==
    ASSUME OrderInv, UNCHANGED <<logged, emitters>>, bounds'.made = bounds.made,
           logger'.queue = logger.queue, logger'.accepted = logger.accepted, logger'.body \in {<<>>, logger.body}
    PROVE  OrderInv'
<1>1. Taken' = Taken
  BY DEF Taken
<1>2. QueueOK'
  BY <1>1 DEF OrderInv, QueueOK
<1>3. IdsOK'
  BY DEF OrderInv, IdsOK, Sending
<1>4. AcceptedOnce' /\ WrittenAsAccepted'
  BY DEF OrderInv, AcceptedOnce, WrittenAsAccepted
<1> QED
  BY <1>2, <1>3, <1>4 DEF OrderInv

(* The event that is taken follows everything written.                     *)
LEMMA ReceiveOrder == ASSUME LogInv, OrderInv, Receive PROVE OrderInv'
<1>1. PICK q, x, p, f1, s1, a1, h1, b, n, d, l, r :
        logger = [queue |-> q, closed |-> x, pc |-> p, file |-> f1, size |-> s1, at |-> a1, shifts |-> h1, body |-> b,
                  failures |-> n, accepted |-> d, lost |-> l, dropped |-> r]
  BY DEF LogInv, LoggerOK, LoggerShape
<1>2. q \in Seq(LogEvent) /\ q # <<>> /\ b = <<>> /\ d \in Seq(Nat)
  BY <1>1 DEF LogInv, LoggerOK, Receive
<1>3. PICK u, e : u = Tail(q) /\ e = Head(q)
  OBVIOUS
<1>4. logger' = [queue |-> u, closed |-> x, pc |-> p, file |-> f1, size |-> s1, at |-> "write", shifts |-> h1, body |-> <<e>>,
                 failures |-> n, accepted |-> d, lost |-> l, dropped |-> r]
  <2>1. logger' = [logger EXCEPT !.queue = u, !.body = <<e>>, !.at = "write"]
    BY <1>1, <1>3 DEF Receive
  <2> QED
    BY <1>1, <2>1
<1>5. Len(q) \in Nat /\ Len(q) >= 1 /\ Len(u) = Len(q) - 1 /\ e = q[1] /\ \A i \in 1..Len(u) : u[i] = q[i + 1]
  BY <1>2, <1>3
<1>6. PICK k : k = Len(d) - Len(q)
  OBVIOUS
<1>7. /\ k \in 0..Len(d) /\ \A i \in 1..Len(q) : q[i].id = d[k + i]
      /\ \A i \in DOMAIN logged, a \in DOMAIN d : logged[i].id = d[a] => a <= k
  <2>1. Taken = k
    BY <1>1, <1>6 DEF Taken
  <2> QED
    BY <1>1, <2>1 DEF OrderInv, QueueOK
<1>8. Taken' = k + 1 /\ k + 1 \in 0..Len(d)
  <2>1. Len(d) \in Nat
    BY <1>2
  <2>2. Taken' = Len(d) - Len(u)
    BY <1>4 DEF Taken
  <2> QED
    BY <1>5, <1>6, <1>7, <2>1, <2>2
<1>9. <<e>>[1] = e /\ e.id = d[k + 1]
  <2>1. 1 \in 1..Len(q)
    BY <1>5
  <2> QED
    BY <1>5, <1>7, <2>1
<1>10. \A i \in 1..Len(u) : u[i].id = d[k + 1 + i]
  <2>1. ASSUME NEW i \in 1..Len(u) PROVE u[i].id = d[k + 1 + i]
    <3>1. i + 1 \in 1..Len(q) /\ k + (i + 1) = k + 1 + i
      BY <1>5, <1>7
    <3> QED
      BY <1>5, <1>7, <3>1
  <2> QED
    BY <2>1
<1>11. logged' = logged /\ emitters' = emitters /\ bounds' = bounds
  BY DEF Receive
<1>12. QueueOK'
  <2>1. \A i \in DOMAIN logged, a \in DOMAIN d : logged[i].id = d[a] => a <= k + 1 /\ a < k + 1
    <3>1. DOMAIN d \subseteq Int
      BY <1>2
    <3> QED
      BY <1>7, <3>1
  <2>2. logger'.queue = u /\ logger'.body = <<e>> /\ logger'.accepted = d
    BY <1>4
  <2>3. k + 1 >= 1
    BY <1>7
  <2> QED
    BY <1>8, <1>9, <1>10, <1>11, <2>1, <2>2, <2>3 DEF QueueOK
<1>13. IdsOK'
  BY <1>1, <1>4, <1>11 DEF OrderInv, IdsOK, Sending
<1>14. AcceptedOnce' /\ WrittenAsAccepted'
  BY <1>1, <1>4, <1>11 DEF OrderInv, AcceptedOnce, WrittenAsAccepted
<1> QED
  BY <1>12, <1>13, <1>14 DEF OrderInv

(* A line that is written is the latest one, of the event at work.         *)
LEMMA WriteOrder ==
    ASSUME LogInv, OrderInv, UNCHANGED emitters, bounds'.made = bounds.made,
           NEW v \in LogLine, logged' = Append(logged, v), logger.body # <<>>, v.id = logger.body[1].id,
           logger'.queue = logger.queue, logger'.accepted = logger.accepted, logger'.body = <<>>
    PROVE  OrderInv'
<1>1. PICK d, q, k : d = logger.accepted /\ q = logger.queue /\ k = Taken
  OBVIOUS
<1>2. /\ d \in Seq(Nat) /\ q \in Seq(LogEvent) /\ k \in 0..Len(d) /\ k >= 1 /\ v.id = d[k]
      /\ \A i \in 1..Len(q) : q[i].id = d[k + i]
      /\ \A i \in DOMAIN logged, a \in DOMAIN d : logged[i].id = d[a] => a <= k /\ a < k
      /\ \A a, b \in DOMAIN d : d[a] = d[b] => a = b
  BY <1>1 DEF LogInv, LoggerOK, OrderInv, QueueOK, AcceptedOnce
<1>3. DOMAIN d = 1..Len(d) /\ Len(d) \in Nat /\ k \in DOMAIN d
  BY <1>2
<1>4. PICK t : t = logged'
  OBVIOUS
<1>5. /\ DOMAIN t = 1..(Len(logged) + 1) /\ DOMAIN logged = 1..Len(logged) /\ Len(logged) \in Nat
      /\ t[Len(logged) + 1] = v /\ \A i \in 1..Len(logged) : t[i] = logged[i]
  BY <1>4 DEF LogInv
<1>6. logger'.accepted = d /\ logger'.queue = q /\ Taken' = k /\ bounds'.made = bounds.made
  BY <1>1 DEF Taken
<1>7. \A i \in DOMAIN t, a \in DOMAIN d : t[i].id = d[a] => a <= k
  <2>1. ASSUME NEW i \in DOMAIN t, NEW a \in DOMAIN d, t[i].id = d[a] PROVE a <= k
    <3>1. CASE i \in DOMAIN logged
      BY <1>2, <1>5, <2>1, <3>1
    <3>2. CASE i \notin DOMAIN logged
      <4>1. t[i] = v
        BY <1>5, <2>1, <3>2
      <4>2. a = k
        BY <1>2, <1>3, <2>1, <4>1
      <4> QED
        BY <1>2, <4>2
    <3> QED
      BY <3>1, <3>2
  <2> QED
    BY <2>1
<1>8. QueueOK'
  <2>1. Taken' \in 0..Len(logger'.accepted)
    BY <1>2, <1>6
  <2>2. \A i \in 1..Len(logger'.queue) : logger'.queue[i].id = logger'.accepted[Taken' + i]
    BY <1>2, <1>6
  <2>3. \A i \in DOMAIN logged', a \in DOMAIN logger'.accepted : logged'[i].id = logger'.accepted[a] => a <= Taken'
    BY <1>4, <1>6, <1>7
  <2> QED
    BY <2>1, <2>2, <2>3 DEF QueueOK
<1>9. IdsOK'
  <2>1. \A e \in Emitters : emitters'[e] = emitters[e] /\ Sending(e)' = Sending(e)
    BY DEF Sending
  <2>2. v.id <= bounds.made /\ \A e \in Emitters : emitters[e].pc = "send" => v.id # Sending(e)
    BY <1>1, <1>2, <1>3 DEF OrderInv, IdsOK
  <2>3. \A i \in DOMAIN t : t[i] = v \/ \E j \in DOMAIN logged : t[i] = logged[j]
    BY <1>5
  <2> QED
    BY <1>1, <1>4, <1>6, <2>1, <2>2, <2>3 DEF OrderInv, IdsOK
<1>10. WrittenAsAccepted'
  <2>1. ASSUME NEW i \in DOMAIN t, NEW j \in DOMAIN t, i < j, NEW a \in DOMAIN d, NEW b \in DOMAIN d,
               d[a] = t[i].id, d[b] = t[j].id
        PROVE  a < b
    <3>1. i \in DOMAIN logged /\ t[i] = logged[i]
      BY <1>5, <2>1
    <3>2. CASE j \in DOMAIN logged
      BY <1>1, <1>5, <2>1, <3>1, <3>2 DEF OrderInv, WrittenAsAccepted
    <3>3. CASE j \notin DOMAIN logged
      <4>1. t[j] = v
        BY <1>5, <2>1, <3>3
      <4>2. b = k /\ a < k
        BY <1>2, <1>3, <2>1, <3>1, <4>1
      <4> QED
        BY <4>2
    <3> QED
      BY <3>2, <3>3
  <2> QED
    BY <1>4, <1>6, <2>1 DEF WrittenAsAccepted
<1>11. AcceptedOnce'
  BY <1>2, <1>6 DEF AcceptedOnce
<1> QED
  BY <1>8, <1>9, <1>10, <1>11 DEF OrderInv

LEMMA WriterOrder == ASSUME LogInv, OrderInv, BoundsOK, Writer PROVE OrderInv'
<1>0. bounds'.made = bounds.made /\ UNCHANGED emitters
  <2>1. bounds' = bounds \/ bounds' = [bounds EXCEPT !.faults = @ + 1]
    BY DEF Writer, Receive, Stop, write, WriteBody, rotateSync, rotateClose, rotateDrop, rotateShift, rotateOpen,
       finish, Goes, GivesUp, Fails
  <2>2. UNCHANGED emitters
    BY DEF Writer, Receive, Stop, write, WriteBody, rotateSync, rotateClose, rotateDrop, rotateShift, rotateOpen,
       finish, At
  <2> QED
    BY <2>1, <2>2 DEF BoundsOK, BoundsType
<1>s. LoggerShape
  BY DEF LogInv, LoggerOK
<1>1. PICK q, x, p, f1, s1, a1, h1, b, n, d, l, r :
        logger = [queue |-> q, closed |-> x, pc |-> p, file |-> f1, size |-> s1, at |-> a1, shifts |-> h1, body |-> b,
                  failures |-> n, accepted |-> d, lost |-> l, dropped |-> r]
  BY <1>s DEF LoggerShape
<1>2. CASE Stop \/ finish
  <2>1. logged' = logged /\ logger'.queue = logger.queue /\ logger'.accepted = logger.accepted /\ logger'.body = logger.body
    BY <1>1, <1>2 DEF Stop, finish
  <2> QED
    BY <1>0, <2>1, OrderStays
<1>3. CASE write \/ rotateSync \/ rotateClose \/ rotateDrop \/ rotateShift \/ rotateOpen
  <2>1. logged' = logged /\ GoesOrLoses
    BY <1>3, rotateGoes
  <2>2. logger'.queue = logger.queue /\ logger'.accepted = logger.accepted /\ logger'.body \in {<<>>, logger.body}
    BY <2>1 DEF GoesOrLoses, Going, Losing
  <2> QED
    BY <1>0, <2>1, <2>2, OrderStays
<1>4. CASE WriteBody
  <2>1. PICK e \in LogEvent : logger.body = <<e>>
    BY <1>4 DEF WriteBody, At, LogInv, LoggerOK
  <2>2. logger.body[1] = e /\ <<e>> # <<>>
    <3>1. <<e>>[1] = e
      OBVIOUS
    <3> QED
      BY <2>1, <3>1
  <2>3. \/ logged' = Append(logged, e) /\ \E s : logger' = [logger EXCEPT !.at = "idle", !.body = <<>>, !.size = s]
        \/ logged' = logged /\ logger' = recordFailure
        \/ /\ logged' = Append(logged, [e EXCEPT !.size = 1, !.whole = FALSE])
           /\ \E s : logger' = [recordFailure EXCEPT !.size = s]
    BY <1>4, <2>2 DEF WriteBody
  <2>4. logger'.queue = logger.queue /\ logger'.accepted = logger.accepted /\ logger'.body = <<>>
    <3>1. CASE \E s : logger' = [logger EXCEPT !.at = "idle", !.body = <<>>, !.size = s]
      BY <1>1, <3>1
    <3>2. CASE logger' = recordFailure
      <4>1. logger' = Losing(logger.file, logger.size, logger.shifts)
        BY <1>s, <3>2, LosingIs
      <4> QED
        BY <4>1 DEF Losing
    <3>3. CASE \E s : logger' = [recordFailure EXCEPT !.size = s]
      <4>1. \E s : logger' = Losing(logger.file, s, logger.shifts)
        BY <1>s, <3>3, LosingIs
      <4> QED
        BY <4>1 DEF Losing
    <3> QED
      BY <2>3, <3>1, <3>2, <3>3
  <2>5. CASE logged' = logged
    BY <1>0, <2>4, <2>5, OrderStays
  <2>6. ASSUME NEW v \in LogLine, v.id = e.id, logged' = Append(logged, v) PROVE OrderInv'
    BY <1>0, <2>1, <2>2, <2>4, <2>6, WriteOrder
  <2>7. e \in LogLine
    BY DEF LogLine, LogEvent
  <2>8. PICK v : v = [e EXCEPT !.size = 1, !.whole = FALSE]
    OBVIOUS
  <2>9. v \in LogLine /\ v.id = e.id
    BY <2>8 DEF LogLine, LogEvent
  <2> QED
    BY <2>3, <2>5, <2>6, <2>7, <2>8, <2>9
<1>5. CASE Receive
  BY <1>5, ReceiveOrder
<1> QED
  BY <1>2, <1>3, <1>4, <1>5 DEF Writer

(* An event that is accepted is the latest, one that is not is forgotten.  *)
LEMMA SendOrder == ASSUME LogInv, OrderInv, NEW e \in Emitters, Send(e) PROVE OrderInv'
<1>1. PICK v \in LogEvent : emitters[e] = [pc |-> "send", event |-> <<v>>]
  <2>1. emitters[e] \in [pc : {"idle"}, event : {<<>>}] \cup [pc : {"send"}, event : {<<v>> : v \in LogEvent}]
    BY DEF LogInv, EmittersOK
  <2>2. emitters[e].pc = "send"
    BY DEF Send
  <2>3. emitters[e] \in [pc : {"send"}, event : {<<v>> : v \in LogEvent}]
    BY <2>1, <2>2
  <2> QED
    BY <2>3
<1>2. emitters[e].pc = "send" /\ emitters[e].event = <<v>> /\ Sending(e) = v.id /\ v.id \in Nat
  <2>1. <<v>>[1] = v /\ v.id \in Nat
    BY DEF LogEvent
  <2> QED
    BY <1>1, <2>1 DEF Sending
<1>3. /\ emitters'[e].pc = "idle" /\ \A i \in Emitters \ {e} : emitters'[i] = emitters[i] /\ Sending(i)' = Sending(i)
      /\ logged' = logged /\ bounds' = bounds
  BY DEF Send, NotEmitting, LogInv, EmittersOK, Sending
<1>4. PICK d, q, k : d = logger.accepted /\ q = logger.queue /\ k = Taken
  OBVIOUS
<1>5. /\ d \in Seq(Nat) /\ q \in Seq(LogEvent) /\ k \in 0..Len(d) /\ k = Len(d) - Len(q)
      /\ \A i \in 1..Len(q) : q[i].id = d[k + i]
      /\ \A i \in DOMAIN logged, a \in DOMAIN d : logged[i].id = d[a] => a <= k /\ (logger.body # <<>> => a < k)
      /\ \A a, b \in DOMAIN d : d[a] = d[b] => a = b
  BY <1>4 DEF LogInv, LoggerOK, OrderInv, QueueOK, AcceptedOnce, Taken
<1>6. /\ v.id <= bounds.made /\ (\A i \in DOMAIN logged : logged[i].id # v.id) /\ (\A a \in DOMAIN d : d[a] # v.id)
      /\ \A i \in Emitters \ {e} : emitters[i].pc = "send" => Sending(i) # v.id
  BY <1>2, <1>4 DEF OrderInv, IdsOK
<1>7. CASE logger' = [logger EXCEPT !.dropped = @ + 1]
  <2>1. /\ logger'.queue = logger.queue /\ logger'.accepted = logger.accepted /\ logger'.body = logger.body
        /\ logger'.closed = logger.closed
    BY <1>7 DEF LogInv, LoggerOK, LoggerShape
  <2>t. Taken' = Taken
    BY <2>1 DEF Taken
  <2>2. QueueOK' /\ AcceptedOnce' /\ WrittenAsAccepted'
    BY <1>3, <2>1, <2>t DEF OrderInv, QueueOK, AcceptedOnce, WrittenAsAccepted
  <2>3. IdsOK'
    BY <1>3, <2>1 DEF OrderInv, IdsOK
  <2> QED
    BY <2>2, <2>3 DEF OrderInv
<1>8. CASE logger' = [logger EXCEPT !.queue = @ \o emitters[e].event, !.accepted = Append(@, emitters[e].event[1].id)]
  <2>1. PICK u, w : u = q \o <<v>> /\ w = Append(d, v.id)
    OBVIOUS
  <2>2. logger'.queue = u /\ logger'.accepted = w /\ logger'.body = logger.body
    <3>1. <<v>>[1] = v
      OBVIOUS
    <3>2. logger' = [logger EXCEPT !.queue = u, !.accepted = w]
      <4>1. logger' = [logger EXCEPT !.queue = logger.queue \o emitters[e].event,
                                     !.accepted = Append(logger.accepted, emitters[e].event[1].id)]
        BY <1>8
      <4>2. emitters[e].event[1].id = v.id
        BY <1>2, <3>1
      <4> QED
        BY <1>2, <1>4, <2>1, <4>1, <4>2
    <3>3. PICK q0, x, p, f1, s1, a1, h1, b, n, d0, l, r :
            logger = [queue |-> q0, closed |-> x, pc |-> p, file |-> f1, size |-> s1, at |-> a1, shifts |-> h1, body |-> b,
                      failures |-> n, accepted |-> d0, lost |-> l, dropped |-> r]
      BY DEF LogInv, LoggerOK, LoggerShape
    <3> QED
      BY <3>2, <3>3
  <2>3. /\ Len(u) = Len(q) + 1 /\ u[Len(q) + 1] = v /\ \A i \in 1..Len(q) : u[i] = q[i]
        /\ Len(w) = Len(d) + 1 /\ w[Len(d) + 1] = v.id /\ \A i \in 1..Len(d) : w[i] = d[i]
        /\ Len(q) \in Nat /\ Len(d) \in Nat /\ DOMAIN d = 1..Len(d) /\ DOMAIN w = 1..(Len(d) + 1)
    <3>1. q \o <<v>> = Append(q, v)
      BY <1>5
    <3> QED
      BY <1>2, <1>5, <2>1, <3>1
  <2>4. Taken' = k /\ k \in 0..Len(w)
    BY <1>5, <2>2, <2>3 DEF Taken
  <2>5. \A i \in 1..Len(u) : u[i].id = w[k + i]
    <3>1. ASSUME NEW i \in 1..Len(u) PROVE u[i].id = w[k + i]
      <4>1. CASE i \in 1..Len(q)
        <5>1. k + i \in 1..Len(d)
          BY <1>5, <2>3, <4>1
        <5> QED
          BY <1>5, <2>3, <4>1, <5>1
      <4>2. CASE i \notin 1..Len(q)
        <5>1. i = Len(q) + 1
          BY <2>3, <3>1, <4>2
        <5>2. k + i = Len(d) + 1
          BY <1>5, <2>3, <5>1
        <5>3. u[i] = v
          BY <2>3, <5>1
        <5>4. w[k + i] = v.id
          BY <2>3, <5>2
        <5> QED
          BY <5>3, <5>4
      <4> QED
        BY <4>1, <4>2
    <3> QED
      BY <3>1
  <2>6. logger.body # <<>> => k >= 1 /\ logger.body[1].id = w[k]
    <3>1. ASSUME logger.body # <<>> PROVE k >= 1 /\ logger.body[1].id = w[k]
      <4>1. k >= 1 /\ logger.body[1].id = d[k]
        BY <1>4, <3>1 DEF OrderInv, QueueOK
      <4>2. w[k] = d[k]
        <5>1. k \in 1..Len(d)
          <6>1. k \in 0..Len(d)
            BY <1>5
          <6> QED
            BY <2>3, <4>1, <6>1
        <5>2. \A i \in 1..Len(d) : w[i] = d[i]
          BY <2>3
        <5> QED
          BY <5>1, <5>2
      <4> QED
        BY <4>1, <4>2
    <3> QED
      BY <3>1
  <2>7. \A i \in DOMAIN logged, a \in DOMAIN w : logged[i].id = w[a] => a <= k /\ (logger.body # <<>> => a < k)
    <3>1. \A a \in DOMAIN w : (a \in DOMAIN d /\ w[a] = d[a]) \/ w[a] = v.id
      BY <2>3
    <3> QED
      BY <1>5, <1>6, <3>1
  <2>8. QueueOK'
    BY <1>3, <2>2, <2>4, <2>5, <2>6, <2>7 DEF QueueOK
  <2>9. AcceptedOnce'
    <3>1. ASSUME NEW a \in DOMAIN w, NEW b \in DOMAIN w, w[a] = w[b] PROVE a = b
      <4>1. \A c \in DOMAIN w : (c \in DOMAIN d /\ w[c] = d[c]) \/ (c = Len(d) + 1 /\ w[c] = v.id)
        BY <2>3
      <4> QED
        BY <1>5, <1>6, <3>1, <4>1
    <3> QED
      BY <2>2, <3>1 DEF AcceptedOnce
  <2>10. WrittenAsAccepted'
    <3>1. ASSUME NEW i \in DOMAIN logged, NEW j \in DOMAIN logged, i < j, NEW a \in DOMAIN w, NEW b \in DOMAIN w,
                 w[a] = logged[i].id, w[b] = logged[j].id
          PROVE  a < b
      <4>1. a \in DOMAIN d /\ w[a] = d[a] /\ b \in DOMAIN d /\ w[b] = d[b]
        BY <1>6, <2>3, <3>1
      <4> QED
        BY <1>4, <3>1, <4>1 DEF OrderInv, WrittenAsAccepted
    <3> QED
      BY <1>3, <2>2, <3>1 DEF WrittenAsAccepted
  <2>11. IdsOK'
    <3>1. \A a \in DOMAIN w : w[a] = v.id \/ \E c \in DOMAIN d : w[a] = d[c]
      BY <2>3
    <3>2. /\ bounds.made \in Nat
          /\ \A i \in DOMAIN logged : logged[i].id <= bounds.made
          /\ \A a \in DOMAIN w : w[a] <= bounds.made
      BY <1>4, <1>6, <3>1 DEF OrderInv, IdsOK
    <3>3. ASSUME NEW i \in Emitters, emitters'[i].pc = "send"
          PROVE  /\ Sending(i)' <= bounds.made
                 /\ \A x \in DOMAIN logged : logged[x].id # Sending(i)'
                 /\ \A a \in DOMAIN w : w[a] # Sending(i)'
                 /\ \A x \in Emitters : emitters'[x].pc = "send" /\ Sending(x)' = Sending(i)' => x = i
      <4>1. i # e /\ emitters[i].pc = "send" /\ Sending(i)' = Sending(i) /\ Sending(i) # v.id
        BY <1>3, <1>6, <3>3
      <4>2. \A a \in DOMAIN w : w[a] # Sending(i)
        BY <1>4, <3>1, <4>1 DEF OrderInv, IdsOK
      <4>3. \A x \in Emitters : emitters'[x].pc = "send" => emitters[x].pc = "send" /\ Sending(x)' = Sending(x)
        BY <1>3
      <4> QED
        BY <4>1, <4>2, <4>3 DEF OrderInv, IdsOK
    <3> QED
      BY <1>3, <2>2, <3>2, <3>3 DEF IdsOK
  <2> QED
    BY <2>8, <2>9, <2>10, <2>11 DEF OrderInv
<1> QED
  BY <1>7, <1>8 DEF Send

(* An event that is made has a number of its own.                          *)
LEMMA EmitOrder ==
    ASSUME LogInv, OrderInv, NEW e \in Emitters, NEW size, Emit(e, size), UNCHANGED <<logged, logger>>,
           bounds'.made = bounds.made + 1
    PROVE  OrderInv'
<1>1. PICK m : m = bounds.made /\ m \in Nat
  BY DEF OrderInv, IdsOK
<1>2. PICK v : v = [id |-> m + 1, size |-> size, whole |-> TRUE]
  OBVIOUS
<1>3. emitters' = [emitters EXCEPT ![e] = [pc |-> "send", event |-> <<v>>]]
  BY <1>1, <1>2 DEF Emit
<1>4. PICK x : x = [pc |-> "send", event |-> <<v>>]
  OBVIOUS
<1>5. emitters'[e] = x /\ \A i \in Emitters \ {e} : emitters'[i] = emitters[i] /\ Sending(i)' = Sending(i)
  BY <1>3, <1>4 DEF LogInv, EmittersOK, Sending
<1>6. x.event[1].id = m + 1
  <2>1. <<v>>[1] = v
    OBVIOUS
  <2> QED
    BY <1>2, <1>4, <2>1
<1>7. Sending(e)' = m + 1
  BY <1>5, <1>6 DEF Sending
<1>8. QueueOK' /\ AcceptedOnce' /\ WrittenAsAccepted'
  <2>1. Taken' = Taken
    BY DEF Taken
  <2> QED
    BY <2>1 DEF OrderInv, QueueOK, AcceptedOnce, WrittenAsAccepted
<1>9. /\ \A i \in DOMAIN logged : logged[i].id \in Nat /\ logged[i].id <= m
      /\ \A a \in DOMAIN logger.accepted : logger.accepted[a] \in Nat /\ logger.accepted[a] <= m
      /\ \A i \in Emitters : emitters[i].pc = "send" => Sending(i) \in Nat /\ Sending(i) <= m
  <2>1. \A i \in DOMAIN logged : logged[i].id \in Nat /\ logged[i].id <= m
    <3>1. \A i \in DOMAIN logged : logged[i] \in LogLine
      BY DEF LogInv
    <3> QED
      BY <1>1, <3>1 DEF OrderInv, IdsOK, LogLine
  <2>2. \A a \in DOMAIN logger.accepted : logger.accepted[a] \in Nat /\ logger.accepted[a] <= m
    BY <1>1 DEF LogInv, LoggerOK, OrderInv, IdsOK
  <2>3. ASSUME NEW i \in Emitters, emitters[i].pc = "send" PROVE Sending(i) \in Nat /\ Sending(i) <= m
    <3>1. PICK z \in LogEvent : emitters[i].event = <<z>>
      <4>1. emitters[i] \in [pc : {"send"}, event : {<<z>> : z \in LogEvent}]
        <5>1. emitters[i] \in [pc : {"idle"}, event : {<<>>}] \cup [pc : {"send"}, event : {<<z>> : z \in LogEvent}]
          BY DEF LogInv, EmittersOK
        <5> QED
          BY <2>3, <5>1
      <4> QED
        BY <4>1
    <3>2. <<z>>[1] = z /\ z.id \in Nat
      BY DEF LogEvent
    <3> QED
      BY <1>1, <2>3, <3>1, <3>2 DEF Sending, OrderInv, IdsOK
  <2> QED
    BY <2>1, <2>2, <2>3
<1>10. bounds'.made = m + 1
  BY <1>1
<1>11. IdsOK'
  <2>1. /\ bounds'.made \in Nat
        /\ \A i \in DOMAIN logged : logged[i].id <= m + 1
        /\ \A a \in DOMAIN logger.accepted : logger.accepted[a] <= m + 1
    BY <1>1, <1>9, <1>10
  <2>2. ASSUME NEW i \in Emitters, emitters'[i].pc = "send"
        PROVE  /\ Sending(i)' <= m + 1
               /\ \A y \in DOMAIN logged : logged[y].id # Sending(i)'
               /\ \A a \in DOMAIN logger.accepted : logger.accepted[a] # Sending(i)'
               /\ \A y \in Emitters : emitters'[y].pc = "send" /\ Sending(y)' = Sending(i)' => y = i
    <3>1. CASE i = e
      <4>1. /\ \A y \in DOMAIN logged : logged[y].id # m + 1
            /\ \A a \in DOMAIN logger.accepted : logger.accepted[a] # m + 1
            /\ \A y \in Emitters : emitters[y].pc = "send" => Sending(y) # m + 1
        BY <1>1, <1>9
      <4> QED
        BY <1>1, <1>5, <1>7, <3>1, <4>1
    <3>2. CASE i # e
      <4>1. emitters[i].pc = "send" /\ Sending(i)' = Sending(i) /\ Sending(i) \in Nat /\ Sending(i) <= m
        BY <1>5, <1>9, <2>2, <3>2
      <4>2. Sending(i) # m + 1 /\ Sending(i) <= m + 1
        BY <1>1, <4>1
      <4> QED
        BY <1>5, <1>7, <4>1, <4>2 DEF OrderInv, IdsOK
    <3> QED
      BY <3>1, <3>2
  <2> QED
    BY <1>10, <2>1, <2>2 DEF IdsOK
<1> QED
  BY <1>8, <1>11 DEF OrderInv

(* Nothing is under way when a process starts.                             *)
Numbered == bounds.made \in Nat /\ \A i \in DOMAIN logged : logged[i].id <= bounds.made
LEMMA FreshOrder == Fresh /\ Numbered => OrderInv
<1>0. SUFFICES ASSUME NEW files, logger = New(files), emitters = [e \in Emitters |-> NotEmitting],
                      Numbered
               PROVE  OrderInv
  BY DEF Fresh
<1>1. logger.queue = <<>> /\ logger.body = <<>> /\ logger.accepted = <<>>
  BY <1>0 DEF New
<1>2. \A e \in Emitters : emitters[e].pc = "idle"
  BY <1>0 DEF NotEmitting
<1>3. DOMAIN <<>> = {} /\ Len(<<>>) = 0
  OBVIOUS
<1>4. Taken = 0
  BY <1>1, <1>3 DEF Taken
<1>5. QueueOK /\ AcceptedOnce /\ WrittenAsAccepted
  BY <1>1, <1>3, <1>4 DEF QueueOK, AcceptedOnce, WrittenAsAccepted
<1>6. IdsOK
  BY <1>0, <1>1, <1>2, <1>3 DEF IdsOK, Numbered
<1> QED
  BY <1>5, <1>6 DEF OrderInv

LEMMA RelaunchOrder == ASSUME LogInv, BoundsOK, OrderInv, Relaunch PROVE OrderInv'
<1>1. Fresh'
  BY DEF Relaunch, LogInv, Fresh
<1>2. bounds'.made = bounds.made /\ bounds'.made \in Nat
  BY DEF Relaunch, BoundsOK, BoundsType
<1>3. Numbered'
  BY <1>2 DEF Relaunch, Numbered, OrderInv, IdsOK
<1> QED
  BY <1>1, <1>3, FreshOrder, PTL

LEMMA OrderStart == ASSUME DiagnosticInit PROVE OrderInv
<1>1. Fresh /\ bounds.made = 0 /\ logged = <<>>
  BY DEF DiagnosticInit, Fresh
<1>2. Numbered
  BY <1>1 DEF Numbered
<1> QED
  BY <1>1, <1>2, FreshOrder

LEMMA OrderStep == ASSUME StatusOK, LogInv, BoundsOK, OrderInv, DiagnosticNext PROVE OrderInv'
<1>1. CASE Transition \/ Publish \/ (\E o \in Subscribers : publishLatest(o) \/ Observe(o))
  <2>1. UNCHANGED <<logged, logger, emitters>> /\ bounds'.made = bounds.made
    BY <1>1 DEF Transition, Publish, publishLatest, Observe, BoundsOK, BoundsType
  <2> QED
    BY <2>1, OrderStays
<1>2. CASE EmitRequest
  <2>1. PICK size : Emit("request", size)
    BY <1>2 DEF EmitRequest
  <2>2. bounds'.made = bounds.made + 1 /\ UNCHANGED <<logged, logger>> /\ "request" \in Emitters
    BY <1>2 DEF EmitRequest, BoundsOK, BoundsType, Emitters
  <2> QED
    BY <2>1, <2>2, EmitOrder
<1>3. CASE EmitObserved
  <2>1. UNCHANGED <<logged, logger>> /\ "log" \in Emitters
    BY <1>3 DEF EmitObserved, Emitters
  <2>2. \/ UNCHANGED <<emitters, bounds>>
        \/ Emit("log", 1) /\ bounds'.made = bounds.made + 1
    BY <1>3 DEF EmitObserved, BoundsOK, BoundsType
  <2> QED
    BY <2>1, <2>2, EmitOrder, OrderStays
<1>4. ASSUME NEW e \in Emitters, Send(e) PROVE OrderInv'
  BY <1>4, SendOrder
<1>5. CASE Writer
  BY <1>5, WriterOrder
<1>6. CASE CloseProcess \/ Unsubscribe \/ Deadline \/ Closed
  <2>1. UNCHANGED <<logged, logger, emitters, bounds>>
    BY <1>6 DEF CloseProcess, Unsubscribe, Deadline, Closed, Closes
  <2> QED
    BY <2>1, OrderStays
<1>7. CASE EmitStopped
  <2>1. UNCHANGED <<logged, logger>> /\ Emit("closer", 1) /\ bounds'.made = bounds.made + 1 /\ "closer" \in Emitters
    BY <1>7 DEF EmitStopped, Closes, BoundsOK, BoundsType, Emitters
  <2> QED
    BY <2>1, EmitOrder
<1>8. CASE Close
  <2>1. logger'.queue = logger.queue /\ logger'.accepted = logger.accepted /\ logger'.body = logger.body
    BY <1>8 DEF Close, LogInv, LoggerOK, LoggerShape
  <2>2. UNCHANGED <<logged, emitters, bounds>>
    BY <1>8 DEF Close, Closes
  <2> QED
    BY <2>1, <2>2, OrderStays
<1>9. CASE Relaunch
  BY <1>9, RelaunchOrder
<1> QED
  BY <1>1, <1>2, <1>3, <1>4, <1>5, <1>6, <1>7, <1>8, <1>9 DEF DiagnosticNext
-------------------------------------------------------------------------------
(* Where the files cut the log: file i holds the lines from cut[i + 1] up  *)
(* to cut[i], and the newest file ends with the log.                       *)
Cuts(files, lines, cut) ==
    /\ cut \in [1..(Len(files) + 1) -> 0..Len(lines)]
    /\ cut[1] = Len(lines)
    /\ \A i \in 1..Len(files) : cut[i + 1] <= cut[i] /\ files[i] = SubSeq(lines, cut[i + 1] + 1, cut[i])

FilesCut == \E cut : Cuts(logFiles, logged, cut)

(* A rotation clears the way: the last file is given up, or is the one     *)
(* that the next shift replaces; a file that has been moved leaves no      *)
(* lines, and nor does the current one when it is opened again.            *)
FilesOK ==
    /\ logFiles \in Seq(Seq(LogLine)) /\ Len(logFiles) >= 1
    /\ logger.shifts \in Nat /\ (logger.at # "shift" => logger.shifts = 0)
    /\ logger.at = "shift" =>
         /\ logger.shifts <= Len(logFiles) - 2
         /\ logger.shifts > 0 => logFiles[Len(logFiles) - logger.shifts] = <<>>
    /\ logger.at = "open" => logFiles[1] = <<>>
    /\ FilesCut

LEMMA Slice ==
    ASSUME NEW S, NEW s \in Seq(S), NEW m \in 0..Len(s), NEW n \in 0..Len(s)
    PROVE  /\ SubSeq(s, m + 1, n) \in Seq(S)
           /\ Len(SubSeq(s, m + 1, n)) = IF m < n THEN n - m ELSE 0
           /\ \A i \in 1..(n - m) : SubSeq(s, m + 1, n)[i] = s[m + i]
<1>1. m + 1 \in Int /\ n \in Int /\ \A i \in (m + 1)..n : s[i] \in S
  OBVIOUS
<1>2. /\ SubSeq(s, m + 1, n) \in Seq(S)
      /\ Len(SubSeq(s, m + 1, n)) = IF m + 1 <= n THEN n - (m + 1) + 1 ELSE 0
      /\ \A i \in 1..(n - (m + 1) + 1) : SubSeq(s, m + 1, n)[i] = s[m + 1 + i - 1]
  BY <1>1, SubSeqProperties
<1>3. n - (m + 1) + 1 = n - m /\ (m + 1 <= n <=> m < n) /\ \A i \in 1..(n - m) : m + 1 + i - 1 = m + i
  OBVIOUS
<1> QED
  BY <1>2, <1>3

(* An empty file is between two equal cuts.                                *)
LEMMA EmptyFile ==
    ASSUME NEW S, NEW files, NEW lines \in Seq(S), NEW cut, Cuts(files, lines, cut), Len(files) \in Nat,
           NEW i \in 1..Len(files), files[i] = <<>>
    PROVE  cut[i + 1] = cut[i]
<1>1. cut[i] \in 0..Len(lines) /\ cut[i + 1] \in 0..Len(lines) /\ cut[i + 1] <= cut[i]
  <2>1. i \in 1..(Len(files) + 1) /\ i + 1 \in 1..(Len(files) + 1)
    OBVIOUS
  <2> QED
    BY <2>1 DEF Cuts
<1>2. files[i] = SubSeq(lines, cut[i + 1] + 1, cut[i])
  BY DEF Cuts
<1>3. Len(files[i]) = 0
  OBVIOUS
<1>4. PICK m, n : m = cut[i + 1] /\ n = cut[i]
  OBVIOUS
<1>5. m \in 0..Len(lines) /\ n \in 0..Len(lines) /\ m <= n /\ Len(SubSeq(lines, m + 1, n)) = 0
  BY <1>1, <1>2, <1>3, <1>4
<1>6. Len(SubSeq(lines, m + 1, n)) = IF m < n THEN n - m ELSE 0
  BY <1>5, Slice
<1> QED
  BY <1>4, <1>5, <1>6

LEMMA NoLines ==
    ASSUME NEW lines, NEW n \in Int PROVE SubSeq(lines, n + 1, n) = <<>>
BY SubSeqEmpty

(* The lines of a file that goes are the oldest.                           *)
LEMMA FileGoes ==
    ASSUME NEW files, NEW lines, Len(lines) \in Nat, NEW cut, Cuts(files, lines, cut), Len(files) \in Nat, Len(files) >= 1,
           NEW other, Len(other) = Len(files), other[Len(files)] = <<>>,
           \A i \in 1..(Len(files) - 1) : other[i] = files[i]
    PROVE  \E c : Cuts(other, lines, c)
<1>1. PICK n : n = Len(files) /\ n \in Nat /\ n >= 1
  OBVIOUS
<1>2. PICK c : c = [i \in 1..(n + 1) |-> IF i = n + 1 THEN cut[n] ELSE cut[i]]
  OBVIOUS
<1>3. \A i \in 1..(n + 1) : cut[i] \in 0..Len(lines)
  BY <1>1 DEF Cuts
<1>4. /\ \A i \in 1..n : c[i] = cut[i]
      /\ c[n + 1] = cut[n] /\ c \in [1..(n + 1) -> 0..Len(lines)]
  <2>1. n \in 1..(n + 1) /\ \A i \in 1..n : i \in 1..(n + 1) /\ i # n + 1
    BY <1>1
  <2> QED
    BY <1>1, <1>2, <1>3, <2>1
<1>5. c[1] = Len(lines)
  BY <1>1, <1>4 DEF Cuts
<1>6. ASSUME NEW i \in 1..n PROVE c[i + 1] <= c[i] /\ other[i] = SubSeq(lines, c[i + 1] + 1, c[i])
  <2>1. CASE i = n
    <3>1. c[i + 1] = cut[n] /\ c[i] = cut[n] /\ cut[n] \in Int
      BY <1>1, <1>3, <1>4, <2>1
    <3>2. PICK k : k = cut[n]
      OBVIOUS
    <3>3. SubSeq(lines, k + 1, k) = <<>> /\ k <= k
      BY <3>1, <3>2, NoLines
    <3> QED
      BY <1>1, <2>1, <3>1, <3>2, <3>3
  <2>2. CASE i # n
    <3>1. i \in 1..(n - 1) /\ i + 1 \in 1..n
      BY <1>1, <2>2
    <3>2. c[i + 1] = cut[i + 1] /\ c[i] = cut[i] /\ other[i] = files[i]
      BY <1>1, <1>4, <3>1
    <3> QED
      BY <1>1, <3>2 DEF Cuts
  <2> QED
    BY <2>1, <2>2
<1> QED
  BY <1>1, <1>4, <1>5, <1>6 DEF Cuts

(* A file that moves into an empty place, or over the last one, leaves the *)
(* order of the lines as it is.                                            *)
LEMMA FileMoves ==
    ASSUME NEW S, NEW files, NEW lines \in Seq(S), NEW cut, Cuts(files, lines, cut), Len(files) \in Nat,
           NEW j \in 1..(Len(files) - 1), j + 1 = Len(files) \/ files[j + 1] = <<>>,
           NEW other, Len(other) = Len(files), other[j] = <<>>, other[j + 1] = files[j],
           \A i \in 1..Len(files) : i \notin {j, j + 1} => other[i] = files[i]
    PROVE  \E c : Cuts(other, lines, c)
<1>1. PICK n : n = Len(files) /\ n \in Nat /\ j \in 1..(n - 1) /\ j + 1 \in 1..n /\ j \in 1..n
  OBVIOUS
<1>2. PICK c : c = [i \in 1..(n + 1) |-> IF i = j + 1 THEN cut[j] ELSE IF i = j + 2 THEN cut[j + 1] ELSE cut[i]]
  OBVIOUS
<1>3. /\ \A i \in 1..(n + 1) : cut[i] \in 0..Len(lines)
      /\ \A i \in 1..n : cut[i + 1] <= cut[i] /\ files[i] = SubSeq(lines, cut[i + 1] + 1, cut[i])
      /\ cut[1] = Len(lines)
  BY <1>1 DEF Cuts
<1>4. /\ \A i \in 1..(n + 1) : i \notin {j + 1, j + 2} => c[i] = cut[i]
      /\ c[j + 1] = cut[j] /\ c[j + 2] = cut[j + 1]
  BY <1>1, <1>2
<1>5. c \in [1..(n + 1) -> 0..Len(lines)]
  <2>1. j \in 1..(n + 1) /\ j + 1 \in 1..(n + 1)
    BY <1>1
  <2> QED
    BY <1>2, <1>3, <2>1
<1>6. c[1] = Len(lines)
  <2>1. 1 \in 1..(n + 1) /\ 1 \notin {j + 1, j + 2}
    BY <1>1
  <2> QED
    BY <1>3, <1>4, <2>1
<1>7. ASSUME NEW i \in 1..n PROVE c[i + 1] <= c[i] /\ other[i] = SubSeq(lines, c[i + 1] + 1, c[i])
  <2>1. CASE i = j
    <3>1. c[i + 1] = cut[j] /\ c[i] = cut[j] /\ cut[j] \in Int
      <4>1. j \in 1..(n + 1) /\ j \notin {j + 1, j + 2}
        BY <1>1
      <4> QED
        BY <1>3, <1>4, <2>1, <4>1
    <3>2. PICK k : k = cut[j]
      OBVIOUS
    <3>3. SubSeq(lines, k + 1, k) = <<>> /\ k <= k
      BY <3>1, <3>2, NoLines
    <3> QED
      BY <2>1, <3>1, <3>2, <3>3
  <2>2. CASE i = j + 1
    <3>1. i + 1 = j + 2
      BY <1>1, <2>2
    <3>2. c[i + 1] = cut[j + 1] /\ c[i] = cut[j]
      BY <1>4, <2>2, <3>1
    <3> QED
      BY <1>1, <1>3, <2>2, <3>2
  <2>3. CASE i = j + 2
    <3>1. cut[j + 2] = cut[j + 1]
      <4>1. j + 1 \in 1..Len(files) /\ j + 1 # Len(files) /\ files[j + 1] = <<>>
        BY <1>1, <2>3
      <4>2. PICK k : k = j + 1
        OBVIOUS
      <4>3. cut[k + 1] = cut[k]
        BY <4>1, <4>2, EmptyFile
      <4>4. k + 1 = j + 2
        BY <1>1, <4>2
      <4> QED
        BY <4>2, <4>3, <4>4
    <3>2. i + 1 \in 1..(n + 1) /\ i + 1 \notin {j + 1, j + 2} /\ i \notin {j, j + 1}
      BY <1>1, <2>3
    <3>3. c[i + 1] = cut[i + 1] /\ c[i] = cut[i] /\ other[i] = files[i]
      BY <1>1, <1>4, <2>3, <3>1, <3>2
    <3> QED
      BY <1>3, <3>3
  <2>4. CASE i \notin {j, j + 1, j + 2}
    <3>1. i + 1 \in 1..(n + 1) /\ i + 1 \notin {j + 1, j + 2} /\ i \in 1..(n + 1) /\ i \notin {j + 1, j + 2}
      BY <1>1, <2>4
    <3>2. c[i + 1] = cut[i + 1] /\ c[i] = cut[i] /\ other[i] = files[i]
      BY <1>1, <1>4, <2>4, <3>1
    <3> QED
      BY <1>3, <3>2
  <2> QED
    BY <2>1, <2>2, <2>3, <2>4
<1> QED
  BY <1>1, <1>5, <1>6, <1>7 DEF Cuts

(* A line that is written goes to the current file and to the log.         *)
LEMMA FileGrows ==
    ASSUME NEW S, NEW files, NEW lines \in Seq(S), NEW cut, Cuts(files, lines, cut), Len(files) \in Nat, Len(files) >= 1,
           NEW v \in S, NEW other, Len(other) = Len(files), other[1] = Append(files[1], v),
           \A i \in 2..Len(files) : other[i] = files[i]
    PROVE  \E c : Cuts(other, Append(lines, v), c)
<1>1. PICK n, m, t : n = Len(files) /\ m = Len(lines) /\ t = Append(lines, v)
  OBVIOUS
<1>2. /\ n \in Nat /\ n >= 1 /\ m \in Nat /\ t \in Seq(S) /\ Len(t) = m + 1 /\ t[m + 1] = v
      /\ \A i \in 1..m : t[i] = lines[i]
  BY <1>1
<1>3. PICK c : c = [i \in 1..(n + 1) |-> IF i = 1 THEN m + 1 ELSE cut[i]]
  OBVIOUS
<1>4. /\ \A i \in 1..(n + 1) : cut[i] \in 0..m
      /\ \A i \in 1..n : cut[i + 1] <= cut[i] /\ files[i] = SubSeq(lines, cut[i + 1] + 1, cut[i])
      /\ cut[1] = m
  BY <1>1 DEF Cuts
<1>5. c \in [1..(n + 1) -> 0..(m + 1)] /\ c[1] = m + 1 /\ \A i \in 2..(n + 1) : c[i] = cut[i]
  BY <1>2, <1>3, <1>4
<1>6. ASSUME NEW a \in 0..m, NEW b \in 0..m PROVE SubSeq(t, a + 1, b) = SubSeq(lines, a + 1, b)
  <2>1. /\ SubSeq(t, a + 1, b) \in Seq(S) /\ Len(SubSeq(t, a + 1, b)) = IF a < b THEN b - a ELSE 0
        /\ \A i \in 1..(b - a) : SubSeq(t, a + 1, b)[i] = t[a + i]
    <3>1. a \in 0..Len(t) /\ b \in 0..Len(t)
      BY <1>2
    <3> QED
      BY <1>2, <3>1, Slice
  <2>2. /\ SubSeq(lines, a + 1, b) \in Seq(S) /\ Len(SubSeq(lines, a + 1, b)) = IF a < b THEN b - a ELSE 0
        /\ \A i \in 1..(b - a) : SubSeq(lines, a + 1, b)[i] = lines[a + i]
    <3>1. a \in 0..Len(lines) /\ b \in 0..Len(lines)
      BY <1>1
    <3> QED
      BY <3>1, Slice
  <2>3. PICK x, y : x = SubSeq(t, a + 1, b) /\ y = SubSeq(lines, a + 1, b)
    OBVIOUS
  <2>4. x \in Seq(S) /\ y \in Seq(S) /\ Len(x) = Len(y)
    BY <2>1, <2>2, <2>3
  <2>5. ASSUME NEW i \in 1..Len(x) PROVE x[i] = y[i]
    <3>1. i \in 1..(b - a) /\ a + i \in 1..m
      BY <1>2, <2>1, <2>3, <2>5
    <3> QED
      BY <1>2, <2>1, <2>2, <2>3, <3>1
  <2> QED
    BY <2>3, <2>4, <2>5, SeqEqual
<1>7. ASSUME NEW a \in 0..m PROVE SubSeq(t, a + 1, m + 1) = Append(SubSeq(lines, a + 1, m), v)
  <2>1. /\ SubSeq(t, a + 1, m + 1) \in Seq(S) /\ Len(SubSeq(t, a + 1, m + 1)) = (m + 1) - a
        /\ \A i \in 1..((m + 1) - a) : SubSeq(t, a + 1, m + 1)[i] = t[a + i]
    <3>1. PICK b : b = m + 1
      OBVIOUS
    <3>2. a \in 0..Len(t) /\ b \in 0..Len(t) /\ a < b
      BY <1>2, <3>1
    <3>3. /\ SubSeq(t, a + 1, b) \in Seq(S) /\ Len(SubSeq(t, a + 1, b)) = b - a
          /\ \A i \in 1..(b - a) : SubSeq(t, a + 1, b)[i] = t[a + i]
      BY <1>2, <3>2, Slice
    <3> QED
      BY <3>1, <3>3
  <2>2. /\ SubSeq(lines, a + 1, m) \in Seq(S) /\ Len(SubSeq(lines, a + 1, m)) = m - a
        /\ \A i \in 1..(m - a) : SubSeq(lines, a + 1, m)[i] = lines[a + i]
    <3>1. a \in 0..Len(lines) /\ m \in 0..Len(lines)
      BY <1>1, <1>2
    <3>2. /\ SubSeq(lines, a + 1, m) \in Seq(S) /\ Len(SubSeq(lines, a + 1, m)) = IF a < m THEN m - a ELSE 0
          /\ \A i \in 1..(m - a) : SubSeq(lines, a + 1, m)[i] = lines[a + i]
      BY <3>1, Slice
    <3> QED
      BY <1>2, <3>2
  <2>3. PICK x, y, z : x = SubSeq(t, a + 1, m + 1) /\ y = SubSeq(lines, a + 1, m) /\ z = Append(y, v)
    OBVIOUS
  <2>4. x \in Seq(S) /\ y \in Seq(S) /\ z \in Seq(S) /\ Len(x) = (m + 1) - a /\ Len(y) = m - a /\ Len(z) = (m + 1) - a
    BY <1>2, <2>1, <2>2, <2>3
  <2>5. ASSUME NEW i \in 1..Len(x) PROVE x[i] = z[i]
    <3>1. x[i] = t[a + i]
      BY <2>1, <2>3, <2>4, <2>5
    <3>2. CASE i = (m + 1) - a
      <4>1. a + i = m + 1 /\ i = Len(y) + 1
        BY <1>2, <2>4, <3>2
      <4>2. z[i] = v
        <5>1. Append(y, v)[Len(y) + 1] = v
          BY <2>4
        <5> QED
          BY <2>3, <4>1, <5>1
      <4> QED
        BY <1>2, <3>1, <4>1, <4>2
    <3>3. CASE i # (m + 1) - a
      <4>1. i \in 1..(m - a) /\ a + i \in 1..m /\ i \in 1..Len(y)
        BY <1>2, <2>4, <2>5, <3>3
      <4>2. z[i] = y[i] /\ y[i] = lines[a + i]
        BY <2>2, <2>3, <2>4, <4>1
      <4> QED
        BY <1>2, <3>1, <4>1, <4>2
    <3> QED
      BY <3>2, <3>3
  <2>6. x = z
    BY <2>4, <2>5, SeqEqual
  <2> QED
    BY <2>3, <2>6
<1>8. ASSUME NEW i \in 1..n PROVE c[i + 1] <= c[i] /\ other[i] = SubSeq(t, c[i + 1] + 1, c[i])
  <2>0. i \in 1..(n + 1) /\ i + 1 \in 2..(n + 1) /\ c[i + 1] = cut[i + 1] /\ cut[i + 1] \in 0..m
    BY <1>2, <1>4, <1>5
  <2>1. CASE i = 1
    <3>1. PICK a : a = cut[i + 1]
      OBVIOUS
    <3>2. a \in 0..m /\ files[i] = SubSeq(lines, a + 1, m) /\ c[i] = m + 1 /\ c[i + 1] = a
      BY <1>4, <1>5, <2>0, <2>1, <3>1
    <3>3. SubSeq(t, a + 1, m + 1) = Append(files[i], v)
      BY <1>7, <3>2
    <3>4. a <= m + 1
      BY <1>2, <3>2
    <3> QED
      BY <2>1, <3>2, <3>3, <3>4
  <2>2. CASE i # 1
    <3>1. i \in 2..n /\ i \in 2..(n + 1)
      BY <1>2, <2>2
    <3>2. PICK a, b : a = cut[i + 1] /\ b = cut[i]
      OBVIOUS
    <3>3. a \in 0..m /\ b \in 0..m /\ a <= b /\ files[i] = SubSeq(lines, a + 1, b) /\ c[i] = b /\ c[i + 1] = a
      BY <1>4, <1>5, <2>0, <3>1, <3>2
    <3>4. SubSeq(t, a + 1, b) = SubSeq(lines, a + 1, b) /\ other[i] = files[i]
      BY <1>1, <1>6, <3>1, <3>3
    <3> QED
      BY <3>3, <3>4
  <2> QED
    BY <2>1, <2>2
<1> QED
  BY <1>1, <1>2, <1>5, <1>8 DEF Cuts
(* Where the goroutine is when it neither moves files nor opens one.       *)
LEMMA CutsStay == ASSUME FilesCut, UNCHANGED <<logFiles, logged>> PROVE FilesCut'
<1>1. PICK cut : Cuts(logFiles, logged, cut)
  BY DEF FilesCut
<1>2. Cuts(logFiles', logged', cut)
  BY <1>1
<1> QED
  BY <1>2 DEF FilesCut

LEMMA FilesStay ==
    ASSUME FilesOK, UNCHANGED <<logFiles, logged>>, logger'.shifts = 0, logger'.at \notin {"shift", "open"}
    PROVE  FilesOK'
BY CutsStay DEF FilesOK

LEMMA FilesAlone ==
    ASSUME FilesOK, UNCHANGED <<logFiles, logged>>, logger'.shifts = logger.shifts, logger'.at = logger.at
    PROVE  FilesOK'
BY CutsStay DEF FilesOK

(* Where a goroutine is that has lost its event, or goes on with it.       *)
LEMMA LoserIsIdle ==
    ASSUME LoggerShape, NEW f, NEW s, NEW h, NEW z
    PROVE  /\ z = recordFailure => z.at = "idle" /\ z.shifts = logger.shifts
           /\ z = [recordFailure EXCEPT !.file = f] => z.at = "idle" /\ z.shifts = logger.shifts
           /\ z = [recordFailure EXCEPT !.shifts = h] => z.at = "idle" /\ z.shifts = h
           /\ z = [recordFailure EXCEPT !.size = s] => z.at = "idle" /\ z.shifts = logger.shifts
<1>1. ASSUME NEW i, NEW j, NEW k, z = Losing(i, j, k) PROVE z.at = "idle" /\ z.shifts = k
  BY <1>1 DEF Losing
<1>2. z = recordFailure => z = Losing(logger.file, logger.size, logger.shifts)
  BY LosingIs
<1>3. z = [recordFailure EXCEPT !.file = f] => z = Losing(f, logger.size, logger.shifts)
  BY LosingIs
<1>4. z = [recordFailure EXCEPT !.shifts = h] => z = Losing(logger.file, logger.size, h)
  BY LosingIs
<1>5. z = [recordFailure EXCEPT !.size = s] => z = Losing(logger.file, s, logger.shifts)
  BY LosingIs
<1>6. z = recordFailure => z.at = "idle" /\ z.shifts = logger.shifts
  BY <1>1, <1>2
<1>7. z = [recordFailure EXCEPT !.file = f] => z.at = "idle" /\ z.shifts = logger.shifts
  BY <1>1, <1>3
<1>8. z = [recordFailure EXCEPT !.shifts = h] => z.at = "idle" /\ z.shifts = h
  BY <1>1, <1>4
<1>9. z = [recordFailure EXCEPT !.size = s] => z.at = "idle" /\ z.shifts = logger.shifts
  BY <1>1, <1>5
<1> QED
  BY <1>6, <1>7, <1>8, <1>9

LEMMA GoerIsAt ==
    ASSUME LoggerShape, NEW a, NEW z, z = [logger EXCEPT !.at = a] PROVE z.at = a /\ z.shifts = logger.shifts
<1>1. z = Going(logger.file, logger.size, a, logger.shifts)
  BY GoingIs
<1> QED
  BY <1>1 DEF Going

LEMMA GoerShifts ==
    ASSUME LoggerShape, NEW h, NEW z, z = [logger EXCEPT !.shifts = h] PROVE z.at = logger.at /\ z.shifts = h
<1>1. z = Going(logger.file, logger.size, logger.at, h)
  BY GoingIs
<1> QED
  BY <1>1 DEF Going

LEMMA DropFiles == ASSUME LogInv, FilesOK, rotateDrop PROVE FilesOK'
<1>1. LoggerShape /\ logger.shifts = 0 /\ logged \in Seq(LogLine)
  BY DEF LogInv, LoggerOK, FilesOK, rotateDrop, At
<1>2. PICK n : n = Len(logFiles) /\ n \in Nat /\ n >= 1 /\ logFiles \in Seq(Seq(LogLine))
  BY DEF FilesOK
<1>3. CASE logFiles' = [logFiles EXCEPT ![MaxFiles] = <<>>] /\ Goes(IF MaxFiles = 1 THEN "open" ELSE "shift")
  <2>1. logFiles' \in Seq(Seq(LogLine)) /\ Len(logFiles') = n /\ logFiles'[n] = <<>> /\ \A i \in 1..(n - 1) : logFiles'[i] = logFiles[i]
    <3>1. n \in 1..Len(logFiles) /\ <<>> \in Seq(LogLine)
      BY <1>2
    <3>2. logFiles' = [logFiles EXCEPT ![n] = <<>>]
      BY <1>2, <1>3 DEF MaxFiles
    <3> QED
      BY <1>2, <3>1, <3>2, ExceptSeq
  <2>2. logged' = logged /\ Len(logged) \in Nat
    BY <1>1 DEF rotateDrop
  <2>3. FilesCut'
    <3>1. PICK cut : Cuts(logFiles, logged, cut)
      BY DEF FilesOK, FilesCut
    <3>2. PICK other : other = logFiles'
      OBVIOUS
    <3>3. /\ Len(logFiles) \in Nat /\ Len(logFiles) >= 1 /\ Len(other) = Len(logFiles) /\ other[Len(logFiles)] = <<>>
          /\ \A i \in 1..(Len(logFiles) - 1) : other[i] = logFiles[i]
      BY <1>2, <2>1, <3>2
    <3>4. \E c : Cuts(other, logged, c)
      BY <2>2, <3>1, <3>3, FileGoes
    <3> QED
      BY <2>2, <3>2, <3>4 DEF FilesCut
  <2>4. logger'.shifts = 0 /\ logger'.at = (IF n = 1 THEN "open" ELSE "shift")
    <3>1. PICK a : a = IF n = 1 THEN "open" ELSE "shift"
      OBVIOUS
    <3>2. logger' = [logger EXCEPT !.at = a]
      BY <1>2, <1>3, <3>1 DEF Goes, MaxFiles
    <3> QED
      BY <1>1, <3>1, <3>2, GoerIsAt
  <2>5. CASE n = 1
    BY <1>2, <2>1, <2>3, <2>4, <2>5 DEF FilesOK
  <2>6. CASE n # 1
    <3>1. 0 <= n - 2 /\ logger'.at = "shift"
      BY <1>2, <2>4, <2>6
    <3> QED
      BY <1>2, <2>1, <2>3, <2>4, <3>1 DEF FilesOK
  <2> QED
    BY <2>5, <2>6
<1>4. CASE GivesUp /\ UNCHANGED logFiles
  BY <1>1, <1>4, LoserIsIdle, FilesStay DEF GivesUp, rotateDrop
<1>5. CASE MaxFiles > 1 /\ logger' = [logger EXCEPT !.at = "shift"] /\ UNCHANGED logFiles
  <2>1. logger'.shifts = 0 /\ logger'.at = "shift" /\ logged' = logged /\ logFiles' = logFiles /\ n > 1
    BY <1>1, <1>2, <1>5, GoerIsAt DEF rotateDrop, MaxFiles
  <2>2. 0 <= n - 2
    BY <1>2, <2>1
  <2>3. FilesCut'
    BY <2>1, CutsStay DEF FilesOK
  <2> QED
    BY <1>2, <2>1, <2>2, <2>3 DEF FilesOK
<1> QED
  BY <1>3, <1>4, <1>5 DEF rotateDrop

LEMMA ShiftFiles == ASSUME LogInv, FilesOK, rotateShift PROVE FilesOK'
<1>1. LoggerShape /\ logger.at = "shift" /\ logged \in Seq(LogLine) /\ logged' = logged
  BY DEF LogInv, LoggerOK, rotateShift, At
<1>2. PICK n, s, i : n = Len(logFiles) /\ s = logger.shifts /\ i = n - s - 1
  OBVIOUS
<1>3. /\ n \in Nat /\ n >= 1 /\ logFiles \in Seq(Seq(LogLine)) /\ s \in Nat /\ s <= n - 2
      /\ s > 0 => logFiles[n - s] = <<>>
      /\ i \in 1..(n - 1) /\ i + 1 = n - s
  <2>1. /\ n \in Nat /\ n >= 1 /\ logFiles \in Seq(Seq(LogLine)) /\ s \in Nat /\ s <= n - 2
        /\ s > 0 => logFiles[n - s] = <<>>
    BY <1>1, <1>2 DEF FilesOK
  <2> QED
    BY <1>2, <2>1
<1>4. CASE logger' = [recordFailure EXCEPT !.shifts = 0] /\ UNCHANGED logFiles
  BY <1>1, <1>4, LoserIsIdle, FilesStay
<1>5. CASE /\ logFiles' = IF logFiles[i] = <<>> THEN logFiles ELSE [logFiles EXCEPT ![i + 1] = logFiles[i], ![i] = <<>>]
           /\ logger' = IF i = 1 THEN [logger EXCEPT !.at = "open", !.shifts = 0] ELSE [logger EXCEPT !.shifts = @ + 1]
  <2>1. /\ logFiles' \in Seq(Seq(LogLine)) /\ Len(logFiles') = n /\ logFiles'[i] = <<>>
        /\ FilesCut'
    <3>1. CASE logFiles[i] = <<>>
      <4>1. logFiles' = logFiles
        BY <1>5, <3>1
      <4> QED
        BY <1>1, <1>2, <1>3, <3>1, <4>1, CutsStay DEF FilesOK
    <3>2. CASE logFiles[i] # <<>>
      <4>1. PICK z, f : f = logFiles[i] /\ z = [logFiles EXCEPT ![i + 1] = f]
        OBVIOUS
      <4>2. i \in 1..n /\ i + 1 \in 1..n /\ i + 1 # i /\ f \in Seq(LogLine) /\ <<>> \in Seq(LogLine)
        <5>1. i \in 1..n /\ i + 1 \in 1..n /\ i + 1 # i
          BY <1>3
        <5>2. logFiles[i] \in Seq(LogLine)
          BY <1>2, <1>3, <5>1, ElementOfSeq
        <5> QED
          BY <4>1, <5>1, <5>2
      <4>3. z \in Seq(Seq(LogLine)) /\ Len(z) = n /\ \A j \in 1..n : z[j] = IF j = i + 1 THEN f ELSE logFiles[j]
        BY <1>2, <1>3, <4>1, <4>2, ExceptSeq
      <4>4. logFiles' = [z EXCEPT ![i] = <<>>]
        BY <1>5, <3>2, <4>1
      <4>5. /\ logFiles' \in Seq(Seq(LogLine)) /\ Len(logFiles') = n
            /\ \A j \in 1..n : logFiles'[j] = IF j = i THEN <<>> ELSE z[j]
        BY <4>2, <4>3, <4>4, ExceptSeq
      <4>6. /\ logFiles'[i] = <<>> /\ logFiles'[i + 1] = logFiles[i]
            /\ \A j \in 1..n : j \notin {i, i + 1} => logFiles'[j] = logFiles[j]
        BY <4>1, <4>2, <4>3, <4>5
      <4>7. i + 1 = n \/ logFiles[i + 1] = <<>>
        BY <1>3
      <4>8. PICK cut : Cuts(logFiles, logged, cut)
        BY DEF FilesOK, FilesCut
      <4>9. PICK other : other = logFiles'
        OBVIOUS
      <4>10. /\ Len(logFiles) \in Nat /\ i \in 1..(Len(logFiles) - 1) /\ (i + 1 = Len(logFiles) \/ logFiles[i + 1] = <<>>)
             /\ Len(other) = Len(logFiles) /\ other[i] = <<>> /\ other[i + 1] = logFiles[i]
             /\ \A j \in 1..Len(logFiles) : j \notin {i, i + 1} => other[j] = logFiles[j]
        BY <1>2, <1>3, <4>5, <4>6, <4>7, <4>9
      <4>11. \E c : Cuts(other, logged, c)
        BY <1>1, <4>8, <4>10, FileMoves
      <4> QED
        BY <1>1, <4>5, <4>6, <4>9, <4>11 DEF FilesCut
    <3> QED
      BY <3>1, <3>2
  <2>2. CASE i = 1
    <3>1. logger'.at = "open" /\ logger'.shifts = 0
      <4>1. logger' = [logger EXCEPT !.at = "open", !.shifts = 0]
        BY <1>5, <2>2
      <4>2. logger' = Going(logger.file, logger.size, "open", 0)
        BY <1>1, <4>1, GoingIs
      <4> QED
        BY <4>2 DEF Going
    <3> QED
      BY <1>1, <1>3, <2>1, <2>2, <3>1 DEF FilesOK
  <2>3. CASE i # 1
    <3>1. logger'.at = "shift" /\ logger'.shifts = s + 1
      <4>1. PICK h : h = s + 1
        OBVIOUS
      <4>2. logger' = [logger EXCEPT !.shifts = h]
        BY <1>2, <1>5, <2>3, <4>1
      <4> QED
        BY <1>1, <4>1, <4>2, GoerShifts
    <3>2. s + 1 \in Nat /\ s + 1 <= n - 2 /\ n - (s + 1) = i
      <4>1. i >= 2 /\ i = n - s - 1 /\ n \in Int /\ s \in Int /\ s \in Nat
        BY <1>2, <1>3, <2>3
      <4> QED
        BY <4>1
    <3> QED
      BY <1>1, <1>3, <2>1, <3>1, <3>2 DEF FilesOK
  <2> QED
    BY <2>2, <2>3
<1> QED
  <2>1. MaxFiles - logger.shifts - 1 = i
    BY <1>2 DEF MaxFiles
  <2> QED
    BY <1>4, <1>5, <2>1 DEF rotateShift

LEMMA OpenFile == ASSUME LogInv, FilesOK, rotateOpen PROVE FilesOK'
<1>1. LoggerShape /\ logger.shifts = 0 /\ logFiles[1] = <<>> /\ logged' = logged
  BY DEF LogInv, LoggerOK, FilesOK, rotateOpen, At
<1>2. CASE logFiles' = [logFiles EXCEPT ![1] = <<>>] /\ logger' = [logger EXCEPT !.file = "open", !.size = 0, !.at = "append"]
  <2>1. logFiles' = logFiles
    <3>1. 1 \in DOMAIN logFiles /\ logFiles = [i \in DOMAIN logFiles |-> logFiles[i]]
      BY DEF FilesOK
    <3> QED
      BY <1>1, <1>2, <3>1
  <2>2. logger'.at = "append" /\ logger'.shifts = 0
    <3>1. logger' = Going("open", 0, "append", logger.shifts)
      BY <1>1, <1>2, GoingIs
    <3> QED
      BY <1>1, <3>1 DEF Going
  <2> QED
    BY <1>1, <2>1, <2>2, FilesStay
<1>3. CASE GivesUp /\ UNCHANGED logFiles
  BY <1>1, <1>3, LoserIsIdle, FilesStay DEF GivesUp
<1> QED
  BY <1>2, <1>3 DEF rotateOpen

LEMMA WriteFile == ASSUME LogInv, FilesOK, WriteBody PROVE FilesOK'
<1>1. LoggerShape /\ logger.at = "append" /\ logger.shifts = 0 /\ logged \in Seq(LogLine)
  BY DEF LogInv, LoggerOK, FilesOK, WriteBody, At
<1>2. PICK e \in LogEvent : logger.body = <<e>>
  BY <1>1 DEF LogInv, LoggerOK
<1>3. logger.body[1] = e
  <2>1. <<e>>[1] = e
    OBVIOUS
  <2> QED
    BY <1>2, <2>1
<1>4. PICK v : v = [e EXCEPT !.size = 1, !.whole = FALSE]
  OBVIOUS
<1>5. e \in LogLine /\ v \in LogLine
  BY <1>4 DEF LogLine, LogEvent
<1>6. logger'.at = "idle" /\ logger'.shifts = 0
  <2>1. \/ logger' = [logger EXCEPT !.at = "idle", !.body = <<>>, !.size = @ + e.size]
        \/ logger' = recordFailure \/ logger' = [recordFailure EXCEPT !.size = @ + 1]
    BY <1>3 DEF WriteBody
  <2>2. CASE logger' = [logger EXCEPT !.at = "idle", !.body = <<>>, !.size = @ + e.size]
    <3>1. PICK q, x, p, f1, s1, a1, h1, b, n, d, l, r :
            logger = [queue |-> q, closed |-> x, pc |-> p, file |-> f1, size |-> s1, at |-> a1, shifts |-> h1, body |-> b,
                      failures |-> n, accepted |-> d, lost |-> l, dropped |-> r]
      BY <1>1 DEF LoggerShape
    <3>2. PICK w : w = logger.size + e.size
      OBVIOUS
    <3>3. logger' = [logger EXCEPT !.at = "idle", !.body = <<>>, !.size = w]
      BY <2>2, <3>2
    <3> QED
      BY <1>1, <3>1, <3>3
  <2>3. CASE logger' = recordFailure
    BY <1>1, <2>3, LoserIsIdle
  <2>4. CASE logger' = [recordFailure EXCEPT !.size = @ + 1]
    <3>1. PICK w : w = recordFailure.size + 1
      OBVIOUS
    <3>2. logger' = [recordFailure EXCEPT !.size = w]
      BY <2>4, <3>1
    <3> QED
      BY <1>1, <3>2, LoserIsIdle
  <2> QED
    BY <2>1, <2>2, <2>3, <2>4
<1>7. CASE UNCHANGED <<logFiles, logged>>
  BY <1>6, <1>7, FilesStay
<1>8. ASSUME NEW u \in LogLine, logFiles' = [logFiles EXCEPT ![1] = Append(@, u)], logged' = Append(logged, u) PROVE FilesOK'
  <2>1. PICK n, f : n = Len(logFiles) /\ f = Append(logFiles[1], u)
    OBVIOUS
  <2>2. n \in Nat /\ n >= 1 /\ 1 \in 1..Len(logFiles) /\ logFiles \in Seq(Seq(LogLine))
    BY <2>1 DEF FilesOK
  <2>3. f \in Seq(LogLine)
    BY <2>1, <2>2
  <2>4. logFiles' = [logFiles EXCEPT ![1] = f]
    BY <1>8, <2>1
  <2>5. /\ logFiles' \in Seq(Seq(LogLine)) /\ Len(logFiles') = n
        /\ \A j \in 1..n : logFiles'[j] = IF j = 1 THEN f ELSE logFiles[j]
    BY <2>1, <2>2, <2>3, <2>4, ExceptSeq
  <2>6. logFiles'[1] = Append(logFiles[1], u) /\ \A j \in 2..n : logFiles'[j] = logFiles[j]
    <3>1. 1 \in 1..n /\ \A j \in 2..n : j \in 1..n /\ j # 1
      BY <2>1, <2>2
    <3> QED
      BY <2>1, <2>5, <3>1
  <2>7. PICK cut : Cuts(logFiles, logged, cut)
    BY DEF FilesOK, FilesCut
  <2>8. FilesCut'
    <3>1. PICK other : other = logFiles'
      OBVIOUS
    <3>2. /\ Len(logFiles) \in Nat /\ Len(logFiles) >= 1 /\ Len(other) = Len(logFiles)
          /\ other[1] = Append(logFiles[1], u) /\ \A j \in 2..Len(logFiles) : other[j] = logFiles[j]
      BY <2>1, <2>2, <2>5, <2>6, <3>1
    <3>3. \E c : Cuts(other, Append(logged, u), c)
      BY <1>1, <2>7, <3>2, FileGrows
    <3> QED
      BY <1>8, <3>1, <3>3 DEF FilesCut
  <2> QED
    BY <1>6, <1>8, <2>2, <2>5, <2>8 DEF FilesOK
<1> QED
  BY <1>3, <1>4, <1>5, <1>7, <1>8 DEF WriteBody

LEMMA WriterFiles == ASSUME LogInv, FilesOK, Writer PROVE FilesOK'
<1>s. LoggerShape
  BY DEF LogInv, LoggerOK
<1>1. CASE write \/ rotateSync
  <2>1. logger.shifts = 0 /\ UNCHANGED <<logFiles, logged>>
    BY <1>1 DEF write, rotateSync, At, FilesOK
  <2>2. logger' = recordFailure \/ \E a \in {"sync", "append", "close"} : logger' = [logger EXCEPT !.at = a]
    BY <1>1 DEF write, rotateSync, Goes, GivesUp
  <2>3. logger'.shifts = 0 /\ logger'.at \notin {"shift", "open"}
    BY <1>s, <2>1, <2>2, LoserIsIdle, GoerIsAt
  <2> QED
    BY <2>1, <2>3, FilesStay
<1>2. CASE rotateClose
  <2>1. logger.shifts = 0 /\ UNCHANGED <<logFiles, logged>>
    BY <1>2 DEF rotateClose, At, FilesOK
  <2>2. logger' = [recordFailure EXCEPT !.file = "closed"] \/ logger' = [logger EXCEPT !.file = "closed", !.at = "drop"]
    BY <1>2 DEF rotateClose
  <2>3. logger'.shifts = 0 /\ logger'.at \notin {"shift", "open"}
    <3>1. CASE logger' = [recordFailure EXCEPT !.file = "closed"]
      <4>1. logger' = Losing("closed", logger.size, logger.shifts)
        BY <1>s, <3>1, LosingIs
      <4> QED
        BY <2>1, <4>1 DEF Losing
    <3>2. CASE logger' = [logger EXCEPT !.file = "closed", !.at = "drop"]
      <4>1. logger' = Going("closed", logger.size, "drop", logger.shifts)
        BY <1>s, <3>2, GoingIs
      <4> QED
        BY <2>1, <4>1 DEF Going
    <3> QED
      BY <2>2, <3>1, <3>2
  <2> QED
    BY <2>1, <2>3, FilesStay
<1>3. CASE Receive \/ Stop \/ finish
  <2>1. PICK q, x, p, f1, s1, a1, h1, b, n, d, l, r :
          logger = [queue |-> q, closed |-> x, pc |-> p, file |-> f1, size |-> s1, at |-> a1, shifts |-> h1, body |-> b,
                    failures |-> n, accepted |-> d, lost |-> l, dropped |-> r]
    BY <1>s DEF LoggerShape
  <2>2. logger.at = "idle" /\ UNCHANGED <<logFiles, logged>>
    BY <1>3 DEF Receive, Stop, finish
  <2>3. logger'.shifts = logger.shifts /\ logger'.at \in {"idle", "write"}
    BY <1>3, <2>1, <2>2 DEF Receive, Stop, finish
  <2>4. logger.shifts = 0
    BY <2>2 DEF FilesOK
  <2> QED
    BY <2>2, <2>3, <2>4, FilesStay
<1> QED
  BY <1>1, <1>2, <1>3, DropFiles, ShiftFiles, OpenFile, WriteFile DEF Writer

LEMMA FilesStart == ASSUME DiagnosticInit, ScenesAreTyped PROVE FilesOK
<1>1. PICK n \in Nat \ {0} : logFiles = [i \in 1..n |-> <<>>]
  BY DEF DiagnosticInit, ScenesAreTyped, SceneType
<1>2. logged = <<>> /\ logger.at = "idle" /\ logger.shifts = 0
  BY DEF DiagnosticInit, New
<1>3. logFiles \in Seq(Seq(LogLine)) /\ Len(logFiles) = n
  <2>1. <<>> \in Seq(LogLine)
    OBVIOUS
  <2> QED
    BY <1>1, <2>1
<1>4. Cuts(logFiles, logged, [i \in 1..(n + 1) |-> 0])
  <2>1. SubSeq(<<>>, 0 + 1, 0) = <<>>
    BY NoLines
  <2>2. PICK cut : cut = [i \in 1..(n + 1) |-> 0]
    OBVIOUS
  <2>3. Len(<<>>) = 0
    OBVIOUS
  <2>4. cut \in [1..(n + 1) -> 0..0] /\ cut[1] = 0 /\ \A i \in 1..n : cut[i + 1] = 0 /\ cut[i] = 0
    BY <2>2
  <2>5. \A i \in 1..n : logFiles[i] = <<>>
    BY <1>1
  <2> QED
    BY <1>2, <1>3, <2>1, <2>2, <2>3, <2>4, <2>5 DEF Cuts
<1> QED
  BY <1>2, <1>3, <1>4 DEF FilesOK, FilesCut

LEMMA FilesStep == ASSUME LogInv, FilesOK, DiagnosticNext PROVE FilesOK'
<1>0. PICK q, x, p, f1, s1, a1, h1, b, n, d, l, r :
        logger = [queue |-> q, closed |-> x, pc |-> p, file |-> f1, size |-> s1, at |-> a1, shifts |-> h1, body |-> b,
                  failures |-> n, accepted |-> d, lost |-> l, dropped |-> r]
  BY DEF LogInv, LoggerOK, LoggerShape
<1>1. CASE Transition \/ Publish \/ EmitRequest \/ EmitObserved \/ (\E o \in Subscribers : publishLatest(o) \/ Observe(o))
  BY <1>1, FilesAlone DEF Transition, Publish, publishLatest, Observe, EmitRequest, EmitObserved
<1>2. ASSUME NEW e \in Emitters, Send(e) PROVE FilesOK'
  <2>1. UNCHANGED <<logFiles, logged>>
    BY <1>2 DEF Send
  <2>2. logger'.at = logger.at /\ logger'.shifts = logger.shifts
    <3>1. CASE logger' = [logger EXCEPT !.dropped = @ + 1]
      BY <1>0, <3>1
    <3>2. ASSUME NEW u, NEW w, logger' = [logger EXCEPT !.queue = u, !.accepted = w]
          PROVE  logger'.at = logger.at /\ logger'.shifts = logger.shifts
      BY <1>0, <3>2
    <3> QED
      BY <1>2, <3>1, <3>2 DEF Send
  <2> QED
    BY <2>1, <2>2, FilesAlone
<1>3. CASE CloseProcess \/ Unsubscribe \/ Deadline \/ EmitStopped \/ Closed
  BY <1>3, FilesAlone DEF CloseProcess, Unsubscribe, Deadline, EmitStopped, Closed, Closes
<1>4. CASE Close
  <2>1. UNCHANGED <<logFiles, logged>> /\ logger'.at = logger.at /\ logger'.shifts = logger.shifts
    BY <1>0, <1>4 DEF Close, Closes
  <2> QED
    BY <2>1, FilesAlone
<1>5. CASE Relaunch
  <2>1. UNCHANGED <<logFiles, logged>> /\ logger'.at = "idle" /\ logger'.shifts = 0
    BY <1>5 DEF Relaunch, New
  <2> QED
    BY <2>1, FilesStay
<1> QED
  BY <1>1, <1>2, <1>3, <1>4, <1>5, WriterFiles DEF DiagnosticNext

LEMMA FilesAreKept == ASSUME FilesOK PROVE FilesAreNewest
<1>1. PICK cut : Cuts(logFiles, logged, cut)
  BY DEF FilesOK, FilesCut
<1> QED
  BY <1>1 DEF Cuts, FilesAreNewest, MaxFiles
-------------------------------------------------------------------------------
LEMMA BoundsStep == ASSUME BoundsOK, DiagnosticNext PROVE BoundsOK' /\ bounds'.scene = bounds.scene
<1>1. PICK s \in SceneType, e, m, t, f, l \in Nat :
        bounds = [scene |-> s, events |-> e, made |-> m, transitions |-> t, faults |-> f, launches |-> l]
  BY DEF BoundsOK, BoundsType
<1>2. \/ bounds' = bounds
      \/ bounds' = [bounds EXCEPT !.transitions = @ + 1]
      \/ bounds' = [bounds EXCEPT !.events = @ + 1, !.made = @ + 1]
      \/ bounds' = [bounds EXCEPT !.made = @ + 1]
      \/ bounds' = [bounds EXCEPT !.faults = @ + 1]
      \/ bounds' = [bounds EXCEPT !.launches = @ + 1, !.transitions = 0]
  <2>1. CASE Transition \/ (\E o \in Subscribers : publishLatest(o) \/ Observe(o)) \/ Publish
    BY <2>1 DEF Transition, publishLatest, Observe, Publish
  <2>2. CASE EmitRequest \/ EmitObserved \/ (\E x \in Emitters : Send(x))
    BY <2>2 DEF EmitRequest, EmitObserved, Send
  <2>3. CASE Writer
    BY <2>3 DEF Writer, Receive, Stop, write, WriteBody, rotateSync, rotateClose, rotateDrop, rotateShift, rotateOpen,
       finish, Goes, GivesUp, Fails
  <2>4. CASE CloseProcess \/ Unsubscribe \/ Deadline \/ EmitStopped \/ Close \/ Closed
    BY <2>4 DEF CloseProcess, Unsubscribe, Deadline, EmitStopped, Close, Closed
  <2>5. CASE Relaunch
    BY <2>5 DEF Relaunch
  <2> QED
    BY <2>1, <2>2, <2>3, <2>4, <2>5 DEF DiagnosticNext
<1>3. BoundsOK' /\ bounds'.scene = s
  <2>1. CASE bounds' = bounds
    BY <1>1, <2>1 DEF BoundsOK, BoundsType
  <2>2. CASE bounds' = [bounds EXCEPT !.transitions = @ + 1]
    <3>1. bounds' = [scene |-> s, events |-> e, made |-> m, transitions |-> t + 1, faults |-> f, launches |-> l]
      BY <1>1, <2>2
    <3> QED
      BY <3>1 DEF BoundsOK, BoundsType
  <2>3. CASE bounds' = [bounds EXCEPT !.events = @ + 1, !.made = @ + 1]
    <3>1. PICK b : b = [bounds EXCEPT !.events = @ + 1]
      OBVIOUS
    <3>2. b = [scene |-> s, events |-> e + 1, made |-> m, transitions |-> t, faults |-> f, launches |-> l]
      BY <1>1, <3>1
    <3>3. bounds' = [b EXCEPT !.made = @ + 1]
      BY <1>1, <2>3, <3>1, <3>2
    <3>4. bounds' = [scene |-> s, events |-> e + 1, made |-> m + 1, transitions |-> t, faults |-> f, launches |-> l]
      BY <3>2, <3>3
    <3> QED
      BY <3>4 DEF BoundsOK, BoundsType
  <2>4. CASE bounds' = [bounds EXCEPT !.made = @ + 1]
    <3>1. bounds' = [scene |-> s, events |-> e, made |-> m + 1, transitions |-> t, faults |-> f, launches |-> l]
      BY <1>1, <2>4
    <3> QED
      BY <3>1 DEF BoundsOK, BoundsType
  <2>5. CASE bounds' = [bounds EXCEPT !.faults = @ + 1]
    <3>1. bounds' = [scene |-> s, events |-> e, made |-> m, transitions |-> t, faults |-> f + 1, launches |-> l]
      BY <1>1, <2>5
    <3> QED
      BY <3>1 DEF BoundsOK, BoundsType
  <2>6. CASE bounds' = [bounds EXCEPT !.launches = @ + 1, !.transitions = 0]
    <3>1. PICK b : b = [bounds EXCEPT !.launches = @ + 1]
      OBVIOUS
    <3>2. b = [scene |-> s, events |-> e, made |-> m, transitions |-> t, faults |-> f, launches |-> l + 1]
      BY <1>1, <3>1
    <3>3. bounds' = [b EXCEPT !.transitions = 0]
      BY <1>1, <2>6, <3>1, <3>2
    <3>4. bounds' = [scene |-> s, events |-> e, made |-> m, transitions |-> 0, faults |-> f, launches |-> l + 1]
      BY <3>2, <3>3
    <3> QED
      BY <3>4 DEF BoundsOK, BoundsType
  <2> QED
    BY <1>2, <2>1, <2>2, <2>3, <2>4, <2>5, <2>6
<1> QED
  BY <1>1, <1>3

LEMMA StatusStep == ASSUME StatusOK, LogInv, BoundsOK, DiagnosticNext PROVE StatusOK'
<1>0. Subscribers' = Subscribers
  BY BoundsStep DEF Subscribers
<1>1. CASE Transition
  <2>1. closer' = closer /\ closer.pc = "none" /\ closer \in CloserType /\ BeginTransition
    BY <1>1 DEF Transition, StatusOK
  <2> QED
    BY <1>0, <2>1, BeginKeeps
<1>2. CASE Publish
  BY <1>0, <1>2, BusyKeeps DEF Publish
<1>3. CASE EmitRequest
  BY <1>0, <1>3, CloserStays DEF EmitRequest
<1>4. CASE EmitObserved
  <2>1. closer' = closer /\ "log" \in Subscribers /\ (board' = board \/ board' = [board EXCEPT !.busy["log"] = FALSE])
    BY <1>4 DEF EmitObserved
  <2> QED
    BY <1>0, <2>1, BusyKeeps, CloserStays
<1>5. ASSUME NEW e \in Emitters, Send(e) PROVE StatusOK'
  <2>1. CASE e = "closer"
    <3>1. board' = board /\ closer.pc = "emit"
      BY <1>5, <2>1 DEF Send, LogInv, CloseOK
    <3>2. closer' \in CloserType /\ closer'.pc = "close" /\ closer'.error = closer.error
      BY <1>5, <2>1, CloserFields DEF Send, StatusOK, CloserType
    <3> QED
      BY <1>0, <3>1, <3>2, CloserKeeps DEF StatusOK, Silent
  <2>2. CASE e # "closer"
    <3>1. closer' = closer /\ (board' = board \/ (e = "log" /\ board' = [board EXCEPT !.busy["log"] = FALSE]))
      BY <1>5, <2>2 DEF Send
    <3>2. CASE "log" \in Subscribers
      BY <1>0, <3>1, <3>2, BusyKeeps, CloserStays
    <3>3. CASE "log" \notin Subscribers
      <4>1. board' = board
        <5>1. ASSUME board' = [board EXCEPT !.busy["log"] = FALSE] PROVE board' = board
          BY <3>3, <5>1 DEF StatusOK, BoardType
        <5> QED
          BY <3>1, <5>1
      <4> QED
        BY <1>0, <3>1, <4>1, CloserStays
    <3> QED
      BY <3>2, <3>3
  <2> QED
    BY <2>1, <2>2
<1>6. CASE Writer
  BY <1>0, <1>6, WriterStep, CloserStays
<1>7. CASE CloseProcess \/ Unsubscribe \/ Deadline \/ EmitStopped \/ Closed \/ Relaunch
  BY <1>0, <1>7, CloseProcessKeeps, UnsubscribeKeeps, DeadlineKeeps, EmitStoppedKeeps, ClosedKeeps, RelaunchKeeps
<1>8. CASE Close
  BY <1>8, CloseKeeps DEF LogInv, LoggerOK
<1>9. ASSUME NEW o \in Subscribers, publishLatest(o) \/ Observe(o) PROVE StatusOK'
  BY <1>9, publishLatestKeeps, ObserveKeeps
<1> QED
  BY <1>1, <1>2, <1>3, <1>4, <1>5, <1>6, <1>7, <1>8, <1>9 DEF DiagnosticNext

LEMMA LogStep == ASSUME StatusOK, LogInv, BoundsOK, DiagnosticNext PROVE LogInv'
<1>1. CASE Transition \/ Publish \/ (\E o \in Subscribers : publishLatest(o) \/ Observe(o))
  BY <1>1, LogStays DEF Transition, Publish, publishLatest, Observe
<1>2. CASE EmitRequest
  <2>1. PICK size \in bounds.scene.sizes : Emit("request", size)
    BY <1>2 DEF EmitRequest
  <2>2. size \in Nat /\ "request" \in Emitters
    BY DEF BoundsOK, BoundsType, SceneType, Emitters
  <2>3. UNCHANGED <<logged, logger, closer>>
    BY <1>2 DEF EmitRequest
  <2> QED
    BY <2>1, <2>2, <2>3, EmitKeeps
<1>3. CASE EmitObserved
  <2>1. UNCHANGED <<logged, logger, closer>> /\ (Emit("log", 1) \/ emitters' = emitters) /\ "log" \in Emitters
    BY <1>3 DEF EmitObserved, Emitters
  <2> QED
    BY <2>1, EmitKeeps, LogStays
<1>4. ASSUME NEW e \in Emitters, Send(e) PROVE LogInv'
  BY <1>4, SendKeeps DEF StatusOK
<1>5. CASE Writer
  BY <1>5, WriterStep
<1>6. CASE CloseProcess \/ Unsubscribe \/ Deadline \/ EmitStopped \/ Close \/ Closed \/ Relaunch
  BY <1>6, EndingKeeps, StoppedKeeps, LogCloseKeeps, LogClosedKeeps, LogRelaunchKeeps
<1> QED
  BY <1>1, <1>2, <1>3, <1>4, <1>5, <1>6 DEF DiagnosticNext

(* What the process tells of itself is true, for any observers, sizes of   *)
(* events, number of files, failures and launches: the files together hold *)
(* the newest lines in the order in which they were written, whatever      *)
(* fails in a rotation and wherever the process ends (rotate, write); an   *)
(* accepted event is written, waits or is counted as lost, and the events  *)
(* of a launch are written as they were accepted (Emit, run); a Close      *)
(* without an error leaves all events accepted before it written and the   *)
(* last status seen (Close); and an observer that is not being sent a      *)
(* status has the current one or will find it, and never an older one      *)
(* again (publishLatest).                                                  *)
THEOREM DiagnosticsAreHonest ==
    ASSUME ScenesAreTyped
    PROVE  DiagnosticInit /\ [][DiagnosticNext]_diagnosticVars =>
             [](FilesAreNewest /\ EventsAreAccounted /\ WrittenAsAccepted /\ CloseIsHonest /\ StatusIsLatest)
<1> DEFINE I == StatusOK /\ LogInv /\ OrderInv /\ FilesOK /\ BoundsOK
<1>1. DiagnosticInit => I
  <2>1. ASSUME DiagnosticInit PROVE BoundsOK
    BY <2>1 DEF DiagnosticInit, BoundsOK, BoundsType, ScenesAreTyped
  <2> QED
    BY <2>1, StatusStart, LogStart, OrderStart, FilesStart
<1>2. I /\ [DiagnosticNext]_diagnosticVars => I'
  <2>1. ASSUME I, DiagnosticNext PROVE I'
    BY <2>1, StatusStep, LogStep, OrderStep, FilesStep, BoundsStep
  <2>2. ASSUME I, UNCHANGED diagnosticVars PROVE I'
    <3>1. StatusOK'
      BY <2>2, CloserStays DEF diagnosticVars, Subscribers
    <3>2. LogInv' /\ BoundsOK'
      BY <2>2, LogStays DEF diagnosticVars, BoundsOK
    <3>3. OrderInv'
      BY <2>2, OrderStays DEF diagnosticVars
    <3>4. FilesOK'
      BY <2>2, FilesAlone DEF diagnosticVars
    <3> QED
      BY <3>1, <3>2, <3>3, <3>4
  <2> QED
    BY <2>1, <2>2
<1>3. I => FilesAreNewest /\ EventsAreAccounted /\ WrittenAsAccepted /\ CloseIsHonest /\ StatusIsLatest
  BY StatusIsKept, LogIsKept, FilesAreKept DEF OrderInv
<1> QED
  BY <1>1, <1>2, <1>3, PTL
=============================================================================
