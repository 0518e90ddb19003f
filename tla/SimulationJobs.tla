--------------------------- MODULE SimulationJobs ---------------------------
(***************************************************************************)
(* Simulation Jobs: admission, the captured materialization, samples       *)
(* computed by strided workers, checkpoints, cancellation, the seal that   *)
(* commits run, verification and Job together, and recovery from the       *)
(* checkpoints after a restart that may bring another implementation.      *)
(* The repository composes no production driver of these functions; the    *)
(* driver below calls them in the order their contracts state.             *)
(* Sources: internal/simulation/orchestration, internal/app/simulation_*,  *)
(* internal/storage/sqlite/simulation_runs.go.                             *)
(***************************************************************************)
EXTENDS Naturals, FiniteSets, Sequences, Job

CONSTANTS
    SimJobs,          \* Jobs, each under its own idempotency key
    SimInputs,        \* canonical inputs, told apart by their hash
    SampleCount,      \* samples of an input
    SimWorkers,       \* parallelism asked for
    Implementations,  \* implementation fingerprints
    SimRestarts,      \* bound on restarts
    NoSim             \* "no Job", "no value"

ASSUME SimAssumption ==
    /\ SampleCount \in Nat \ {0} /\ SimWorkers \in Nat \ {0}
    /\ SimRestarts \in Nat /\ NoSim \notin SimJobs \cup Implementations
    /\ NoSim \notin [0 .. SampleCount - 1 -> Implementations]

VARIABLES
    sjob,       \* jobs of kind simulation
    captured,   \* simulation_job_materializations
    checkpoint, \* simulation_job_checkpoints: identity and who computed it
    srun,       \* simulation_runs and simulation_verifications
    installed,  \* the fingerprint the registry resolves to
    driver,     \* the worker process: one Job at a time
    strollers,  \* the sample workers of the driver's Job
    sresults,   \* the results slice, shared by the sample workers
    stodo,      \* Jobs RecoverAll has still to look at, in creation order
    created,    \* Jobs in creation order
    srestarts

simVars == <<sjob, captured, checkpoint, srun, installed, driver, strollers,
             sresults, stodo, created, srestarts>>

Ordinals == 0 .. SampleCount - 1

(* NewSamplePlan never starts more workers than there are samples.         *)
PlanWorkers == IF SimWorkers > SampleCount THEN SampleCount ELSE SimWorkers
Strollers == 0 .. PlanWorkers - 1

(* OrdinalsForWorker: the strided partition.                               *)
OrdinalsForWorker(w) == {o \in Ordinals : o % PlanWorkers = w}

NoSimJob == [status |-> "none", gen |-> 0, input |-> NoSim, since |-> 0]
NoRun == [samples |-> NoSim, verifies |-> NoSim, verdict |-> "none"]
IdleDriver == [pc |-> "idle", job |-> NoSim, failed |-> FALSE]
Resting == [pc |-> "done", left |-> {}, at |-> 0]

SimInit ==
    /\ sjob = [j \in SimJobs |-> NoSimJob]
    /\ captured = [j \in SimJobs |-> NoSim]
    /\ checkpoint = [j \in SimJobs |-> [o \in Ordinals |-> NoSim]]
    /\ srun = [j \in SimJobs |-> NoRun]
    /\ installed \in Implementations
    /\ driver = IdleDriver
    /\ strollers = [w \in Strollers |-> Resting]
    /\ sresults = [o \in Ordinals |-> NoSim]
    /\ stodo = <<>>
    /\ created = <<>>
    /\ srestarts = 0

Open(j) == Recoverable(sjob[j].status)
SimMoved(j, to) == [sjob EXCEPT ![j].status = to]
Driving(pc) == driver.pc = pc
Drive(pc) == driver' = [driver EXCEPT !.pc = pc]

-----------------------------------------------------------------------------
(* Admission *)

(* AdmitSimulation: the verification target has the input and the          *)
(* fingerprint of the new Job.                                             *)
Verifiable(source, i) ==
    source # NoSim =>
        /\ srun[source].samples # NoSim
        /\ sjob[source].input = i /\ captured[source].fp = installed

(* CreateSimulationJob after Admit; a replayed key ends the submission     *)
(* there, with or without a materialization.                               *)
CreateSimulationJob(j) ==
    /\ Driving("idle") /\ sjob[j].status = "none"
    /\ \E i \in SimInputs, source \in (SimJobs \ {j}) \cup {NoSim} :
          /\ Verifiable(source, i)
          /\ sjob' = [sjob EXCEPT ![j] = [NoSimJob EXCEPT !.status = "queued", !.input = i, !.since = srestarts]]
          /\ srun' = [srun EXCEPT ![j].verifies = source]
    /\ created' = Append(created, j)
    /\ driver' = [IdleDriver EXCEPT !.pc = "capture", !.job = j]
    /\ UNCHANGED <<captured, checkpoint, installed, strollers, sresults, stodo, srestarts>>

(* SaveSimulationJobMaterialization, written after the Job.                *)
SaveMaterialization ==
    /\ Driving("capture")
    /\ captured' = [captured EXCEPT ![driver.job] = [input |-> sjob[driver.job].input, fp |-> installed]]
    /\ driver' = IdleDriver
    /\ UNCHANGED <<sjob, checkpoint, srun, installed, strollers, sresults, stodo, created, srestarts>>

RequestSimCancellation(j) ==
    /\ Open(j) /\ sjob[j].gen = 0
    /\ sjob' = [sjob EXCEPT ![j].gen = 1]
    /\ UNCHANGED <<captured, checkpoint, srun, installed, driver, strollers, sresults, stodo, created, srestarts>>

-----------------------------------------------------------------------------
(* Execution *)

(* The driver takes a queued Job this process has captured and starts the  *)
(* sample plan (Jobs of an earlier process are recovery's); the            *)
(* cancellation check comes before any worker.                             *)
StartSamples(j) ==
    /\ Driving("idle") /\ sjob[j].status = "queued" /\ sjob[j].gen = 0
    /\ captured[j] # NoSim /\ sjob[j].since = srestarts
    /\ sjob' = SimMoved(j, "running")
    /\ driver' = [pc |-> "samples", job |-> j, failed |-> FALSE]
    /\ strollers' = [w \in Strollers |-> [pc |-> "check", left |-> OrdinalsForWorker(w), at |-> 0]]
    /\ sresults' = [o \in Ordinals |-> NoSim]
    /\ UNCHANGED <<captured, checkpoint, srun, installed, stodo, created, srestarts>>

Lowest(S) == CHOOSE o \in S : \A p \in S : o <= p
Uncanceled(j) == sjob[j].gen = 0

(* The check before a sample: a cancel or another worker's failure ends    *)
(* the worker.                                                             *)
CheckBefore(w) ==
    /\ Driving("samples") /\ strollers[w].pc = "check"
    /\ LET left == strollers[w].left IN
       IF left = {} \/ driver.failed \/ ~Uncanceled(driver.job)
          THEN /\ strollers' = [strollers EXCEPT ![w] = Resting]
               /\ driver' = [driver EXCEPT !.failed = @ \/ (left # {} /\ ~Uncanceled(driver.job))]
          ELSE /\ strollers' = [strollers EXCEPT ![w].pc = "run", ![w].at = Lowest(left)]
               /\ UNCHANGED driver
    /\ UNCHANGED <<sjob, captured, checkpoint, srun, installed, sresults, stodo, created, srestarts>>

(* The sample itself; a failed one sets firstErr.                          *)
RunSample(w) ==
    /\ strollers[w].pc = "run"
    /\ \/ /\ strollers' = [strollers EXCEPT ![w].pc = "expose"]
          /\ UNCHANGED driver
       \/ /\ strollers' = [strollers EXCEPT ![w] = Resting]
          /\ driver' = [driver EXCEPT !.failed = TRUE]
    /\ UNCHANGED <<sjob, captured, checkpoint, srun, installed, sresults, stodo, created, srestarts>>

(* The check after a sample, before its result is exposed.                 *)
Expose(w) ==
    /\ strollers[w].pc = "expose"
    /\ IF Uncanceled(driver.job)
          THEN /\ sresults' = [sresults EXCEPT ![strollers[w].at] = installed]
               /\ strollers' = [strollers EXCEPT ![w].pc = "check", ![w].left = @ \ {strollers[w].at}]
               /\ UNCHANGED driver
          ELSE /\ strollers' = [strollers EXCEPT ![w] = Resting]
               /\ driver' = [driver EXCEPT !.failed = TRUE]
               /\ UNCHANGED sresults
    /\ UNCHANGED <<sjob, captured, checkpoint, srun, installed, stodo, created, srestarts>>

(* Run returns once every worker has: all results or the first error.      *)
Joined ==
    /\ Driving("samples") /\ \A w \in Strollers : strollers[w].pc = "done"
    /\ Drive(IF driver.failed THEN "stop" ELSE "save")
    /\ UNCHANGED <<sjob, captured, checkpoint, srun, installed, strollers, sresults, stodo, created, srestarts>>

(* SaveSimulationCheckpoint: a stored ordinal is rewritten only under the  *)
(* same identity.  The Job's status is not looked at.                      *)
Stored(j, o, by) ==
    IF checkpoint[j][o] = NoSim \/ checkpoint[j][o].fp = captured[j].fp
       THEN [checkpoint EXCEPT ![j][o] = [fp |-> captured[j].fp, by |-> by]]
       ELSE checkpoint

SaveCheckpoint(o) ==
    /\ Driving("save") /\ sresults[o] # NoSim
    /\ checkpoint' = Stored(driver.job, o, sresults[o])
    /\ sresults' = [sresults EXCEPT ![o] = NoSim]
    /\ UNCHANGED <<sjob, captured, srun, installed, driver, strollers, stodo, created, srestarts>>

(* Mutant: recovery trusts the stored fingerprint.                         *)
AnyFingerprint(j) == TRUE

(* The seal's count, minimum and maximum over the Job's own identity.      *)
CheckpointsComplete(j) ==
    {o \in Ordinals : checkpoint[j][o] # NoSim /\ checkpoint[j][o].fp = captured[j].fp} = Ordinals

(* insertSimulationVerificationForSealedRun compares the two results.      *)
Samples(j) == [o \in Ordinals |-> checkpoint[j][o].by]
Verdict(j) ==
    LET source == srun[j].verifies IN
    CASE source = NoSim -> "none"
      [] Samples(j) = srun[source].samples -> "verified"
      [] OTHER -> "mismatch"

SourceMatches(j) ==
    LET source == srun[j].verifies IN
    source # NoSim => captured[source].fp = captured[j].fp /\ sjob[source].input = sjob[j].input

(* SealSimulationRun: run, verification and Job in one transaction; a      *)
(* refused seal leaves the driver to stop.                                 *)
SealSimulationRun ==
    LET j == driver.job IN
    /\ Driving("save") /\ \A o \in Ordinals : sresults[o] = NoSim
    /\ IF sjob[j].status = "running" /\ sjob[j].gen = 0 /\ CheckpointsComplete(j) /\ SourceMatches(j)
          THEN /\ srun' = [srun EXCEPT ![j].samples = Samples(j), ![j].verdict = Verdict(j)]
               /\ sjob' = SimMoved(j, "succeeded")
               /\ driver' = IdleDriver
          ELSE Drive("stop") /\ UNCHANGED <<srun, sjob>>
    /\ UNCHANGED <<captured, checkpoint, installed, strollers, sresults, stodo, created, srestarts>>

(* FailSimulationJob: the Job and its FAILED event, never a canceled one.  *)
Failed(j) == IF Open(j) /\ sjob[j].gen = 0 THEN SimMoved(j, "failed") ELSE sjob

(* ConvergeCancellation: a canceled open Job becomes canceled.             *)
Converged(j) == IF Open(j) /\ sjob[j].gen # 0 THEN SimMoved(j, "canceled") ELSE sjob

(* After an error: the classified failure is persisted, or the             *)
(* cancellation converges.                                                 *)
StopJob ==
    /\ Driving("stop")
    /\ sjob' = IF sjob[driver.job].gen # 0 THEN Converged(driver.job) ELSE Failed(driver.job)
    /\ driver' = IdleDriver
    /\ UNCHANGED <<captured, checkpoint, srun, installed, strollers, sresults, stodo, created, srestarts>>

-----------------------------------------------------------------------------
(* Recovery *)

(* The process ends, perhaps for an upgrade; RecoverAll lists the open     *)
(* Jobs in creation order.                                                 *)
SimRestart ==
    /\ srestarts < SimRestarts
    /\ srestarts' = srestarts + 1
    /\ installed' \in Implementations
    /\ driver' = IdleDriver
    /\ strollers' = [w \in Strollers |-> Resting]
    /\ sresults' = [o \in Ordinals |-> NoSim]
    /\ stodo' = SelectSeq(created, LAMBDA j : Recoverable(sjob[j].status))
    /\ UNCHANGED <<sjob, captured, checkpoint, srun, created>>

(* PlanRecovery resolves the captured input again.                         *)
FingerprintResolves(j) == captured[j].fp = installed

(* LoadSimulationRecoveryRequest needs the materialization.                *)
Loadable(j) == captured[j] # NoSim

(* recoveryJobValid and recoveryMaterializationMatches.                    *)
RecoveryJobValid(j) == Open(j) /\ sjob[j].gen = 0 /\ captured[j].input = sjob[j].input

(* PlanRecovery on the Job as listed.                                      *)
Recovers(j) == Loadable(j) /\ RecoveryJobValid(j) /\ FingerprintResolves(j)

Missing(j) == {o \in Ordinals : checkpoint[j][o] = NoSim}

(* The next listed Job: recovered, refused with a stored failure, or, when *)
(* the failure is refused for a canceled Job, the end of RecoverAll.       *)
RecoverJob ==
    /\ Driving("idle") /\ stodo # <<>>
    /\ LET j == Head(stodo) IN
       IF Recovers(j)
          THEN /\ driver' = [pc |-> "recover", job |-> j, failed |-> FALSE]
               /\ UNCHANGED <<sjob, stodo>>
          ELSE /\ sjob' = Failed(j)
               /\ stodo' = IF sjob[j].gen = 0 THEN Tail(stodo) ELSE <<>>
               /\ UNCHANGED driver
    /\ UNCHANGED <<captured, checkpoint, srun, installed, strollers, sresults, created, srestarts>>

(* Recover runs the missing ordinals in order and checkpoints each; an     *)
(* error is persisted as a recovery refusal.                               *)
RecoverMissing ==
    LET j == driver.job IN
    /\ Driving("recover") /\ Missing(j) # {}
    /\ \/ /\ checkpoint' = Stored(j, Lowest(Missing(j)), installed)
          /\ UNCHANGED <<sjob, stodo, driver>>
       \/ /\ sjob' = Failed(j)
          /\ stodo' = IF sjob[j].gen = 0 THEN Tail(stodo) ELSE <<>>
          /\ driver' = IdleDriver
          /\ UNCHANGED checkpoint
    /\ UNCHANGED <<captured, srun, installed, strollers, sresults, created, srestarts>>

(* All ordinals are there: the driver goes on to the seal.                 *)
Recovered ==
    /\ Driving("recover") /\ Missing(driver.job) = {}
    /\ sjob' = IF sjob[driver.job].status = "queued" THEN SimMoved(driver.job, "running") ELSE sjob
    /\ stodo' = Tail(stodo)
    /\ Drive("save")
    /\ UNCHANGED <<captured, checkpoint, srun, installed, strollers, sresults, created, srestarts>>

SimNext ==
    \/ \E j \in SimJobs : CreateSimulationJob(j) \/ RequestSimCancellation(j) \/ StartSamples(j)
    \/ SaveMaterialization \/ Joined \/ SealSimulationRun \/ StopJob
    \/ \E w \in Strollers : CheckBefore(w) \/ RunSample(w) \/ Expose(w)
    \/ \E o \in Ordinals : SaveCheckpoint(o)
    \/ SimRestart \/ RecoverJob \/ RecoverMissing \/ Recovered

-----------------------------------------------------------------------------

(* A sealed run belongs to an uncanceled succeeded Job, is complete, and   *)
(* every one of its samples was computed by the implementation captured at *)
(* admission, whatever restarts, upgrades and partial checkpoints came in  *)
(* between; a run that claims to reproduce another one really does         *)
(* (PlanRecovery, SaveSimulationCheckpoint, SealSimulationRun).            *)
SealedRunIsCaptured ==
    \A j \in SimJobs :
        /\ sjob[j].status = "succeeded" <=> srun[j].samples # NoSim
        /\ srun[j].samples # NoSim =>
              /\ sjob[j].gen = 0
              /\ srun[j].samples = [o \in Ordinals |-> captured[j].fp]
              /\ srun[j].verifies # NoSim => srun[j].verdict = "verified"
=============================================================================
