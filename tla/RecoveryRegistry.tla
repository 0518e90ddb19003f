--------------------------- MODULE RecoveryRegistry ---------------------------
(***************************************************************************)
(* What the runtime offers for recovery: the registry that brings durable  *)
(* Jobs to a legal state after a restart, the coordinator that runs the    *)
(* recovery stages in one order, and the coordinator that prepares the     *)
(* kinds of Jobs for a shutdown.                                           *)
(***************************************************************************)
EXTENDS Integers, Sequences, FiniteSets, SequencesExt, Job

CONSTANTS
    JobRows,           \* initial tables of Jobs: sequences of [kind, status, generation]
    Descriptors,       \* [kind -> [legal, fingerprint, checkpoints, resume]], the registered kinds
    RecoveryLimit,     \* bound of the code: Jobs of one scan
    Checkpoints,       \* ids of effect checkpoints
    StageLists,        \* sequences of [stage, scans, works] as they are registered
    Outcomes,          \* results of the recovered items of one stage
    Policies,          \* kinds with a shutdown policy
    MaxMoves           \* bound: steps of others while a scan runs

VARIABLES
    jobRows,     \* the Jobs, in the order of created_at
    scan,        \* the scan in progress
    changes,     \* history: the Jobs that recovery changed, as listed and as they were
    stages,      \* the recovery coordinator
    shutdown     \* the shutdown coordinator

recoveryVars == <<jobRows, scan, changes, stages, shutdown>>

Idle == [pc |-> "idle", listed |-> <<>>, at |-> 0, facts |-> <<>>, results |-> <<>>, moves |-> 0]

-------------------------------------------------------------------------------
(* Registry.                                                               *)

validDescriptor(d) == d.legal # {} /\ d.legal \subseteq {"queued", "running", "interrupted"}
NewRegistry(ds) == \A k \in DOMAIN ds : validDescriptor(ds[k])

JobRecord(rows, id) ==
    [id |-> id, kind |-> rows[id].kind, status |-> rows[id].status, generation |-> rows[id].generation]
ListRecoverableJobs(rows) ==
    LET open == SelectSeq([i \in DOMAIN rows |-> JobRecord(rows, i)], LAMBDA r : Recoverable(r.status))
    IN SubSeq(open, 1, IF Len(open) < RecoveryLimit THEN Len(open) ELSE RecoveryLimit)

sameIdentity(left, right) == left.id = right.id /\ left.kind = right.kind
sameJob(left, right) == left = right
\* Facts are [job, input, fingerprint, checkpoints]: the Job as the inspector reads it,
\* whether the input is the Job's, the fingerprint of the implementation and the
\* effects with a checkpoint.
ValidCheckpoint(c, d, facts) ==
    /\ c.sealed /\ c.generation >= 1 /\ c.input = facts.input
    /\ d.fingerprint => c.fingerprint = facts.fingerprint
validFacts(record, d, facts) ==
    /\ sameJob(facts.job, record)
    /\ facts.input = "input"
    /\ d.fingerprint => facts.fingerprint # "none"
    /\ \A i \in DOMAIN facts.checkpoints : ValidCheckpoint(facts.checkpoints[i], d, facts)
    /\ \A i, j \in DOMAIN facts.checkpoints :
         facts.checkpoints[i].id = facts.checkpoints[j].id => i = j
    /\ d.checkpoints \subseteq {c.id : c \in ToSet(facts.checkpoints)}

\* A decision is [disposition, next, result] with next "" for no transition.
validDecision(record, d, decision) ==
    /\ decision.disposition = "resumed" => d.resume
    /\ IF decision.next = "" THEN ~decision.result
       ELSE CanTransitionTo(record.status, decision.next) /\ (decision.next = "succeeded" => decision.result)

Facts(job) ==
    LET checkpoint == [id : Checkpoints, sealed : BOOLEAN, generation : {1}, input : {"input"},
                       fingerprint : {"this", "other"}]
    IN [job : {job}, input : {"input", "other"}, fingerprint : {"this", "none"},
        checkpoints : {<<>>} \cup [1..1 -> checkpoint] \cup {<<c, c>> : c \in checkpoint}]
Decisions == [disposition : {"resumed", "reconciled", "recovery_required"},
              next : {"", "succeeded", "failed", "interrupted", "canceled"}, result : BOOLEAN]

Record == scan.listed[scan.at]
Current(id) == JobRecord(jobRows, id)
Advance(result) ==
    scan' = [scan EXCEPT !.results = Append(@, result), !.facts = <<>>,
                         !.at = IF @ = Len(scan.listed) THEN 0 ELSE @ + 1,
                         !.pc = IF scan.at = Len(scan.listed) THEN "done" ELSE "inspect"]
Stop == scan' = [scan EXCEPT !.pc = "failed", !.facts = <<>>]

Recover ==
    /\ scan.pc = "idle"
    /\ LET records == ListRecoverableJobs(jobRows)
       IN scan' = [scan EXCEPT !.listed = records, !.at = IF records = <<>> THEN 0 ELSE 1,
                               !.pc = IF records = <<>> THEN "done" ELSE "inspect"]
    /\ UNCHANGED <<jobRows, changes, stages, shutdown>>

\* The checks of recoverOne up to the planner; whatever is not right leaves the Job alone.
Inspect ==
    /\ scan.pc = "inspect"
    /\ \/ Record.kind \notin DOMAIN Descriptors /\ Advance("RECOVERY_POLICY_UNREGISTERED")
       \/ /\ Record.kind \in DOMAIN Descriptors
          /\ IF Record.status \notin Descriptors[Record.kind].legal
             THEN Advance("RECOVERY_SOURCE_STATE_ILLEGAL")
             ELSE \/ Advance("RECOVERY_FACTS_UNAVAILABLE")
                  \/ /\ Record.id \in DOMAIN jobRows
                     /\ \E facts \in Facts(Current(Record.id)) :
                          IF validFacts(Record, Descriptors[Record.kind], facts)
                          THEN scan' = [scan EXCEPT !.pc = "plan", !.facts = <<facts>>]
                          ELSE Advance("RECOVERY_FACTS_MISMATCH")
    /\ UNCHANGED <<jobRows, changes, stages, shutdown>>

\* Transition compares the status of the record and the generation of the facts.
Matches(row, expected, generation) == row.status = expected /\ row.generation = generation
Plan ==
    /\ scan.pc = "plan"
    /\ \/ Stop /\ UNCHANGED <<jobRows, changes>>
       \/ \E decision \in Decisions :
            IF ~validDecision(Record, Descriptors[Record.kind], decision)
            THEN Stop /\ UNCHANGED <<jobRows, changes>>
            ELSE LET moves == /\ decision.next # ""
                              /\ Matches(jobRows[Record.id], Record.status, scan.facts[1].job.generation)
                 IN /\ jobRows' = IF moves THEN [jobRows EXCEPT ![Record.id].status = decision.next] ELSE jobRows
                    /\ changes' = IF moves THEN changes \cup {[listed |-> Record, was |-> Current(Record.id),
                                                               facts |-> scan.facts[1]]}
                                  ELSE changes
                    /\ Advance(decision.disposition)
    /\ UNCHANGED <<stages, shutdown>>

\* A cancel request or another worker moves a Job meanwhile.
JobMoves(id) ==
    /\ scan.pc \in {"inspect", "plan"} /\ scan.moves < MaxMoves /\ ~Terminal(jobRows[id].status)
    /\ \/ jobRows' = [jobRows EXCEPT ![id].generation = @ + 1]
       \/ \E next \in Status : CanTransitionTo(jobRows[id].status, next)
                               /\ jobRows' = [jobRows EXCEPT ![id].status = next]
    /\ scan' = [scan EXCEPT !.moves = @ + 1]
    /\ UNCHANGED <<changes, stages, shutdown>>

-------------------------------------------------------------------------------
(* Coordinator: one stage after the other, its scan before its worker.      *)

stageOrder == <<"restore", "release", "graph", "deterministic", "remaining">>
Rank(stage) == CHOOSE i \in DOMAIN stageOrder : stageOrder[i] = stage
InOrder(list) == \A i, j \in DOMAIN list : i < j => Rank(list[i].stage) < Rank(list[j].stage)
NewCoordinator(list) == {order \in SetToSeqs(ToSet(list)) : InOrder(order)}
ValidStages(list) ==
    /\ \A i, j \in DOMAIN list : list[i].stage = list[j].stage => i = j
    /\ \A i \in DOMAIN list : list[i].stage \in ToSet(stageOrder) /\ (list[i].scans \/ list[i].works)

\* The adapters count what their module recovered.
Counted(outcomes, required) ==
    [scanned |-> Len(outcomes), required |-> Len(SelectSeq(outcomes, LAMBDA o : o \in required)),
     recovered |-> Len(SelectSeq(outcomes, LAMBDA o : o \notin required)), ok |-> TRUE]
\* ReleaseAdapter: an intent that needs support blocks the project.
ReleaseAdapter(outcomes) ==
    LET s == Counted(outcomes, {"support"}) IN [s EXCEPT !.ok = s.required = 0]
AIAdapter(outcomes) == Counted(outcomes, {"support", "invalid"})
ImpactAdapter(outcomes) == Counted(outcomes, {"support"})
SimulationAdapter(outcomes) == Counted(outcomes, {"support"})
RiskAdapter(outcomes) == Counted(outcomes, {"support", "invalid"})
Total(summaries) ==
    FoldLeft(LAMBDA a, s : [scanned |-> a.scanned + s.scanned, required |-> a.required + s.required,
                            recovered |-> a.recovered + s.recovered, ok |-> TRUE],
             [scanned |-> 0, required |-> 0, recovered |-> 0, ok |-> TRUE], summaries)
DeterministicStageAdapter(outcomes) ==
    Total(<<ImpactAdapter(outcomes), SimulationAdapter(outcomes), RiskAdapter(outcomes)>>)
Scanned(stage, outcomes) ==
    CASE stage = "release" -> ReleaseAdapter(outcomes)
      [] stage = "deterministic" -> DeterministicStageAdapter(outcomes)
      [] stage = "remaining" -> AIAdapter(outcomes)
      [] OTHER -> Counted(<<>>, {})

Stage == stages.list[stages.at]
ScanStage ==
    /\ stages.pc = "scan"
    /\ \/ stages' = [stages EXCEPT !.pc = "failed"]
       \/ \E outcomes \in Outcomes :
            LET s == Scanned(Stage.stage, outcomes)
            IN stages' = IF Stage.scans /\ (~s.ok \/ s.recovered + s.required > s.scanned)
                         THEN [stages EXCEPT !.pc = "failed", !.blocked = @ \cup {Stage.stage}]
                         ELSE [stages EXCEPT !.pc = "start", !.committed = @ \cup {Stage.stage},
                                             !.required = @ + IF Stage.scans THEN s.required ELSE 0]
    /\ UNCHANGED <<jobRows, scan, changes, shutdown>>
StartStage ==
    /\ stages.pc = "start"
    /\ \/ Stage.works /\ stages' = [stages EXCEPT !.pc = "failed"]
       \/ stages' = [stages EXCEPT !.started = IF Stage.works THEN @ \cup {Stage.stage} ELSE @,
                                   !.at = @ + 1,
                                   !.pc = IF @ = "start" /\ stages.at = Len(stages.list) THEN "done" ELSE "scan"]
    /\ UNCHANGED <<jobRows, scan, changes, shutdown>>

-------------------------------------------------------------------------------
(* Shutdown: each phase for every policy before the next phase.             *)

ShutdownPhases == <<"StopClaims", "PersistIntent", "WaitSafeBoundary", "ProveRecoverable">>
Prepare ==
    /\ shutdown.pc = "prepare"
    /\ \/ shutdown' = [shutdown EXCEPT !.pc = "failed"]
       \/ LET last == shutdown.at = Len(shutdown.policies)
          IN shutdown' = [shutdown EXCEPT
                            !.done = @ \cup {<<ShutdownPhases[shutdown.phase], shutdown.policies[shutdown.at]>>},
                            !.at = IF last THEN 1 ELSE @ + 1,
                            !.phase = IF last THEN @ + 1 ELSE @,
                            !.pc = IF last /\ shutdown.phase = Len(ShutdownPhases) THEN "done" ELSE "prepare"]
    /\ UNCHANGED <<jobRows, scan, changes, stages>>

-------------------------------------------------------------------------------

NoStages == [pc |-> "done", list |-> <<>>, at |-> 1, committed |-> {}, started |-> {}, blocked |-> {}, required |-> 0]
NoShutdown == [pc |-> "done", policies |-> <<>>, phase |-> 1, at |-> 1, done |-> {}]

ScanInit ==
    /\ jobRows \in JobRows /\ scan = Idle /\ changes = {}
    /\ stages = NoStages /\ shutdown = NoShutdown /\ NewRegistry(Descriptors)
StagesInit ==
    /\ jobRows = <<>> /\ scan = [Idle EXCEPT !.pc = "done"] /\ changes = {}
    /\ \E list \in StageLists :
         /\ ValidStages(list)
         /\ \E order \in NewCoordinator(list) :
               stages = [NoStages EXCEPT !.pc = IF order = <<>> THEN "done" ELSE "scan", !.list = order]
    /\ shutdown = NoShutdown
ShutdownInit ==
    /\ jobRows = <<>> /\ scan = [Idle EXCEPT !.pc = "done"] /\ changes = {} /\ stages = NoStages
    /\ \E order \in SetToSeqs(Policies) :
         shutdown = [NoShutdown EXCEPT !.pc = IF order = <<>> THEN "done" ELSE "prepare", !.policies = order]
RecoveryInit == ScanInit \/ StagesInit \/ ShutdownInit

RecoveryNext ==
    \/ Recover \/ Inspect \/ Plan
    \/ \E id \in DOMAIN jobRows : JobMoves(id)
    \/ ScanStage \/ StartStage
    \/ Prepare

-------------------------------------------------------------------------------
(* Properties.                                                             *)

\* recoverOne changes a Job only as it was listed: a cancel request or a transition
\* between the listing, the inspection and the transition leaves it to its owner;
\* and it changes only a Job whose required effects are sealed for its input.
RecoveredAsListed ==
    \A c \in changes :
        /\ c.listed = c.was
        /\ Descriptors[c.was.kind].checkpoints \subseteq
             {p.id : p \in {p \in ToSet(c.facts.checkpoints) : p.sealed}}

\* A worker starts only after the scans of its stage and of every earlier stage, and
\* not at all after a release intent that needs support.
StagesInOrder ==
    \A s \in stages.started :
        /\ \A i \in DOMAIN stages.list :
             Rank(stages.list[i].stage) <= Rank(s) => stages.list[i].stage \in stages.committed
        /\ \A b \in stages.blocked : Rank(s) < Rank(b)

\* No kind persists its interruption while another still accepts claims, and a
\* shutdown that is prepared has proved every kind recoverable.
ShutdownInPhases ==
    /\ \A d \in shutdown.done, p \in ToSet(shutdown.policies) :
         d[1] # "StopClaims" => <<"StopClaims", p>> \in shutdown.done
    /\ shutdown.pc = "done" =>
         \A p \in ToSet(shutdown.policies) : <<"ProveRecoverable", p>> \in shutdown.done

\* The recovery registry, the recovery coordinator and the shutdown coordinator keep
\* to what they were told of the Jobs and to their order.
RecoveryIsOrdered == RecoveredAsListed /\ StagesInOrder /\ ShutdownInPhases
=============================================================================
