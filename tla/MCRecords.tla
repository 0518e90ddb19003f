------------------------------ MODULE MCRecords ------------------------------
(***************************************************************************)
(* What the Jobs of a project record, under concurrent clients, workers    *)
(* and restarts: the AI design Jobs, the candidate search of a preview and *)
(* the three kinds of evidence Jobs.  They share the database file but no  *)
(* row of it, so a behaviour follows one of them.                          *)
(***************************************************************************)
EXTENDS ImpactJobs, SimulationJobs, RiskJobs, TLC

CONSTANTS DesignJobs, Asked,     \* AI design Jobs, those clients ask for
          DesignWorkers, None

VARIABLES run, attempt, patches, evidence, designPhase, events, worker, signaled,
          canceling, base, pending, trouble,
          search,
          scene                  \* what the behaviour follows

aiVars == <<run, attempt, patches, evidence, designPhase, events, worker, signaled,
            canceling, base, pending, trouble>>
allVars == <<aiVars, search, impactVars, simVars, riskVars, scene>>

(* One design Job and room for one explicit retry of it, two workers, one  *)
(* repair round, and one restart or one move of the baseline.              *)
A == INSTANCE AIDesign WITH
       Jobs <- DesignJobs, Requested <- Asked, Attempts <- 1 .. 3,
       Workers <- DesignWorkers, MaxRounds <- 1, RunCapacity <- 6, Bases <- 0 .. 2,
       MaxTrouble <- 1, checkpoint <- designPhase
ASSUME DesignAssumption == A!AIDesignAssumption

(* Requests of the candidate search: good and malformed dimensions alone   *)
(* and in pairs, against budgets below, at and above the size of the grid.  *)
AllowedTarget(entity, paths) == [entity |-> entity, valid |-> TRUE, paths |-> paths]
Allows(path, operations) == [path |-> path, operations |-> operations]
AllowedTargets == <<AllowedTarget(2, {Allows(1, {"replace"}), Allows(2, {"add", "replace"})}),
                    AllowedTarget(1, {Allows(1, {"replace"}), Allows(3, {"add"})})>>
Listed(entity, path, values) ==
    [entity |-> entity, path |-> path, kind |-> "decimal", canonical |-> TRUE, values |-> values, range |-> <<>>]
Ranged(min, max, step) ==
    [Listed(2, 2, <<>>) EXCEPT !.range = <<[min |-> min, max |-> max, step |-> step, canonical |-> TRUE]>>]
Ranges == {Ranged(0, 3, 2), Ranged(0, 9, 2), Ranged(1, 1, 1), Ranged(0, 9, 1), Ranged(2, 1, 1), Ranged(0, 2, 0), Ranged(0, 4, 1),
           [Ranged(0, 9, 3) EXCEPT !.kind = "duration"], Ranged(0, 9, 3)}
Lists == {Listed(1, 1, <<2, 1>>), Listed(1, 1, <<3, 1, 3>>), Listed(1, 1, <<5, 4, 3, 2, 1>>)}
Others == {Listed(1, 3, <<1>>), Listed(1, 1, <<>>), Listed(1, 1, <<6, 5, 4, 3, 2, 1>>), Listed(3, 1, <<1>>),
           [Ranged(0, 1, 1) EXCEPT !.values = <<1>>], [Listed(1, 1, <<1>>) EXCEPT !.canonical = FALSE]}
SearchOf(dimensions, budget) == [targets |-> AllowedTargets, dimensions |-> dimensions, budget |-> budget]
Assessed(status, simulation, objectives) ==
    [status |-> status, validation |-> TRUE, simulation |-> simulation,
     objectives |-> [i \in DOMAIN objectives |-> [id |-> objectives[i], formed |-> TRUE]], constraints |-> <<>>]
Q == INSTANCE CandidateSearch WITH
       SearchRequests <-
         {SearchOf(<<d>>, b) : d \in Ranges \cup Lists \cup Others, b \in {1, 4}}
         \cup {SearchOf(<<d, e>>, b) : d \in Ranges, e \in Lists, b \in {1, 4}}
         \cup {SearchOf(<<Listed(2, 1, <<2, 1>>), e>>, 4) : e \in Lists \cup {Ranged(0, 3, 2), Listed(2, 1, <<1>>)}}
         \cup {SearchOf(<<Listed(2, 1, <<2>>), Listed(1, 1, <<1>>), Ranged(0, 1, 1)>>, 4), SearchOf(<<>>, 4)}
         \cup {SearchOf(<<Listed(2, 1, <<2, 1>>)>>, b) : b \in {0, 2, 5}}
         \cup {[SearchOf(<<Listed(2, 1, <<2, 1>>)>>, 4) EXCEPT !.targets = t] :
                  t \in {<<>>, <<AllowedTargets[1], AllowedTargets[1]>>, <<[AllowedTargets[1] EXCEPT !.valid = FALSE]>>}},
       Answers <- {Assessed("passed", TRUE, <<2, 1>>), Assessed("passed", TRUE, <<1, 1>>),
                   Assessed("validation_blocked", FALSE, <<>>), Assessed("validation_blocked", TRUE, <<>>)},
       MaxSearchCandidates <- 4, MaxDimensions <- 2, LargestValue <- 10

(* What a behaviour does not follow is empty.                              *)
DesignRests ==
    /\ run = <<>> /\ attempt = <<>> /\ patches = {} /\ evidence = {} /\ designPhase = <<>>
    /\ events = {} /\ worker = <<>> /\ signaled = <<>> /\ canceling = {} /\ base = 0
    /\ pending = {} /\ trouble = 0

SearchRests == search = [pc |-> "none"]

RecordsInit ==
    /\ ImpactInit /\ SimInit /\ RiskInit
    /\ \/ scene = "design" /\ A!Init /\ SearchRests
       \/ scene = "search" /\ DesignRests /\ Q!SearchInit
       \/ scene \in {"impact", "simulation", "risk"} /\ DesignRests /\ SearchRests
    /\ scene # "simulation" => installed = CHOOSE v \in Implementations : TRUE
    /\ scene # "risk" => facts = CHOOSE f \in RiskFacts : TRUE

RecordsNext ==
    /\ \/ /\ scene = "design" /\ A!Next
          /\ UNCHANGED <<search, impactVars, simVars, riskVars>>
       \/ /\ scene = "search" /\ Q!SearchNext
          /\ UNCHANGED <<aiVars, impactVars, simVars, riskVars>>
       \/ /\ scene = "impact" /\ ImpactNext
          /\ UNCHANGED <<aiVars, search, simVars, riskVars>>
       \/ /\ scene = "simulation" /\ SimNext
          /\ UNCHANGED <<aiVars, search, impactVars, riskVars>>
       \/ /\ scene = "risk" /\ RiskNext
          /\ UNCHANGED <<aiVars, search, impactVars, simVars>>
    /\ UNCHANGED scene

RecordsSpec == RecordsInit /\ [][RecordsNext]_allVars

RecordsSymmetry == Permutations(DesignWorkers)

-------------------------------------------------------------------------------
(* A design Job that succeeded is uncanceled and whole (TransitionAIJob),   *)
(* and a sealed search holds the candidates of its grid in order, each     *)
(* once, up to where its stop says it ended (Search).                      *)
SealedIsWhole ==
    /\ scene = "design" => A!SealedIsWhole
    /\ scene = "search" => Q!SearchIsExact

(* The attempts of a design Job are one chain within its budget, each      *)
(* asked of the provider at most once (BeginCalls, RecordAttempt).         *)
LineageIsChain == scene = "design" => A!LineageIsChain

(* A returned cancellation has reached every call of the Job               *)
(* (InvocationCancellationRegistry).                                       *)
CancelReachesCalls == scene = "design" => A!CancelReachesCalls

(* Evidence is immutable: a report or run once sealed is never replaced by *)
(* what a later run, a recovery or a repeated request finds                *)
(* (SealImpactSuccess, SealSimulationRun, SealRiskReport).                 *)
EvidenceIsImmutable ==
    [][ /\ \A i \in ImpactInputs : ireport[i] # "none" => ireport'[i] = ireport[i]
        /\ \A j \in SimJobs : srun[j].samples # NoSim => srun'[j] = srun[j]
        /\ \A j \in RiskJobIds : rreport[j] # NoRisk => rreport'[j] = rreport[j] ]_allVars
=============================================================================
