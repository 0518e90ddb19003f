--------------------------------- MODULE Gates ---------------------------------
(***************************************************************************)
(* The decisions a release and an AI proposal rest on: the comparison of a *)
(* metric with its baseline (risk/comparison), the risk gate (risk/gate),  *)
(* the simulation gate (simulation/gate), the results the release reads    *)
(* (bootstrap/release_gate_results), their assessment against the policy   *)
(* (versioning/gate) and the acceptability of a proposal                   *)
(* (ai/preview/acceptability).  Hashes and identities are values compared  *)
(* for equality; a metric's value is an integer.                           *)
(***************************************************************************)
EXTENDS Integers, Sequences, FiniteSets, SequencesExt

-------------------------------------------------------------------------------
(* comparison.Assess.  Boundaries of the relative change are in halves.    *)

Absolute(n) == IF n < 0 THEN -n ELSE n

RangeDistance(v, target) ==
    IF v < target[1] THEN target[1] - v ELSE IF v > target[2] THEN v - target[2] ELSE 0

DirectionalRiskDelta(m, candidate, baseline) ==
    CASE m.direction = "higher" -> candidate - baseline
      [] m.direction = "lower" -> baseline - candidate
      [] m.direction = "range" -> RangeDistance(candidate, m.target) - RangeDistance(baseline, m.target)

\* evaluateSeverity: a boundary is reached, not passed; without a baseline only the
\* absolute boundary counts.
Reached(delta, baseline, threshold, level) ==
    \/ baseline # 0 /\ 2 * delta >= threshold.relative[level] * Absolute(baseline)
    \/ threshold.absolute # <<>> /\ delta >= threshold.absolute[level]

EvaluateSeverity(delta, baseline, threshold) ==
    IF Reached(delta, baseline, threshold, 2) THEN "BLOCK"
    ELSE IF Reached(delta, baseline, threshold, 1) THEN "WARNING" ELSE "INFO"

\* policyEffect and unavailableAssessment.
NoAssessment(role, status) ==
    [status |-> status, severity |-> "none", override |-> "non_overridable",
     effect |-> IF status = "stale" \/ role = "required" THEN "BLOCK" ELSE "WARNING"]

Comparable(candidate, baseline, threshold) ==
    /\ candidate.metric = baseline.metric /\ candidate.metric = threshold.metric
    /\ candidate.unit = baseline.unit /\ candidate.unit = threshold.unit
    /\ candidate.direction = baseline.direction /\ candidate.direction = threshold.direction
    /\ candidate.target = baseline.target

Assess(role, candidate, baseline, threshold, stale) ==
    IF stale THEN NoAssessment(role, "stale")
    ELSE IF ~Comparable(candidate, baseline, threshold) THEN NoAssessment(role, "not_comparable")
    ELSE IF ~candidate.available \/ ~baseline.available THEN NoAssessment(role, "unavailable")
    ELSE IF baseline.value = 0 /\ threshold.absolute = <<>> THEN NoAssessment(role, "not_comparable")
    ELSE LET delta == DirectionalRiskDelta(candidate, candidate.value, baseline.value)
             severity == EvaluateSeverity(delta, baseline.value, threshold)
         IN [status |-> "comparable", severity |-> severity, effect |-> severity,
             override |-> "eligible"]

\* Result.Item: the item a calculation report keeps of a comparison.
Item(id, role, assessment) ==
    [id |-> id, kind |-> "metric", role |-> role, status |-> assessment.status,
     severity |-> assessment.severity, override |-> assessment.override]

-------------------------------------------------------------------------------
(* The risk gate.  A cause is what promote is called with.                  *)

Cause(state, reason, item, final) == [state |-> state, reason |-> reason, item |-> item, final |-> final]
CauseIf(condition, state, reason) == IF condition THEN {Cause(state, reason, 0, TRUE)} ELSE {}

GateRank(state) ==
    CASE state = "STALE" -> 5 [] state = "UNAVAILABLE" -> 4 [] state = "BLOCK" -> 3
      [] state = "WARNING" -> 2 [] state = "PASS" -> 1

\* ProjectReport: what changed since the report was sealed.
ProjectReport(report, current) ==
    CauseIf(report.baseline # current.baseline, "STALE", "BASELINE_CHANGED")
    \cup CauseIf(report.policy # current.policy, "STALE", "POLICY_CHANGED")
    \cup CauseIf(report.threshold # current.threshold, "STALE", "THRESHOLD_CHANGED")
    \cup CauseIf(current.implementation = 0, "UNAVAILABLE", "IMPLEMENTATION_MISSING")
    \cup CauseIf(current.implementation # 0 /\ current.implementation # report.implementation,
                 "STALE", "IMPLEMENTATION_CHANGED")
    \cup CauseIf(report.run # current.run, "STALE", "SIMULATION_CHANGED")

\* The baseline of the report, 0 when it has none, against the active release.
BaselineCauses(report, current) ==
    IF report.baseline = 0
    THEN CauseIf(current.baseline # 0, "STALE", "BASELINE_CHANGED")
         \cup CauseIf(current.baseline = 0 /\ ~current.confirmed, "BLOCK", "ESTABLISH_BASELINE_CONFIRMATION_REQUIRED")
         \cup CauseIf(~current.factsComplete, "UNAVAILABLE", "FIRST_RELEASE_REQUIRED_FACTS_MISSING")
    ELSE CauseIf(report.baseline # current.baseline, "STALE", "BASELINE_CHANGED")

\* Requirements of the policy: an item with the required role for each.
RequirementCauses(report, requirements) ==
    IF report.baseline = 0 THEN {}
    ELSE CauseIf(requirements = {}, "UNAVAILABLE", "POLICY_REQUIREMENTS_UNAVAILABLE")
         \cup {IF r.role = "optional" THEN Cause("WARNING", "OPTIONAL_ITEM_MISSING", r.id, FALSE)
               ELSE Cause("UNAVAILABLE", "REQUIRED_ITEM_MISSING", r.id, TRUE) :
                 r \in {r \in requirements :
                          \A i \in report.items : i.kind = "metric" => <<i.id, i.role>> # <<r.id, r.role>>}}

Eligible(item) == item.kind = "metric" /\ item.override = "eligible"

ItemState == [stale |-> "STALE", unavailable |-> "UNAVAILABLE", not_comparable |-> "BLOCK"]

ItemCauses(item) ==
    IF item.status # "comparable"
    THEN {IF item.role = "required" THEN Cause(ItemState[item.status], "REQUIRED_ITEM", item.id, TRUE)
          ELSE Cause("WARNING", "OPTIONAL_ITEM", item.id, FALSE)}
    ELSE CASE item.severity = "none" -> {Cause("UNAVAILABLE", "ITEM_SEVERITY_MISSING", item.id, TRUE)}
           [] item.severity = "BLOCK" ->
                {IF Eligible(item) THEN Cause("BLOCK", "NUMERIC_BLOCK", item.id, FALSE)
                 ELSE Cause("BLOCK", "NON_OVERRIDABLE_BLOCK", item.id, TRUE)}
           [] item.severity = "WARNING" -> {Cause("WARNING", "RISK_WARNING", item.id, FALSE)}
           [] item.severity = "INFO" -> {}

EligibleBlocks(report) ==
    {i.id : i \in {i \in report.items : i.status = "comparable" /\ i.severity = "BLOCK" /\ Eligible(i)}}

\* NewDecisionReport, and the identities and items validDecision asks for.
Decidable(report, items) ==
    /\ items # {}
    /\ items \subseteq {i.id : i \in {i \in report.items : /\ i.status = "comparable" /\ i.severity = "BLOCK"
                                                           /\ i.override = "eligible"}}
Decision(report, items) ==
    [source |-> report.id, hash |-> report.hash, candidate |-> report.candidate, items |-> items]
ValidDecision(report, decision) ==
    /\ decision.source = report.id /\ decision.hash = report.hash
    /\ decision.candidate = report.candidate
    /\ decision.items \subseteq EligibleBlocks(report)

\* The worst state of the causes.
Worst(causes) ==
    LET states == {"PASS"} \cup {c.state : c \in causes}
    IN CHOOSE s \in states : \A t \in states : GateRank(t) <= GateRank(s)

Causes(report, current) ==
    CauseIf(report.candidate # current.candidate, "STALE", "CANDIDATE_CHANGED")
    \cup CauseIf(~current.thresholdEnabled, "BLOCK", "THRESHOLD_NOT_CONFIGURED")
    \cup ProjectReport(report, current) \cup BaselineCauses(report, current)
    \cup RequirementCauses(report, current.requirements)
    \cup UNION {ItemCauses(i) : i \in report.items}
    \cup CauseIf(current.decision # <<>> /\ ~ValidDecision(report, current.decision[1]),
                 "BLOCK", "DECISION_INVALID")

\* risk/gate.Evaluate: a gate may be overridden when it blocks on numbers alone.
Evaluate(report, current) ==
    LET causes == Causes(report, current) IN
    [state |-> Worst(causes), reasons |-> {c.reason : c \in causes},
     overridable |-> /\ Worst(causes) = "BLOCK" /\ EligibleBlocks(report) # {}
                     /\ \A c \in causes : ~c.final]

-------------------------------------------------------------------------------
(* The simulation gate.  A run names its revision, input and result.        *)

\* findExactEvidence: a run of the candidate that cannot be reproduced ends the
\* search, a run of other settings is passed over.
OfCandidate(run, candidate) ==
    run.revision = candidate.revision /\ run.config = candidate.config

Exact(run, policy, scene, metric) ==
    run.identity /\ run.scene = scene /\ run.samples = policy.samples /\ metric \in DOMAIN run.metrics

FindExactEvidence(candidate, policy, scene, metric, runs) ==
    LET own == {i \in DOMAIN runs : OfCandidate(runs[i], candidate)}
        ends == {i \in own : runs[i].reproducible => Exact(runs[i], policy, scene, metric)}
        first == runs[CHOOSE i \in ends : \A j \in ends : i <= j]
    IN IF ends = {} THEN IF own = {} THEN "UNAVAILABLE" ELSE "STALE"
       ELSE IF first.reproducible /\ first.metrics[metric] = "available" THEN "PASS" ELSE "UNAVAILABLE"

-------------------------------------------------------------------------------
(* The results a release reads, and their assessment.                      *)

NewGateResult(candidate, policy, capability, state) ==
    [capability |-> capability, state |-> state, candidate |-> candidate, policy |-> policy.hash,
     scene |-> 0, metric |-> 0]

\* riskResult: the newest calculation report of this candidate, policy and baseline,
\* gated against its own identities and with the newest decision, if that is about it.
RiskResult(candidate, policy, reports) ==
    LET ref == [revision |-> candidate.revision, config |-> candidate.config]
        mine == {i \in DOMAIN reports :
                   /\ reports[i].kind = "calculation" /\ reports[i].candidate = ref
                   /\ reports[i].policy = policy.hash /\ reports[i].baseline = candidate.baseline}
        at == CHOOSE i \in mine : \A j \in mine : i <= j
        decisions == {i \in 1..(at - 1) : reports[i].kind = "decision"}
        latest == reports[CHOOSE i \in decisions : \A j \in decisions : i <= j]
        report == reports[at]
        current == [candidate |-> report.candidate, baseline |-> candidate.baseline,
                    policy |-> report.policy, threshold |-> report.threshold, thresholdEnabled |-> TRUE,
                    implementation |-> report.implementation, run |-> report.run,
                    requirements |-> policy.requirements, confirmed |-> TRUE, factsComplete |-> TRUE,
                    decision |-> IF decisions # {} /\ latest.source = report.id THEN <<latest>> ELSE <<>>]
    IN IF mine = {} THEN "UNAVAILABLE" ELSE Evaluate(report, current).state

\* graphResult and the graph gate: what is recorded of the projection must be of this
\* candidate, and the provider's snapshot is inspected anew.
LocalIdentity(candidate, g) ==
    /\ g.summary[1].revision = candidate.revision /\ g.summary[1].config = candidate.config
    /\ g.pipeline = "ready" /\ g.job[1].status = "succeeded"
    /\ g.job[1].revision = candidate.revision /\ g.job[1].config = candidate.config

GraphResult(candidate, g) ==
    IF g.summary = <<>> \/ g.job = <<>> THEN "UNAVAILABLE"
    ELSE IF ~LocalIdentity(candidate, g) THEN "STALE"
    ELSE IF g.snapshot = <<>> THEN "UNAVAILABLE"
    ELSE IF g.snapshot[1].hash # g.summary[1].hash THEN "STALE"
    ELSE IF g.snapshot[1].ready THEN "PASS" ELSE "BLOCK"

\* releaseGateResults.Results: for the registered capabilities that the policy asks
\* for, one result, or one per scene and metric; each row of policy.metrics is
\* <<scene, metric, required>>.
GateResults(candidate, policy, facts) ==
    LET result(capability, state) == NewGateResult(candidate, policy, capability, state)
        asked(capability, results) ==
            IF capability \in policy.capabilities \cap facts.registered THEN results ELSE <<>>
    IN asked("graph", <<result("graph", GraphResult(candidate, facts.graph))>>)
       \o asked("simulation",
            [i \in DOMAIN policy.metrics |->
               LET m == policy.metrics[i] IN
               [result("simulation", FindExactEvidence(candidate, policy, m[1], m[2], facts.runs))
                  EXCEPT !.scene = m[1], !.metric = m[2]]])
       \o asked("risk", <<result("risk", RiskResult(candidate, policy, facts.reports))>>)
       \o asked("backup", <<result("backup", IF facts.backup THEN "PASS" ELSE "UNAVAILABLE")>>)

\* EvaluateCandidate: a result of another candidate or policy is stale, and what a
\* missing comparison of the candidate would make of it.
AnyCandidate(candidate, policy, result) ==
    IF result.policy # policy.hash THEN "STALE" ELSE result.state
EvaluateCandidate(candidate, policy, result) ==
    IF result.candidate # candidate \/ result.policy # policy.hash THEN "STALE" ELSE result.state

\* The state of one requirement in AssessPolicy, from the first result that matches.
StateFor(candidate, policy, required, results, matches) ==
    IF matches = {} THEN IF required THEN "BLOCK" ELSE "WARNING"
    ELSE LET state == EvaluateCandidate(candidate, policy,
                        results[CHOOSE i \in matches : \A j \in matches : i <= j])
         IN IF state \in {"UNAVAILABLE", "STALE"} THEN IF required THEN "BLOCK" ELSE "WARNING"
            ELSE state

AssessPolicy(candidate, policy, results) ==
    LET capability(c) == {i \in DOMAIN results : results[i].capability = c}
        pair(m) == {i \in DOMAIN results : results[i].scene = m[1] /\ results[i].metric = m[2]}
        states == {StateFor(candidate, policy, TRUE, results, capability(c)) : c \in policy.capabilities}
                  \cup {StateFor(candidate, policy, policy.metrics[i][3], results, pair(policy.metrics[i])) :
                          i \in DOMAIN policy.metrics}
    IN IF "BLOCK" \in states THEN "BLOCK" ELSE IF "WARNING" \in states THEN "WARNING" ELSE "PASS"

-------------------------------------------------------------------------------
(* acceptability.EvaluateV1.  A preview is <<>> when there is none; a valid  *)
(* one carries the proposal it was made for.                                *)

\* What a component says before its contents are looked at.
Missing(preview, proposal, component) ==
    IF preview = <<>> THEN {<<"UNAVAILABLE", component>>}
    ELSE IF preview[1].proposal # proposal THEN {<<"PREVIEW_INCONSISTENT", component>>} ELSE {}

Usable(preview, proposal) == preview # <<>> /\ preview[1].proposal = proposal

ValidationReasons(v) == IF v.blocked THEN {<<"VALIDATION_BLOCKED", "validation">>} ELSE {}

\* hasFeasibleCandidate: one record that was evaluated and met every constraint.
HasFeasible(s) == \E r \in s.records : r.passed /\ FALSE \notin r.constraints

SearchReasons(s) ==
    IF s.stop = "budget" THEN {<<"SEARCH_BUDGET_EXHAUSTED", "search">>}
    ELSE IF s.stop = "completed" THEN IF HasFeasible(s) THEN {} ELSE {<<"SEARCH_NO_FEASIBLE_CANDIDATE", "search">>}
    ELSE {<<"UNAVAILABLE", "search">>}

\* checkSimulation: scenes maps a scene to its metrics' states and result.
SimulationReasons(input, s) ==
    {<<"REQUIRED_SCENE_MISSING", "simulation">> : x \in input.scenes \ DOMAIN s.scenes}
    \cup UNION {{<<"METRIC_UNAVAILABLE", "simulation">> :
                   m \in {m \in DOMAIN s.scenes[x].metrics : s.scenes[x].metrics[m] # "available"}}
                \cup {<<"REQUIRED_METRIC_MISSING", "simulation">> :
                   m \in {m \in input.metrics : x \in input.scenes /\ m \notin DOMAIN s.scenes[x].metrics}} :
                x \in DOMAIN s.scenes}

\* checkRequiredRiskMetrics, derivedRiskAcceptable, checkRiskSimulationConsistency.
RiskReasons(input, r, simulation) ==
    {<<"REQUIRED_METRIC_MISSING", "risk">> : m \in input.metrics \ {c.metric : c \in r.metrics}}
    \cup {<<"METRIC_UNAVAILABLE", "risk">> : c \in {c \in r.metrics : c.metric \in input.metrics /\ ~c.available}}
    \cup (LET derived == /\ \A c \in r.metrics : c.available /\ c.effect # "BLOCK"
                         /\ \A f \in r.structural : f.status = "comparable" /\ f.severity # "BLOCK"
          IN (IF derived # r.acceptable THEN {<<"PREVIEW_INCONSISTENT", "risk">>} ELSE {})
             \cup (IF derived THEN {} ELSE {<<"RISK_BLOCKED", "risk">>}))
    \cup (IF simulation = <<>> THEN {}
          ELSE {<<"PREVIEW_INCONSISTENT", "risk_simulation">> :
                  c \in {c \in r.metrics : \/ c.scene \notin DOMAIN simulation[1].scenes
                                           \/ simulation[1].scenes[c.scene].result # c.result}})

Acceptability(q) ==
    Missing(q.validation, q.proposal, "validation")
    \cup (IF Usable(q.validation, q.proposal) THEN ValidationReasons(q.validation[1]) ELSE {})
    \cup (IF ~q.searchRequired THEN {}
          ELSE Missing(q.search, q.proposal, "search")
               \cup (IF Usable(q.search, q.proposal) THEN SearchReasons(q.search[1]) ELSE {}))
    \cup Missing(q.simulation, q.proposal, "simulation")
    \cup (IF Usable(q.simulation, q.proposal) THEN SimulationReasons(q.input, q.simulation[1]) ELSE {})
    \cup Missing(q.risk, q.proposal, "risk")
    \cup (IF Usable(q.risk, q.proposal) THEN RiskReasons(q.input, q.risk[1], q.simulation) ELSE {})

Acceptable(q) == Acceptability(q) = {}
=============================================================================
