----------------------------- MODULE Computations -----------------------------
(***************************************************************************)
(* The calculations of the system, each driven through the inputs it gets  *)
(* and compared with a reference.  work is one calculation in progress; a  *)
(* reader that pages, a gate whose facts were collected earlier and a      *)
(* revision that is validated and then edited take several steps, and what *)
(* they look at may change in between.                                     *)
(***************************************************************************)
EXTENDS Integers, Sequences, FiniteSets, SequencesExt

CONSTANTS
    DiffInputs,        \* [base, target, limit]
    RevisionInputs,    \* [revisions, limit, created]
    PatchInputs,       \* [op, original, value]
    Expressions,       \* syntax trees to be written and parsed again
    TypedExpressions,  \* syntax trees to be inferred and evaluated
    ContentPairs,      \* pairs of entity sets: a draft before and after an edit
    ReleaseInputs,     \* [candidate, policy, facts]
    ReportInputs,      \* [report, current]
    MetricInputs,      \* [role, candidate, baseline, threshold, stale]
    ProposalInputs,    \* proposals with their previews
    MaxNumber          \* bound: the largest decimal of a formula

VARIABLE work

D == INSTANCE VersionDiff
F == INSTANCE Formula
V == INSTANCE Validation
G == INSTANCE Gates
Graph == INSTANCE Graphs

SymbolTypes == [num |-> F!Scalar, dur |-> F!Duration]
SymbolValues == [num |-> F!Value(2), dur |-> F!Value(4)]

Init ==
    \/ \E i \in DiffInputs :
         work = [topic |-> "diff", in |-> i, after |-> 0, changes |-> {}, refused |-> FALSE, done |-> FALSE]
    \/ \E i \in RevisionInputs :
         work = [topic |-> "revisions", in |-> i, all |-> i.revisions, after |-> 0, seen |-> <<>>, done |-> FALSE]
    \/ \E i \in PatchInputs : work = [topic |-> "patch", in |-> i, done |-> FALSE]
    \/ \E e \in Expressions : work = [topic |-> "syntax", in |-> e, done |-> FALSE]
    \/ \E e \in TypedExpressions : work = [topic |-> "meaning", in |-> e, done |-> FALSE]
    \/ \E p \in ContentPairs :
         work = [topic |-> "validation", content |-> p[1], edit |-> p[2], revision |-> 1,
                 versions |-> 1, runs |-> <<>>, gate |-> "none"]
    \/ \E i \in ReleaseInputs :
         work = [topic |-> "release", in |-> i, results |-> <<>>, moved |-> FALSE, verdict |-> "none"]
    \/ \E i \in ReportInputs : work = [topic |-> "report", in |-> i, done |-> FALSE]
    \/ \E i \in MetricInputs : work = [topic |-> "metric", in |-> i, done |-> FALSE]
    \/ \E i \in ProposalInputs : work = [topic |-> "proposal", in |-> i, done |-> FALSE]

-------------------------------------------------------------------------------
(* Readers.                                                                *)

\* A reader asks for the next segment with the cursor it was given.
DiffSegment ==
    /\ work.topic = "diff" /\ ~work.done
    /\ LET s == D!CompareRevisionSegment(work.in.base, work.in.target, work.after, work.in.limit)
       IN work' = [work EXCEPT !.changes = @ \cup s.changes, !.after = s.cursor,
                               !.refused = s.refused, !.done = s.cursor = 0]

RevisionPage ==
    /\ work.topic = "revisions" /\ ~work.done
    /\ LET page == D!ListRevisionRecords(work.all, work.after, work.in.limit)
       IN work' = [work EXCEPT !.seen = @ \o page.items, !.after = page.cursor,
                               !.done = page.cursor = 0]

\* A revision is saved while the list is read.
RevisionSaved ==
    /\ work.topic = "revisions" /\ ~work.done
    /\ \E r \in work.in.created \ work.all :
         /\ \A x \in work.all : x < r
         /\ work' = [work EXCEPT !.all = @ \cup {r}]

PatchBuilt ==
    /\ work.topic = "patch" /\ ~work.done
    /\ work' = [topic |-> "patch", in |-> work.in, done |-> TRUE,
                out |-> D!CanonicalChange(work.in.op, work.in.original, work.in.value)]

-------------------------------------------------------------------------------
(* Formulas.                                                               *)

Parsed ==
    /\ work.topic = "syntax" /\ ~work.done
    /\ work' = [topic |-> "syntax", in |-> work.in, done |-> TRUE,
                out |-> F!Parse(F!Lex(F!Characters(F!Tokens(work.in, 1)), 1))]

Evaluated ==
    /\ work.topic = "meaning" /\ ~work.done
    /\ work' = [topic |-> "meaning", in |-> work.in, done |-> TRUE,
                type |-> F!Infer(work.in, SymbolTypes),
                issues |-> [t \in {F!Scalar, F!Boolean} |-> F!ValidateFormula(work.in, t, SymbolTypes)],
                out |-> F!Evaluate(work.in, SymbolTypes, SymbolValues)]

-------------------------------------------------------------------------------
(* Validation: a revision is validated, edited, validated again; the        *)
(* validators may be upgraded.  References are numbered in any order.       *)

Orders(entities) ==
    SetToSeqs({<<e.id, r.path>> : <<e, r>> \in
                 {p \in entities \X UNION {e.refs : e \in entities} : p[2] \in p[1].refs}})

Validate ==
    /\ work.topic = "validation" /\ work.gate = "none" /\ Len(work.runs) < 2
    /\ \E scope \in {"BASE", "LOCAL", "FULL"}, order \in Orders(work.content) :
         work' = [work EXCEPT !.runs =
                    Append(@, V!CompletedRun(work.revision, work.content, scope, work.versions,
                                             V!AnalyzeV1(work.content, scope, order)))]

Edit ==
    /\ work.topic = "validation" /\ work.gate = "none" /\ work.revision = 1
    /\ work' = [work EXCEPT !.content = work.edit, !.revision = 2]

Upgrade ==
    /\ work.topic = "validation" /\ work.gate = "none" /\ work.versions = 1
    /\ work' = [work EXCEPT !.versions = 2]

CheckGate ==
    /\ work.topic = "validation" /\ work.gate = "none"
    /\ work' = [work EXCEPT !.gate = V!GateCheck(work.runs, work.revision, work.content, work.versions)]

-------------------------------------------------------------------------------
(* The release: results are collected for a candidate and a policy and      *)
(* assessed later.                                                         *)

Collect ==
    /\ work.topic = "release" /\ work.results = <<>>
    /\ work' = [work EXCEPT !.results = G!GateResults(work.in.candidate, work.in.policy, work.in.facts)]

\* Another release becomes active: the candidate has a new baseline.
BaselineMoves ==
    /\ work.topic = "release" /\ work.results # <<>> /\ work.verdict = "none" /\ ~work.moved
    /\ work' = [work EXCEPT !.in.candidate.baseline = @ + 1, !.moved = TRUE]

PolicyRepublished ==
    /\ work.topic = "release" /\ work.results # <<>> /\ work.verdict = "none" /\ ~work.moved
    /\ work' = [work EXCEPT !.in.policy.hash = @ + 1, !.moved = TRUE]

Assess ==
    /\ work.topic = "release" /\ work.results # <<>> /\ work.verdict = "none"
    /\ work' = [work EXCEPT !.verdict = G!AssessPolicy(work.in.candidate, work.in.policy, work.results)]

ReportGated ==
    /\ work.topic = "report" /\ ~work.done
    /\ work' = [topic |-> "report", in |-> work.in, done |-> TRUE,
                out |-> G!Evaluate(work.in.report, work.in.current)]

\* The report with one compared metric, gated where nothing has changed since.
OneItemReport(item) ==
    [id |-> 1, kind |-> "calculation", hash |-> 1, candidate |-> 1, baseline |-> 1, policy |-> 1,
     threshold |-> 1, implementation |-> 1, run |-> 1, items |-> {item}]
UnchangedSince(role) ==
    [candidate |-> 1, baseline |-> 1, policy |-> 1, threshold |-> 1, thresholdEnabled |-> TRUE,
     implementation |-> 1, run |-> 1, requirements |-> {[id |-> 1, role |-> role]},
     confirmed |-> TRUE, factsComplete |-> TRUE, decision |-> <<>>]

MetricAssessed ==
    /\ work.topic = "metric" /\ ~work.done
    /\ work' = [topic |-> "metric", in |-> work.in, done |-> TRUE,
                out |-> G!Assess(work.in.role, work.in.candidate, work.in.baseline,
                                 work.in.threshold, work.in.stale),
                gate |-> G!Evaluate(OneItemReport(G!Item(1, work.in.role,
                           G!Assess(work.in.role, work.in.candidate, work.in.baseline,
                                    work.in.threshold, work.in.stale))), UnchangedSince(work.in.role))]

ProposalJudged ==
    /\ work.topic = "proposal" /\ ~work.done
    /\ work' = [topic |-> "proposal", in |-> work.in, done |-> TRUE,
                out |-> G!Acceptable(work.in)]

Next ==
    \/ DiffSegment \/ RevisionPage \/ RevisionSaved \/ PatchBuilt
    \/ Parsed \/ Evaluated
    \/ Validate \/ Edit \/ Upgrade \/ CheckGate
    \/ Collect \/ BaselineMoves \/ PolicyRepublished \/ Assess
    \/ ReportGated \/ MetricAssessed \/ ProposalJudged

Spec == Init /\ [][Next]_work

-------------------------------------------------------------------------------
(* Properties.                                                             *)

\* The segments of a diff, read to the end with the cursors, are the whole diff:
\* applied to the base revision they give the target revision.  Only an entity
\* that changed its kind ends the reading early.
DiffIsExact ==
    work.topic = "diff" /\ work.done =>
      IF work.refused THEN ~D!SameKind(work.in.base, work.in.target, DOMAIN work.in.base)
      ELSE
        /\ work.changes = D!Compare(work.in.base, work.in.target)
        /\ D!Apply(work.in.base, work.changes) = work.in.target

\* Every revision that was there when the reader began is listed once, newest
\* first, whatever is saved meanwhile.
ListingIsExact ==
    work.topic = "revisions" /\ work.done =>
        /\ work.in.revisions \subseteq ToSet(work.seen)
        /\ \A i, j \in DOMAIN work.seen : i < j => work.seen[i] > work.seen[j]

\* A patch operation on an array is one change of the diff that the user reviews.
PatchIsOneChange ==
    work.topic = "patch" /\ work.done /\ work.out.ok /\ work.in.op \in {"ADD", "REMOVE"} =>
        Cardinality(D!CompareArray(FALSE, work.in.original, work.out.value)) = 1

\* CompareRevisionSegment, ListRevisionRecords and BuildDiff: what is read in pages
\* or built for review is the difference between the two states, no more, no less.
ReadersAreExact == DiffIsExact /\ ListingIsExact /\ PatchIsOneChange

\* An expression written by the grammar is parsed as the same expression, unless it
\* has a !=: lex takes the ! alone, so an expression with one, which the grammar
\* allows, is refused wherever the operator stands, and never read as another.
GrammarIsParsed ==
    work.topic = "syntax" /\ work.done =>
        IF "!=" \in ToSet(F!Tokens(work.in, 1)) THEN ~work.out.valid
        ELSE work.out = [node |-> work.in, valid |-> TRUE]

\* A formula that Infer accepts evaluates to a value of the inferred type or to an
\* issue, never to a dereference of a value that is not there.
InferredIsEvaluated ==
    work.topic = "meaning" /\ work.done /\ work.type.issues = {} =>
        CASE work.out.k = "bool" -> work.type.type = F!Boolean
          [] work.out.k = "dec" -> work.type.type # F!Boolean
          [] work.out.k = "issue" -> work.out.code # "nil"

\* A formula that reads nothing and that the form accepts for an attribute has a
\* value of the attribute's type.
AcceptedHasValue ==
    work.topic = "meaning" /\ work.done /\ F!Selectors(work.in) = {} =>
        /\ work.issues[F!Scalar] = {} => work.out.k = "dec"
        /\ work.issues[F!Boolean] = {} => work.out.k = "bool"

\* The parser, the type inference and the evaluator agree on what a formula means.
FormulaIsSound == GrammarIsParsed /\ InferredIsEvaluated /\ AcceptedHasValue

\* StaticFormulaCycles reports the formulas that depend on themselves, and gives
\* two of them the same evidence when they depend on each other.
CyclesAreExact ==
    work.topic = "validation" /\ work.runs = <<>> =>
        LET graph == [node |-> {V!FormulaNode(b) : b \in V!Records(work.content)},
                      edge |-> V!FormulaEdges(work.content)]
            connected == Graph!ConnectionsIn(graph)
            loops(n) == \E e \in graph.edge : e[1] = n /\ connected[e[2], n]
            issues == V!CycleIssues(work.content)
        IN /\ {<<i.id, i.path>> : i \in issues} = {<<n[1], n[2]>> : n \in {n \in graph.node : loops(n)}}
           /\ \A n, m \in {n \in graph.node : loops(n)} :
                (connected[n, m] /\ connected[m, n]) =
                \E i, j \in issues : /\ <<i.id, i.path>> = <<n[1], n[2]>> /\ <<j.id, j.path>> = <<m[1], m[2]>>
                                     /\ i.evidence = j.evidence

\* The validation gate passes a revision only when its content, as it is now and by
\* the validators as they are now, has no blocking issue, however many runs of
\* other scopes, contents and versions are stored.
GatePassIsCurrent ==
    work.topic = "validation" /\ work.gate = "PASS" =>
        /\ \A order \in Orders(work.content) : V!AnalyzeV1(work.content, "FULL", order) = {}
        /\ \E i \in DOMAIN work.runs : work.runs[i].versions = work.versions

\* What the validators report is what is wrong with the content, and the gate over
\* the stored reports speaks of the revision that is released.
ValidationIsExact == CyclesAreExact /\ GatePassIsCurrent

\* Designed content is read by one meaning: formulas are parsed, typed and evaluated
\* consistently (FormulaIsSound), and the validators and their gate report exactly
\* what is wrong with it (ValidationIsExact).
ContentIsValidated == FormulaIsSound /\ ValidationIsExact

\* A release that is not blocked has, for the candidate and the policy it is
\* assessed with, evidence for every required metric, the projection of this very
\* revision where the policy asks for the graph gate, and where the policy asks for
\* the risk gate, a report without a required item that is unusable or that blocks.
AssessedIsEvidenced ==
    work.topic = "release" /\ work.verdict \in {"PASS", "WARNING"} =>
        LET c == work.in.candidate  p == work.in.policy  facts == work.in.facts IN
        /\ \A i \in DOMAIN p.metrics : p.metrics[i][3] =>
             \E r \in ToSet(facts.runs) :
                /\ r.reproducible /\ r.revision = c.revision /\ r.scene = p.metrics[i][1]
                /\ p.metrics[i][2] \in DOMAIN r.metrics /\ r.metrics[p.metrics[i][2]] = "available"
        /\ "graph" \in p.capabilities =>
             /\ facts.graph.summary[1].revision = c.revision /\ facts.graph.pipeline = "ready"
             /\ facts.graph.snapshot[1] = [hash |-> facts.graph.summary[1].hash, ready |-> TRUE]
        /\ "risk" \in p.capabilities =>
             \E r \in ToSet(facts.reports) :
                /\ r.kind = "calculation" /\ r.candidate.revision = c.revision
                /\ r.baseline = c.baseline /\ r.policy = p.hash
                /\ \A i \in r.items : /\ i.role = "required" => i.status = "comparable"
                                      /\ i.severity # "BLOCK"

\* A risk gate may be overridden exactly when the report would pass without its
\* numeric blocks.
OverridableIsNumeric ==
    work.topic = "report" /\ work.done /\ work.in.current.decision = <<>> =>
        LET lower(i) == IF i.kind = "metric" /\ i.override = "eligible" /\ i.severity = "BLOCK"
                        THEN [i EXCEPT !.severity = "INFO"] ELSE i
            without == [work.in.report EXCEPT !.items = {lower(i) : i \in @}]
        IN work.out.overridable =
             /\ work.out.state = "BLOCK"
             /\ G!Evaluate(without, work.in.current).state \in {"PASS", "WARNING"}

\* A decision that NewDecisionReport makes on an overridable report is valid for the
\* gate, and cannot be taken to another report or candidate.
DecisionStays ==
    work.topic = "report" /\ work.done /\ work.out.overridable =>
        \A items \in SUBSET {i.id : i \in work.in.report.items} :
            G!Decidable(work.in.report, items) =>
              LET d == G!Decision(work.in.report, items) IN
              /\ "DECISION_INVALID" \notin
                   G!Evaluate(work.in.report, [work.in.current EXCEPT !.decision = <<d>>]).reasons
              /\ "DECISION_INVALID" \in
                   G!Evaluate([work.in.report EXCEPT !.id = @ + 1],
                              [work.in.current EXCEPT !.decision = <<d>>]).reasons

\* The effect that a comparison shows of a required metric is the effect its item
\* has on the gate; an optional one blocks the gate only if it says so.
EffectIsGated ==
    work.topic = "metric" /\ work.done =>
        LET blocks == work.gate.state \notin {"PASS", "WARNING"} IN
        /\ blocks => work.out.effect = "BLOCK"
        /\ work.in.role = "required" /\ work.out.effect = "BLOCK" => blocks

\* A candidate that is further on the risky side never gets a milder severity.
SeverityIsMonotone ==
    work.topic = "metric" /\ work.done /\ work.out.status = "comparable" =>
        LET rank == [INFO |-> 1, WARNING |-> 2, BLOCK |-> 3]
            riskier == CASE work.in.candidate.direction = "higher" -> work.in.candidate.value + 1
                         [] work.in.candidate.direction = "lower" -> work.in.candidate.value - 1
                         [] work.in.candidate.direction = "range" ->
                              IF work.in.candidate.value >= work.in.candidate.target[1]
                              THEN work.in.candidate.value + 1 ELSE work.in.candidate.value - 1
            next == G!Assess(work.in.role, [work.in.candidate EXCEPT !.value = riskier],
                             work.in.baseline, work.in.threshold, FALSE)
        IN next.status = "comparable" /\ rank[next.severity] >= rank[work.out.severity]

\* An acceptable proposal has previews of itself alone, its risk was computed from
\* the simulation results it shows, and no risk metric blocks.
AcceptableIsConsistent ==
    work.topic = "proposal" /\ work.done /\ work.out =>
        /\ \A p \in {work.in.validation, work.in.simulation, work.in.risk} :
             p # <<>> /\ p[1].proposal = work.in.proposal
        /\ \A f \in work.in.risk[1].structural : f.severity # "BLOCK"
        /\ \A c \in work.in.risk[1].metrics :
             /\ c.effect # "BLOCK"
             /\ work.in.simulation[1].scenes[c.scene].result = c.result
        /\ \A m \in work.in.input.metrics :
             /\ \E c \in work.in.risk[1].metrics : c.metric = m
             /\ \A x \in work.in.input.scenes : work.in.simulation[1].scenes[x].metrics[m] = "available"

\* The gates decide on evidence of what is decided on.
GatesAreSound ==
    /\ AssessedIsEvidenced /\ OverridableIsNumeric /\ DecisionStays
    /\ SeverityIsMonotone /\ EffectIsGated /\ AcceptableIsConsistent
=============================================================================
