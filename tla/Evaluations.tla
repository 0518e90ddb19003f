----------------------------- MODULE Evaluations ------------------------------
(***************************************************************************)
(* The pure parts of simulation, graph and runtime at work, each driven    *)
(* through the inputs it gets.  task is one evaluation in progress: a rule *)
(* set that is built, a preview that runs its samples event by event, an   *)
(* impact analysis that asks a provider whose graph may be replaced        *)
(* between two answers, a projection that is planned as a difference, and  *)
(* the capabilities under changing observations.                           *)
(***************************************************************************)
EXTENDS Integers, Sequences, FiniteSets, SequencesExt

CONSTANTS
    RuleSources,      \* [entities, formulas, certified]
    RuleContexts,     \* [self, source, target, entities] in which rules are triggered
    Registrations,    \* sets of registered effects
    PreviewInputs,    \* [scene, overlays, exists, samples]
    Emissions,        \* what an evaluator may derive from an event: sequences of [delay, priority]
    SampleLists,      \* [samples, expected]
    ImpactInputs,     \* [input, changes, entities, graph]
    OtherGraphs,      \* graphs that the provider may have instead
    RevisionPairs,    \* pairs of revisions
    DescriptorLists,  \* descriptors of a capability registry
    ObservationSets,  \* observations of its capabilities
    HealthInputs,     \* [health, known, backup, ai, registry, policy, configured]
    MaxValue          \* bound: the largest decimal of the engine

VARIABLE task

E == INSTANCE SimulationEngine
Q == INSTANCE GraphQueries
C == INSTANCE Capabilities
G == INSTANCE Graphs

EvaluationInit ==
    \/ \E i \in RuleSources : task = [topic |-> "rules", in |-> i, done |-> FALSE]
    \/ \E i \in PreviewInputs : task = [topic |-> "preview", in |-> i, pc |-> "clone"]
    \/ \E i \in SampleLists : task = [topic |-> "reduce", in |-> i, done |-> FALSE]
    \/ \E i \in ImpactInputs : task = [topic |-> "impact", in |-> i, provider |-> i.graph, pc |-> "normalize"]
    \/ \E i \in RevisionPairs : task = [topic |-> "projection", in |-> i, done |-> FALSE]
    \/ \E i \in DescriptorLists : task = [topic |-> "registry", in |-> i, pc |-> "register"]
    \/ \E i \in HealthInputs : task = [topic |-> "health", in |-> i, done |-> FALSE]

-------------------------------------------------------------------------------
(* Rules and metrics.                                                      *)

\* The rule set of a revision, and what its triggers and modifiers do in a context.
RulesBuilt ==
    /\ task.topic = "rules" /\ ~task.done
    /\ \E context \in RuleContexts, registered \in Registrations :
         LET rules == E!Build(task.in)
             adapted == rules.ok /\ E!NewTypedRuleAdapter(rules, registered)
         IN task' = [topic |-> "rules", in |-> task.in, done |-> TRUE, context |-> context,
                     registered |-> registered, rules |-> rules, adapted |-> adapted,
                     invoked |-> IF adapted THEN E!TriggeredEffects(rules, context, "on_hit") ELSE <<>>,
                     attributes |-> IF adapted THEN E!ApplyModifiers(rules, context.entities[context.self].attributes)
                                    ELSE [ok |-> FALSE],
                     reads |-> adapted /\ \A b \in ToSet(rules.bindings) : E!runtimeSymbols(b.reads, context)]

Reduced ==
    /\ task.topic = "reduce" /\ ~task.done
    /\ task' = [topic |-> "reduce", in |-> task.in, done |-> TRUE,
                out |-> E!ReduceExpected(task.in.samples, task.in.expected)]

-------------------------------------------------------------------------------
(* Preview: Service.Evaluate and EvaluateSample.                           *)

Limits(d) == [duration |-> d.duration, maxEvents |-> d.maxEvents, maxSteps |-> d.maxSteps]

PreviewCloned ==
    /\ task.topic = "preview" /\ task.pc = "clone"
    /\ LET scene == E!Clone(task.in.scene, task.in.overlays, task.in.exists)
       IN task' = IF scene = <<>> THEN [topic |-> "preview", in |-> task.in, pc |-> "refused"]
                  ELSE [topic |-> "preview", in |-> task.in, pc |-> "sample", scene |-> scene[1],
                        run |-> E!NewRun(scene[1]), samples |-> <<>>, longest |-> 0]

\* The checkpoint of each turn looks at the context of the request.
PreviewCanceled ==
    /\ task.topic = "preview" /\ task.pc \in {"sample", "reduce"}
    /\ task' = [topic |-> "preview", in |-> task.in, pc |-> "canceled"]

\* What a derived event becomes after the event that the evaluator was given.
Derived(e, d) == [time |-> e.time + d.delay, priority |-> d.priority, source |-> e.source, ordinal |-> 0, kind |-> e.kind]
PreviewTurn ==
    /\ task.topic = "preview" /\ task.pc = "sample" /\ task.run.pc = "run"
    /\ \E derived \in Emissions :
         /\ task.run.queue = {} => derived = <<>>
         /\ task' = [task EXCEPT !.run =
              E!Turn(@, Limits(task.scene), [e \in task.run.queue |-> [i \in DOMAIN derived |-> Derived(e, derived[i])]])]

\* A sample counts the events; an error of a sample ends the preview.
SampleEnds ==
    /\ task.topic = "preview" /\ task.pc = "sample" /\ task.run.pc \in {"done", "stopped"}
    /\ IF task.run.pc = "stopped" THEN task' = [task EXCEPT !.pc = "failed"]
       ELSE LET samples == Append(task.samples, [ordinal |-> Len(task.samples), status |-> "succeeded",
                                                 value |-> <<Len(task.run.executed)>>])
                last == Len(samples) = task.in.samples
            IN task' = [task EXCEPT !.samples = samples, !.pc = IF last THEN "reduce" ELSE "sample",
                                    !.longest = IF Len(task.run.executed) > @ THEN Len(task.run.executed) ELSE @,
                                    !.run = IF last THEN @ ELSE E!NewRun(task.scene)]

PreviewReduced ==
    /\ task.topic = "preview" /\ task.pc = "reduce"
    /\ task' = [topic |-> "preview", in |-> task.in, pc |-> "done", longest |-> task.longest, scene |-> task.scene,
                out |-> E!ReduceExpected(task.samples, task.in.samples)]

-------------------------------------------------------------------------------
(* Impact.  The provider is external: it answers from the graph it has,    *)
(* with some simple path for a target it can reach, and it may fail.        *)

Neighbours(graph, input, n) ==
    {m \in graph.nodes : \E e \in graph.edges :
        /\ Q!edgeAllowed(e, n, m, input.direction)
        /\ input.edgeTypes # {} => e.type \in input.edgeTypes}
Reached(graph, input, starts, k) ==
    LET grow(seen, i) == seen \cup UNION {Neighbours(graph, input, n) : n \in seen}
    IN FoldLeft(grow, starts \cap graph.nodes, [i \in 1..k |-> i])
TraverseAnswer(graph, input, starts) ==
    [version |-> graph.version, hash |-> graph.hash,
     records |-> {[id |-> n, depth |-> CHOOSE k \in 0..input.maxDepth :
                     /\ n \in Reached(graph, input, starts, k)
                     /\ \A j \in 0..(k - 1) : n \notin Reached(graph, input, starts, j)] :
                  n \in Reached(graph, input, starts, input.maxDepth)}]
SimplePaths(graph, input, starts, target) ==
    {p \in UNION {[nodes : [1..(k + 1) -> graph.nodes], edges : [1..k -> graph.edges]] :
                     k \in 1..(Cardinality(graph.nodes) - 1)} :
        Q!validatePath(p, starts, target, input)}

ImpactNormalized ==
    /\ task.topic = "impact" /\ task.pc = "normalize"
    /\ LET n == Q!Normalize(task.in.input)
           changed == Q!ChangedSet(task.in.changes, task.in.entities, {})
       IN task' = IF n.ok THEN [topic |-> "impact", in |-> task.in, provider |-> task.provider, pc |-> "traverse",
                                input |-> n.input, starts |-> Q!eligibleStarts(changed)]
                  ELSE [task EXCEPT !.pc = "refused"]

GraphReplaced ==
    /\ task.topic = "impact" /\ task.pc \in {"traverse", "paths"} /\ task.provider = task.in.graph
    /\ \E g \in OtherGraphs : task' = [task EXCEPT !.provider = g]

Analysed(affected) ==
    [topic |-> "impact", in |-> task.in, provider |-> task.provider, pc |-> "paths", input |-> task.input,
     starts |-> task.starts, affected |-> affected, paths |-> <<>>]
TraverseAnswered ==
    /\ task.topic = "impact" /\ task.pc = "traverse"
    /\ IF task.starts = {} THEN task' = Analysed({})
       ELSE \/ task' = [task EXCEPT !.pc = "failed"]
            \/ LET r == Q!Traverse(task.input, task.starts, TraverseAnswer(task.provider, task.input, task.starts))
               IN task' = IF r.ok THEN Analysed(r.affected) ELSE [task EXCEPT !.pc = "refused"]

\* The workers ask for the path of one affected node each, in any order.
PathAnswered ==
    /\ task.topic = "impact" /\ task.pc = "paths"
    /\ \E a \in {a \in task.affected : a.id \notin DOMAIN task.paths} :
         \/ task' = [task EXCEPT !.pc = "failed"]
         \/ \E paths \in {<<>>} \cup {<<p>> : p \in SimplePaths(task.provider, task.input, task.starts, a.id)} :
              LET answer == [version |-> task.provider.version, hash |-> task.provider.hash, paths |-> paths]
              IN task' = IF Q!AcceptedPath(answer, task.starts, a.id, task.input)
                         THEN [task EXCEPT !.paths = (a.id :> (paths[1] @@ [tagRule |-> Q!hasTagRule(paths[1])])) @@ @]
                         ELSE [task EXCEPT !.pc = "refused"]
PathsDone ==
    /\ task.topic = "impact" /\ task.pc = "paths" /\ DOMAIN task.paths = {a.id : a \in task.affected}
    /\ task' = [task EXCEPT !.pc = "done"]

\* ExpandPaths after the analysis: all paths of one affected node.
PathsExpanded ==
    /\ task.topic = "impact" /\ task.pc = "done"
    /\ \E a \in task.affected :
         LET all == SimplePaths(task.provider, task.input, task.starts, a.id)
             answer == [version |-> task.provider.version, hash |-> task.provider.hash, paths |-> FoldSet(LAMBDA p, s : Append(s, p), <<>>, all)]
             r == Q!ExpandPaths(answer, task.starts, a.id, task.input)
         IN task' = IF r.ok THEN [task EXCEPT !.pc = "expanded", !.paths = [i \in {a.id} |-> r.paths]]
                    ELSE [task EXCEPT !.pc = "refused"]

-------------------------------------------------------------------------------
(* Projection and capabilities.                                            *)

Projected ==
    /\ task.topic = "projection" /\ ~task.done
    /\ LET base == Q!Project(task.in[1])
           target == Q!Project(task.in[2])
       IN task' = [topic |-> "projection", in |-> task.in, done |-> TRUE, base |-> base, target |-> target,
                   full |-> IF target.ok THEN Q!PlanFull(target, [nodes |-> 3, edges |-> 3]) ELSE target,
                   delta |-> IF base.ok /\ target.ok THEN Q!PlanDelta(base, target) ELSE target]

Registered ==
    /\ task.topic = "registry" /\ task.pc = "register"
    /\ LET registry == C!NewRegistry(task.in)
       IN task' = [topic |-> "registry", in |-> task.in, registry |-> registry,
                   pc |-> IF registry.ok THEN "evaluate" ELSE "refused"]
Evaluated ==
    /\ task.topic = "registry" /\ task.pc = "evaluate"
    /\ \E observations \in ObservationSets :
         task' = [topic |-> "registry", in |-> task.in, registry |-> task.registry, pc |-> "done",
                  observations |-> observations, results |-> C!Evaluate(task.registry, observations)]

Converge(i) == C!ConvergeCapabilities(i.health, i.known, i.backup, i.ai, i.registry, i.policy)
Converged ==
    /\ task.topic = "health" /\ ~task.done
    /\ LET results == Converge(task.in)
           graph == C!GraphObservations(task.in.health, task.in.known)
       IN task' = [topic |-> "health", in |-> task.in, done |-> TRUE, results |-> results,
                   actions |-> [id \in DOMAIN results |->
                      C!ActionsFor(results, id, task.in.configured, task.in.known, C!ObserveAI(task.in.ai), graph)]]

EvaluationNext ==
    \/ RulesBuilt \/ Reduced
    \/ PreviewCloned \/ PreviewCanceled \/ PreviewTurn \/ SampleEnds \/ PreviewReduced
    \/ ImpactNormalized \/ GraphReplaced \/ TraverseAnswered \/ PathAnswered \/ PathsDone \/ PathsExpanded
    \/ Projected \/ Registered \/ Evaluated \/ Converged

-------------------------------------------------------------------------------
(* Properties.                                                             *)

\* Where the text of a path puts a block: block 10 stands between the blocks 1 and 2.
TextPlace(ordinal) == IF ordinal < 10 THEN 11 * ordinal ELSE 11 * (ordinal \div 10) + (ordinal % 10) + 1
InTextOrder(blocks) == SortSeq(blocks, LAMBDA p, q : TextPlace(p.ordinal) < TextPlace(q.ordinal))

\* Build: a rule set has one rule for every block of the revision, in the order of
\* the texts of their paths, which is the order of the blocks only while a field has
\* at most ten of them, whatever the order in which the entities are read; it names
\* only active entities, and what its triggers invoke is registered and has a target
\* in the context.
RulesAreWhole ==
    task.topic = "rules" /\ task.done /\ task.rules.ok =>
        LET all == ToSet(task.in.entities)
            active == {e.id : e \in {e \in all : e.status = "active"}}
            of(e, rules) == SelectSeq([i \in DOMAIN rules |-> rules[i].at], LAMBDA p : p.entity = e.id)
            blocks(e, field, n) == InTextOrder([i \in 1..n |-> E!Provenance(e, field, i - 1)])
        IN /\ \A e \in all :
                /\ of(e, task.rules.modifiers) = blocks(e, "modifiers", Len(e.modifiers))
                /\ of(e, task.rules.triggers) = blocks(e, "rule_blocks", Len(e.triggers))
                /\ Cardinality({b \in ToSet(task.rules.bindings) : b.at.entity = e.id}) = Len(e.bindings)
           /\ E!Build([task.in EXCEPT !.entities = Reverse(@)]) = task.rules
           /\ \A m \in ToSet(task.rules.modifiers) : m.attribute \in active
           /\ \A t \in ToSet(task.rules.triggers) : ToSet(t.effects) \subseteq active
           /\ \A i \in ToSet(task.invoked) :
                i.effect \in task.registered /\ i.target \in DOMAIN task.context.entities
           /\ task.adapted /\ task.attributes.ok =>
                \A a \in DOMAIN task.attributes.attributes : E!InRange(task.attributes.attributes[a])

\* RunWithCheckpoint: the events of a sample run in the order of their times, each
\* once, within the budgets; when the run is done no event of the scene is left.
EngineIsExact ==
    task.topic = "preview" /\ task.pc = "sample" =>
        LET run == task.run  d == task.scene IN
        /\ \A i, j \in DOMAIN run.executed : i < j =>
             /\ run.executed[i].time <= run.executed[j].time
             /\ run.executed[i].ordinal # run.executed[j].ordinal
        /\ Len(run.executed) <= d.maxEvents /\ Len(run.executed) <= d.maxSteps
        /\ run.pc = "done" =>
             /\ \A e \in run.queue : e.time > d.duration
             /\ \A e \in E!InitialEvents(d) : e.time <= d.duration => e \in ToSet(run.executed)

\* ReduceExpected: a metric is reduced from every sample of the run or refused, does
\* not depend on the order in which samples came in, and lies between their extremes.
ReduceIsExact ==
    /\ task.topic = "reduce" /\ task.done =>
         LET s == task.in.samples  n == task.in.expected IN
         /\ (task.out.status # "refused") =
              /\ n > 0 /\ Len(s) = n /\ {s[i].ordinal : i \in DOMAIN s} = 0..(n - 1)
              /\ \A i \in DOMAIN s : s[i].status = "succeeded"
         /\ E!ReduceExpected(Reverse(s), n) = task.out
         /\ task.out.status = "available" =>
              task.out.low * n <= task.out.total /\ task.out.total <= task.out.high * n
    /\ task.topic = "preview" /\ task.pc = "done" =>
         /\ task.out.status = "available" /\ task.out.count = task.in.samples
         /\ task.out.high = task.longest /\ task.longest <= task.scene.maxEvents

\* Traverse and DefaultPaths: an analysis that ends well describes the snapshot it
\* was asked about and no other: the affected nodes with their distances are those of
\* its graph, and each has a path of that graph, although the provider may have
\* replaced its graph between two answers.
ImpactIsExact ==
    task.topic = "impact" /\ task.pc \in {"done", "expanded"} =>
        LET g == task.in.graph
            affected == {r \in TraverseAnswer(g, task.input, task.starts).records : r.id \notin task.starts}
            onGraph(p) == ToSet(p.edges) \subseteq g.edges /\ ToSet(p.nodes) \subseteq g.nodes
        IN /\ task.affected = affected
           /\ task.pc = "done" =>
                /\ DOMAIN task.paths = {a.id : a \in affected}
                /\ \A a \in affected : onGraph(task.paths[a.id]) /\ Len(task.paths[a.id].edges) >= a.depth
           /\ task.pc = "expanded" =>
                \A id \in DOMAIN task.paths : \A i \in DOMAIN task.paths[id] : onGraph(task.paths[id][i])

\* Project and PlanDelta: a projection has no edge without its ends and an edge for
\* every relation; the plan from one projection to another always exists, and applied
\* to the first gives the second.
ProjectionIsExact ==
    task.topic = "projection" /\ task.done =>
        /\ task.target.ok =>
             /\ Q!validateResult(task.target)
             /\ Cardinality(task.target.edges) =
                  Cardinality({r \in ToSet(task.in[2].references) : Q!relationFor(ToSet(task.in[2].entities), r) # {}})
        /\ /\ Q!Once([i \in DOMAIN task.in[2].entities |-> task.in[2].entities[i].id])
           /\ \A r \in ToSet(task.in[2].references) : Q!ValidEndpoints(ToSet(task.in[2].entities), r)
           => task.target.ok
        /\ task.base.ok /\ task.target.ok =>
             task.delta.ok /\ Q!ApplyDelta(task.base, task.delta.plan) = task.target

\* NewRegistry refuses exactly the descriptors that are invalid, repeated or
\* circular; Evaluate makes a capability unavailable exactly when something it
\* requires, directly or not, is missing or unavailable, and available exactly when
\* everything it builds on is.
RegistryIsExact ==
    /\ task.topic = "registry" /\ task.pc # "register" =>
         LET ids == {d.id : d \in ToSet(task.in)}
             graph == [node |-> ids, edge |-> UNION {{<<d.id, p.id>> : p \in {p \in d.prerequisites : p.id \in ids}} : d \in ToSet(task.in)}]
             connected == G!ConnectionsIn(graph)
             circular == \E e \in graph.edge : connected[e[2], e[1]]
         IN task.registry.ok =
              (Cardinality(ids) = Len(task.in) /\ (\A d \in ToSet(task.in) : d.valid) /\ ~circular)
    /\ task.topic = "registry" /\ task.pc = "done" =>
         LET ds == ToSet(task.in)
             ids == {d.id : d \in ds}
             edges(kinds) == UNION {{<<d.id, p.id>> : p \in {p \in d.prerequisites : p.required \in kinds}} : d \in ds}
             over(e) == G!ConnectionsIn([node |-> ids \cup {x[2] : x \in e}, edge |-> e])
             state(id) == IF id \in ids THEN C!Own(task.observations, id).state ELSE "unavailable"
             below(e, id) == {x \in ids \cup {y[2] : y \in e} : x = id \/ over(e)[id, x]}
         IN \A id \in ids :
              /\ (task.results[id].state = "unavailable") =
                   (\E x \in below(edges({TRUE}), id) : state(x) = "unavailable")
              /\ (task.results[id].state = "available") =
                   (\A x \in below(edges(BOOLEAN), id) : state(x) = "available")

\* ConvergeCapabilities: a dependency of the graph provider that recovers takes no
\* capability away, a compatible provider offers synchronization, and whatever is not
\* available because of the graph or the AI provider comes with an action.
HealthIsMonotone ==
    task.topic = "health" /\ task.done =>
        LET rank == [unavailable |-> 1, degraded |-> 2, available |-> 3]
            better(name) == [task.in EXCEPT !.health.dependencies[name] = "available"]
        IN /\ \A name \in DOMAIN task.in.health.dependencies, id \in DOMAIN task.results :
                task.in.health.dependencies[name] # "disabled" =>
                    rank[Converge(better(name))[id].state] >= rank[task.results[id].state]
           /\ task.in.known /\ C!Compatible(task.in.health) => task.results[C!GraphSyncOf].state # "unavailable"
           /\ \A id \in {C!GraphSyncOf, C!Impact, C!Retrieval, C!AIDesignOf} :
                task.in.configured /\ task.results[id].state # "available" => task.actions[id] # {}
           /\ \A id \in DOMAIN task.actions : \A a \in task.actions[id] :
                C!Resolve(a, {C!closedActions[x].precondition : x \in DOMAIN C!closedActions}, TRUE) = "OK"

\* What is evaluated depends on nothing but its inputs, and says of them what holds.
EvaluationsAreExact ==
    /\ RulesAreWhole /\ EngineIsExact /\ ReduceIsExact
    /\ ImpactIsExact /\ ProjectionIsExact
    /\ RegistryIsExact /\ HealthIsMonotone
=============================================================================
