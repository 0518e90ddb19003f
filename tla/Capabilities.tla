----------------------------- MODULE Capabilities -----------------------------
(***************************************************************************)
(* What the runtime offers at the moment: the health of the graph provider *)
(* reduced to operations (graphprocess/compatibility), the AI provider's   *)
(* capability (ai/provider), the gates a release policy asks for           *)
(* (versioning/gate), and the registry that derives the capabilities from  *)
(* these observations along their prerequisites (app/runtime/capability).  *)
(***************************************************************************)
EXTENDS Integers, Sequences, FiniteSets, SequencesExt

Larger(a, b) == IF a > b THEN a ELSE b

-------------------------------------------------------------------------------
(* Graph provider health: [service, schema, api, snapshots, status, http,   *)
(* fixed, capabilities, dependencies, duplicates, rebuilds]; capabilities   *)
(* and dependencies are functions from names to states.                    *)

Operation(capabilities, dependencies, limits) ==
    [capabilities |-> capabilities, dependencies |-> dependencies, limits |-> limits]
\* DefaultOperationRegistry.
Operations ==
    [snapshot_lifecycle |-> Operation({"snapshot_lifecycle"}, {"sqlite", "graph_migrations"}, FALSE),
     task_polling |-> Operation({"task_polling"}, {}, FALSE),
     activation |-> Operation({"snapshot_lifecycle"}, {"sqlite"}, FALSE),
     core_query |-> Operation({}, {"sqlite", "graph_migrations", "core_graph_query"}, FALSE),
     graph_fts_readiness |-> Operation({}, {"sqlite", "graph_migrations", "core_graph_query", "bm25"}, FALSE),
     retrieval_bm25 |-> Operation({}, {"sqlite", "graph_migrations", "core_graph_query", "bm25"}, FALSE),
     retrieval_vector |-> Operation({}, {"sqlite", "graph_migrations", "core_graph_query", "vector"}, FALSE),
     retrieval_rerank |-> Operation({}, {"sqlite", "graph_migrations", "core_graph_query", "rerank"}, FALSE),
     explicit_rebuild |-> Operation({"snapshot_lifecycle", "task_polling"}, {"sqlite", "graph_migrations"}, TRUE)]

Named(states, name) == IF name \in DOMAIN states THEN states[name] ELSE "unavailable"
HttpFits(status, http) ==
    \/ http = 0
    \/ status \in {"ok", "degraded"} /\ http = 200
    \/ status = "unavailable" /\ http = 503

\* What makes every operation unavailable; a release of the service that lacks a known fix
\* is refused, one of another major version is only noted.
BaseUnavailable(h) ==
    \/ ~h.fixed \/ ~h.service \/ ~h.schema \/ ~h.api \/ ~h.snapshots \/ h.duplicates
    \/ h.status \notin {"ok", "degraded"} \/ ~HttpFits(h.status, h.http)

\* applyHealthState over what an operation requires.
OperationState(h, op) ==
    LET required == {Named(h.capabilities, n) : n \in Operations[op].capabilities}
                    \cup {Named(h.dependencies, n) : n \in Operations[op].dependencies}
    IN IF \/ BaseUnavailable(h) \/ ~(required \subseteq {"available", "degraded"})
          \/ Operations[op].limits /\ h.rebuilds < 1
       THEN "unavailable"
       ELSE IF "degraded" \in required THEN "degraded" ELSE "available"

reduceRetrievalCompatibility(h) ==
    LET bm25 == OperationState(h, "retrieval_bm25")
        vector == OperationState(h, "retrieval_vector")
        rerank == OperationState(h, "retrieval_rerank")
        unranked == Named(h.dependencies, "rerank") = "disabled"
    IN IF bm25 = "unavailable" /\ vector = "unavailable" THEN "unavailable"
       ELSE IF bm25 # "available" \/ vector # "available" \/ (~unranked /\ rerank # "available")
            THEN "degraded" ELSE "available"

Compatible(h) ==
    /\ ~BaseUnavailable(h)
    /\ \A op \in {"snapshot_lifecycle", "task_polling", "core_query", "graph_fts_readiness"} :
         OperationState(h, op) # "unavailable"

\* GraphObservations; a health that is not there or has expired is unavailable.
GraphObservations(h, known) ==
    [sync |-> IF known THEN OperationState(h, "graph_fts_readiness") ELSE "unavailable",
     retrieval |-> IF known THEN reduceRetrievalCompatibility(h) ELSE "unavailable"]

-------------------------------------------------------------------------------
(* The AI provider: a configuration [enabled, endpoint, model, credential, *)
(* probe]; the endpoint is "none", "refused" or "accepted", and the probe   *)
(* is << >> when it fails.                                                  *)

ResolveCapability(c) ==
    IF ~c.enabled \/ c.endpoint = "none" \/ ~c.model \/ c.credential = "none" THEN "unconfigured"
    ELSE IF c.endpoint = "refused" \/ c.probe = <<>> THEN "unavailable"
    ELSE IF ~(c.probe[1].model /\ c.probe[1].structured /\ c.probe[1].tools) THEN "unavailable"
    ELSE IF c.probe[1].streaming THEN "available" ELSE "degraded"
\* Observe: a credential store that fails is not a missing credential.
ObserveAI(c) ==
    IF ~c.enabled THEN "unconfigured"
    ELSE IF c.credential = "failed" THEN "unavailable" ELSE ResolveCapability(c)
AIObservation(state) == IF state = "unconfigured" THEN "unavailable" ELSE state

\* CalculateReleaseCapability: a requirement is [gate, contract, implementation], with
\* implementation 0 for any; the registry maps gates to what is registered.
Registered(registry, r) ==
    /\ r.gate \in DOMAIN registry
    /\ registry[r.gate].contract = r.contract
    /\ r.implementation # 0 => registry[r.gate].implementation = r.implementation
ReleaseGateObservation(registry, policy) ==
    IF \A r \in policy : Registered(registry, r) THEN "available" ELSE "unavailable"

-------------------------------------------------------------------------------
(* The registry.  A descriptor is [id, version, valid, prerequisites], the  *)
(* last a set of [id, required]; an observation is [state, generation].     *)

Refused(error) == [ok |-> FALSE, error |-> error]

InOrder(ids) == SelectSeq([i \in 1..10 |-> i], LAMBDA i : i \in ids)

\* topologicalOrder: a depth-first search in the order of the ids.
RECURSIVE Visit(_, _, _)
Visit(ds, s, id) ==
    IF s.cycle \/ s.mark[id] = 2 THEN s
    ELSE IF s.mark[id] = 1 THEN [s EXCEPT !.cycle = TRUE]
    ELSE LET next == InOrder({p.id : p \in ds[id].prerequisites} \cap DOMAIN ds)
             step(t, p) == Visit(ds, t, p)
             after == FoldLeft(step, [s EXCEPT !.mark[id] = 1], next)
         IN IF after.cycle THEN after ELSE [after EXCEPT !.mark[id] = 2, !.order = Append(@, id)]
topologicalOrder(ds) ==
    LET step(s, id) == Visit(ds, s, id)
    IN FoldLeft(step, [cycle |-> FALSE, mark |-> [id \in DOMAIN ds |-> 0], order |-> <<>>],
                InOrder(DOMAIN ds))

\* The first descriptor that is invalid or repeats an id decides the error.
NewRegistry(descriptors) ==
    LET repeats(i) == {j \in 1..(i - 1) : descriptors[j].id = descriptors[i].id}
        bad == {i \in DOMAIN descriptors : ~descriptors[i].valid \/ repeats(i) # {}}
        of(id) == CHOOSE d \in ToSet(descriptors) : d.id = id
        ds == [id \in {d.id : d \in ToSet(descriptors)} |-> of(id)]
    IN IF bad # {}
       THEN LET i == CHOOSE i \in bad : \A j \in bad : i <= j
            IN IF ~descriptors[i].valid THEN Refused("INVALID")
               ELSE IF \E j \in repeats(i) : descriptors[j].version # descriptors[i].version
                    THEN Refused("VERSION_CONFLICT") ELSE Refused("DUPLICATE")
       ELSE IF topologicalOrder(ds).cycle THEN Refused("CYCLE")
       ELSE [ok |-> TRUE, descriptors |-> ds, order |-> topologicalOrder(ds).order]

\* observationEvaluator.
Own(observations, id) ==
    IF id \in DOMAIN observations THEN observations[id] ELSE [state |-> "unavailable", generation |-> 0]

\* evaluatePrerequisites: blocked, degraded and the generation of the prerequisites.
evaluatePrerequisites(d, results) ==
    LET state(p) == IF p.id \in DOMAIN results THEN results[p.id].state ELSE "unavailable"
    IN [blocked |-> \E p \in d.prerequisites : p.required /\ state(p) = "unavailable",
        degraded |-> \E p \in d.prerequisites : state(p) # "available",
        generation |-> FoldSet(LAMBDA id, g : Larger(results[id].generation, g), 0,
                               {p.id : p \in d.prerequisites} \cap DOMAIN results)]
EvaluateOne(d, observations, results) ==
    LET p == evaluatePrerequisites(d, results)
        own == Own(observations, d.id)
    IN [state |-> IF p.blocked THEN "unavailable"
                  ELSE IF p.degraded /\ own.state = "available" THEN "degraded" ELSE own.state,
        generation |-> Larger(own.generation, p.generation)]
Evaluate(registry, observations) ==
    LET step(results, id) == (id :> EvaluateOne(registry.descriptors[id], observations, results)) @@ results
    IN FoldLeft(step, <<>>, registry.order)

\* DefaultRegistry; the observation of a capability has its name here.
Descriptor(id, required) ==
    [id |-> id, version |-> 1, valid |-> TRUE, prerequisites |-> {[id |-> r, required |-> TRUE] : r \in required}]
LocalEditing == 1
ValidationOf == 2
RevisionBrowsing == 3
SimulationRuns == 4
BackupOf == 5
GraphSyncOf == 6
Impact == 7
Retrieval == 8
AIDesignOf == 9
Release == 10
DefaultRegistry ==
    NewRegistry([i \in 1..6 |-> Descriptor(i, {})] \o
                <<Descriptor(Impact, {GraphSyncOf}), Descriptor(Retrieval, {GraphSyncOf}),
                  Descriptor(AIDesignOf, {Retrieval}),
                  Descriptor(Release, {ValidationOf, RevisionBrowsing, BackupOf, GraphSyncOf})>>)

\* ConvergeCapabilities: health of the graph, the backup, the provider and the gates.
ConvergeCapabilities(health, known, backup, ai, registry, policy) ==
    LET graph == GraphObservations(health, known)
        at(state) == [state |-> state, generation |-> 1]
    IN Evaluate(DefaultRegistry,
         [i \in {LocalEditing, ValidationOf, RevisionBrowsing, SimulationRuns, Impact} |-> at("available")]
         @@ (BackupOf :> at(IF backup THEN "available" ELSE "unavailable"))
         @@ (GraphSyncOf :> at(graph.sync)) @@ (Retrieval :> at(graph.retrieval))
         @@ (AIDesignOf :> at(AIObservation(ObserveAI(ai))))
         @@ (Release :> at(ReleaseGateObservation(registry, policy))))

-------------------------------------------------------------------------------
(* The actions that are offered with a capability.                          *)

closedActions ==
    [reprobe |-> [precondition |-> "dependency_observed", keyed |-> TRUE],
     reconnect |-> [precondition |-> "graph_configured", keyed |-> TRUE],
     settings |-> [precondition |-> "settings_writable", keyed |-> FALSE],
     credential |-> [precondition |-> "provider_supported", keyed |-> FALSE]]
Resolve(action, preconditions, keyValid) ==
    IF action \notin DOMAIN closedActions THEN "INVALID"
    ELSE IF closedActions[action].precondition \notin preconditions THEN "PRECONDITION"
    ELSE IF closedActions[action].keyed /\ ~keyValid THEN "IDEMPOTENCY_KEY" ELSE "OK"

\* defaultRuntimeCapabilities: what may be done about a capability that is not available.
ActionsFor(results, id, configured, observed, ai, graph) ==
    IF results[id].state = "available" THEN {}
    ELSE (IF configured /\ (graph.sync # "available" \/ graph.retrieval # "available")
             /\ id \in {GraphSyncOf, Impact, Retrieval, AIDesignOf, Release}
          THEN {"reconnect"} \cup (IF observed THEN {"reprobe"} ELSE {}) ELSE {})
         \cup (IF id = AIDesignOf /\ ai # "available" THEN {"settings", "credential"} ELSE {})
=============================================================================
