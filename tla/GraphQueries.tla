----------------------------- MODULE GraphQueries -----------------------------
(***************************************************************************)
(* What is asked of the graph and what it is built from: the projection of *)
(* a revision and its plans (graph/projector), the input of an impact      *)
(* analysis (graph/impact/planner), and the checks on the provider's       *)
(* answers (graph/impact/analysis).                                        *)
(***************************************************************************)
EXTENDS Integers, Sequences, FiniteSets, SequencesExt

Refused(error) == [ok |-> FALSE, error |-> error]
Once(s) == \A i, j \in DOMAIN s : s[i] = s[j] => i = j

-------------------------------------------------------------------------------
(* Projection.  A revision is [entities, references, config]; an entity is *)
(* [id, kind, status, text] and a reference [source, target, kind, path,   *)
(* ordinal], its path a sequence of segments.                              *)

Decimal == {"0", "1", "2"}
Relation(token, sources, target, pattern) ==
    [token |-> token, sources |-> sources, target |-> target, pattern |-> pattern]
V1Relations ==
    {Relation("character_has_skill", {"character"}, "skill", <<"payload", "skill_ids", "*">>),
     Relation("character_uses_item", {"character"}, "item", <<"payload", "item_ids", "*">>),
     Relation("skill_applies_effect", {"skill"}, "effect", <<"payload", "effect_ids", "*">>),
     Relation("item_applies_effect", {"item"}, "effect", <<"payload", "effect_ids", "*">>),
     Relation("formula_reads_attribute", {"character", "skill"}, "attribute", <<"payload", "*", "*", "expression">>),
     Relation("effect_modifies_attribute", {"effect"}, "attribute", <<"payload", "modifiers", "*", "attribute_id">>),
     Relation("entity_has_tag", {"attribute", "tag", "character", "skill", "item", "effect"}, "tag", <<"tag_ids", "*">>),
     Relation("item_enhances_tag", {"item"}, "tag", <<"payload", "enhance_tag_ids", "*">>),
     Relation("effect_triggers_effect", {"effect"}, "effect", <<"payload", "trigger_blocks", "*", "effect_ids", "*">>)}

matchPointer(path, pattern) ==
    /\ Len(path) = Len(pattern)
    /\ \A i \in DOMAIN path : IF pattern[i] = "*" THEN path[i] \in Decimal ELSE path[i] = pattern[i]

\* The relations of a reference: at most one; the source of a reference may be missing.
relationFor(entities, r) ==
    {d \in V1Relations : /\ r.kind = d.target /\ matchPointer(r.path, d.pattern)
                         /\ \E e \in entities : e.id = r.source /\ e.kind \in d.sources}

Node(e, revision) == [id |-> e.id, kind |-> e.kind, text |-> e.text, config |-> revision.config]
Edge(r, token, revision) ==
    [id |-> <<r.source, token, r.target, r.path, r.ordinal>>, from |-> r.source, to |-> r.target,
     type |-> token, config |-> revision.config]

\* Archived entities are no nodes; a relation from or to one refuses the projection.
ValidEndpoints(entities, r) ==
    /\ \E e \in entities : e.id = r.source /\ e.status = "active"
    /\ \E e \in entities : e.id = r.target /\ e.kind = r.kind /\ e.status = "active"
Project(revision) ==
    LET entities == ToSet(revision.entities)
        related == SelectSeq(revision.references, LAMBDA r : relationFor(entities, r) # {})
        token(r) == (CHOOSE d \in relationFor(entities, r) : TRUE).token
        edges == [i \in DOMAIN related |-> Edge(related[i], token(related[i]), revision)]
    IN IF ~Once([i \in DOMAIN revision.entities |-> revision.entities[i].id]) THEN Refused("DUPLICATE_ENTITY")
       ELSE IF \E r \in ToSet(related) : ~ValidEndpoints(entities, r) THEN Refused("INVALID_ENDPOINT")
       ELSE IF ~Once([i \in DOMAIN edges |-> edges[i].id]) THEN Refused("DUPLICATE_EDGE")
       ELSE [ok |-> TRUE, nodes |-> {Node(e, revision) : e \in {e \in entities : e.status = "active"}},
             edges |-> ToSet(edges)]

\* Plans: what is put for the target, alone or on top of a base.
Ids(items) == {x.id : x \in items}
validateResult(result) ==
    /\ Cardinality(Ids(result.nodes)) = Cardinality(result.nodes)
    /\ Cardinality(Ids(result.edges)) = Cardinality(result.edges)
    /\ \A e \in result.edges : {e.from, e.to} \subseteq Ids(result.nodes)
validatePlan(plan) ==
    /\ Cardinality(Ids(plan.nodeUpserts)) = Cardinality(plan.nodeUpserts)
    /\ Cardinality(Ids(plan.edgeUpserts)) = Cardinality(plan.edgeUpserts)
    /\ Ids(plan.nodeUpserts) \cap plan.nodeDeletes = {} /\ Ids(plan.edgeUpserts) \cap plan.edgeDeletes = {}
Kept(items, upserts, deletes) == {x \in items : x.id \notin Ids(upserts) \cup deletes} \cup upserts
ApplyDelta(base, plan) ==
    LET nodes == Kept(base.nodes, plan.nodeUpserts, plan.nodeDeletes)
        edges == Kept(base.edges, plan.edgeUpserts, plan.edgeDeletes)
    IN IF ~validateResult(base) \/ ~validatePlan(plan) THEN Refused("INVALID_PLAN")
       ELSE IF \E e \in edges : ~({e.from, e.to} \subseteq Ids(nodes)) THEN Refused("DANGLING_EDGE")
       ELSE [ok |-> TRUE, nodes |-> nodes, edges |-> edges]
Delta(base, target) ==
    [nodeUpserts |-> target.nodes \ base.nodes, nodeDeletes |-> Ids(base.nodes) \ Ids(target.nodes),
     edgeUpserts |-> target.edges \ base.edges, edgeDeletes |-> Ids(base.edges) \ Ids(target.edges)]
\* PlanDelta applies its own plan before it hands it out.
PlanDelta(base, target) ==
    LET rebuilt == ApplyDelta(base, Delta(base, target))
    IN IF ~validateResult(base) \/ ~validateResult(target) \/ ~rebuilt.ok THEN Refused("INVALID_PLAN")
       ELSE IF rebuilt.nodes # target.nodes \/ rebuilt.edges # target.edges THEN Refused("MISMATCH")
       ELSE [ok |-> TRUE, plan |-> Delta(base, target)]
PlanFull(target, limits) ==
    IF \/ ~validateResult(target) \/ Cardinality(target.nodes) > limits.nodes
       \/ Cardinality(target.edges) > limits.edges
    THEN Refused("INVALID_PLAN") ELSE [ok |-> TRUE, nodes |-> target.nodes, edges |-> target.edges]

-------------------------------------------------------------------------------
(* The input of an analysis.  Zero and the empty text stand for "default". *)

Or(value, default) == IF value = 0 THEN default ELSE value
KnownTypes == {d.token : d \in V1Relations}
Normalize(input) ==
    LET n == [input EXCEPT !.direction = IF @ = "" THEN "incoming" ELSE @,
                           !.maxDepth = Or(@, 3), !.maxNodes = Or(@, 500), !.maxPaths = Or(@, 20),
                           !.seeds = Or(@, 20), !.results = Or(@, 20), !.suspectedDepth = Or(@, 2)]
    IN IF \/ n.direction \notin {"incoming", "outgoing", "both"} \/ ~(n.edgeTypes \subseteq KnownTypes)
          \/ n.maxDepth < 1 \/ n.maxNodes < 1 \/ n.maxPaths < 1 \/ n.base = n.target
       THEN Refused("INVALID_IMPACT_INPUT")
       ELSE IF \/ n.maxDepth > 6 \/ n.maxNodes > 500 \/ n.maxPaths > 100
               \/ n.seeds \notin 1..100 \/ n.results \notin 1..100 \/ n.suspectedDepth \notin 0..3
            THEN Refused("LIMIT_EXCEEDED")
       ELSE [ok |-> TRUE, input |-> n]

ChangeRank == [MODIFY |-> 1, MOVE |-> 2, ADD |-> 3, DELETE |-> 4]
\* ChangedSet: one entry per entity with its dominant change; an entity that is not an
\* active node of the target, or that the filter excludes, is no start.
ChangedSet(changes, entities, nodeTypes) ==
    LET of(id) == {c.change : c \in {c \in changes : c.id = id}}
        dominant(id) == CHOOSE k \in of(id) : \A l \in of(id) : ChangeRank[l] <= ChangeRank[k]
        eligible(id) == \E e \in entities : /\ e.id = id /\ e.status = "active"
                                            /\ nodeTypes # {} => e.kind \in nodeTypes
    IN {[id |-> id, change |-> dominant(id), eligible |-> eligible(id)] : id \in {c.id : c \in changes}}
eligibleStarts(changed) == {c.id : c \in {c \in changed : c.eligible}}

-------------------------------------------------------------------------------
(* Answers of the provider: [version, hash, records] and [version, hash,   *)
(* paths]; a record is [id, depth], a path [nodes, edges].                 *)

AnyIdentity(input, answer) == TRUE
verifyIdentity(input, answer) == answer.version = input.target /\ answer.hash = input.hash

Traverse(input, starts, answer) ==
    LET beyond == {r \in answer.records : r.depth > 0 /\ r.id \notin starts}
        depths(id) == {r.depth : r \in {r \in beyond : r.id = id}}
        least(id) == CHOOSE d \in depths(id) : \A x \in depths(id) : d <= x
    IN IF \/ ~verifyIdentity(input, answer)
          \/ \E r \in answer.records : r.depth \notin 0..input.maxDepth \/ (r.depth = 0 /\ r.id \notin starts)
       THEN Refused("PROVIDER_CONTRACT_MISMATCH")
       ELSE [ok |-> TRUE, affected |-> {[id |-> id, depth |-> least(id)] : id \in Ids(beyond)}]

edgeAllowed(e, from, to, direction) ==
    CASE direction = "incoming" -> e.from = to /\ e.to = from
      [] direction = "outgoing" -> e.from = from /\ e.to = to
      [] direction = "both" -> {e.from, e.to} = {from, to}
validatePath(path, starts, target, input) ==
    /\ Len(path.edges) \in 1..input.maxDepth /\ Len(path.nodes) = Len(path.edges) + 1
    /\ path.nodes[1] \in starts /\ path.nodes[Len(path.nodes)] = target /\ Once(path.nodes)
    /\ \A i \in DOMAIN path.edges :
         /\ edgeAllowed(path.edges[i], path.nodes[i], path.nodes[i + 1], input.direction)
         /\ input.edgeTypes # {} => path.edges[i].type \in input.edgeTypes
hasTagRule(path) == \E i \in DOMAIN path.edges : path.edges[i].type \in {"entity_has_tag", "item_enhances_tag"}

\* One path for each affected node; any other answer refuses the analysis.
AcceptedPath(answer, starts, target, input) ==
    /\ verifyIdentity(input, answer) /\ Len(answer.paths) = 1
    /\ validatePath(answer.paths[1], starts, target, input)
\* ExpandPaths: the paths of one node, asked for later.
ExpandPaths(answer, starts, target, input) ==
    IF /\ verifyIdentity(input, answer)
       /\ \A i \in DOMAIN answer.paths : validatePath(answer.paths[i], starts, target, input)
    THEN [ok |-> TRUE, paths |-> answer.paths] ELSE Refused("PROVIDER_CONTRACT_MISMATCH")
=============================================================================
