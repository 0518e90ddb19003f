------------------------------ MODULE Validation ------------------------------
(***************************************************************************)
(* The v1 validators (validation): what AnalyzeV1 reports of a set of      *)
(* entities in each scope, the identity of a report and the release gate   *)
(* over the stored runs.  An entity is a record with its id, kind and      *)
(* status, whether its schema validates, and what the walks over its       *)
(* payload find: references, formula bindings (with the diagnostics that   *)
(* parsing and inference give), trigger blocks and stack rules.  Ids,      *)
(* paths and attributes are small numbers, ordered as the code orders      *)
(* their text.                                                             *)
(***************************************************************************)
EXTENDS Naturals, Sequences, FiniteSets, SequencesExt

-------------------------------------------------------------------------------
(* Strongly connected components: the visit of StaticFormulaCycles and of    *)
(* stringSCC, over nodes in key order.                                     *)

Least(a, b) == IF a < b THEN a ELSE b

\* The low link of v after its edge to an already visited w; a walk that forgot
\* onStack would take any visited node.
LowLinkAnyVisited(s, v, w) == [s EXCEPT !.low[v] = Least(@, s.indices[w])]
LowLink(s, v, w) ==
    IF \E i \in DOMAIN s.stack : s.stack[i] = w
    THEN [s EXCEPT !.low[v] = Least(@, s.indices[w])] ELSE s

RECURSIVE Visit(_, _, _)
Visit(start, v, adj) ==
    LET entered == [start EXCEPT !.index = @ + 1, !.stack = Append(@, v),
                                 !.indices[v] = start.index + 1, !.low[v] = start.index + 1]
        edge(s, w) == IF s.indices[w] = 0
                      THEN LET t == Visit(s, w, adj) IN [t EXCEPT !.low[v] = Least(@, t.low[w])]
                      ELSE LowLink(s, v, w)
        done == FoldLeft(edge, entered, adj[v])
        root == CHOOSE i \in DOMAIN done.stack : done.stack[i] = v
    IN IF done.low[v] # done.indices[v] THEN done
       ELSE [done EXCEPT !.components = @ \cup {ToSet(SubSeq(done.stack, root, Len(done.stack)))},
                         !.stack = SubSeq(@, 1, root - 1)]

\* Nodes are tuples of numbers of one length.
KeyOrder(a, b) == \E i \in DOMAIN a : a[i] < b[i] /\ \A j \in 1..(i - 1) : a[j] = b[j]

Components(nodes, edges) ==
    LET adj == [v \in nodes |-> SetToSortSeq({e[2] : e \in {e \in edges : e[1] = v}}, KeyOrder)]
        empty == [index |-> 0, indices |-> [v \in nodes |-> 0], low |-> [v \in nodes |-> 0],
                  stack |-> <<>>, components |-> {}]
        walk(s, v) == IF s.indices[v] = 0 THEN Visit(s, v, adj) ELSE s
    IN FoldLeft(walk, empty, SetToSortSeq(nodes, KeyOrder)).components

\* A component is a cycle when it has two members or a self edge; its edges are
\* its evidence and, hashed, its identity.
Cycles(nodes, edges) ==
    {[nodes |-> c, edges |-> {e \in edges : e[1] \in c /\ e[2] \in c}] :
       c \in {c \in Components(nodes, edges) :
                Cardinality(c) > 1 \/ \E e \in edges : e[1] \in c /\ e[2] = e[1]}}

-------------------------------------------------------------------------------
(* The walks.                                                              *)

\* WalkKnownSchema numbers the references of an entity in the order in which the
\* payload map is iterated: order is that order of all references.
References(entities, order) ==
    {[source |-> e.id, path |-> r.path, expected |-> r.kind, target |-> r.target,
      ordinal |-> CHOOSE i \in DOMAIN order : order[i] = <<e.id, r.path>>] :
        <<e, r>> \in {p \in entities \X UNION {e.refs : e \in entities} : p[2] \in p[1].refs}}

ReferenceCode(entities, r) ==
    LET targets == {e \in entities : e.id = r.target} IN
    IF targets = {} THEN "REFERENCE_NOT_FOUND"
    ELSE IF \E e \in targets : e.status # "active" THEN "REFERENCE_TARGET_INACTIVE"
    ELSE IF \E e \in targets : e.kind # r.expected THEN "REFERENCE_KIND_MISMATCH"
    ELSE "none"

\* CompileFormulaBindings: a binding without diagnostics becomes a record.
Bindings(entities) ==
    UNION {{[source |-> e.id, path |-> f.path, out |-> f.out, diags |-> f.diags, reads |-> f.reads] :
              f \in e.formulas} : e \in entities}
Records(entities) == {b \in Bindings(entities) : b.diags = {}}

\* AnalyzeV1: attributeIDs knows the active attributes, producer keeps the last
\* record of an entity's output, an edge follows a read of the self scope.
FormulaNode(b) == <<b.source, b.path, b.out>>
AttributeIDs(entities) == {e.id : e \in {e \in entities : e.kind = "attribute" /\ e.status = "active"}}

Producers(entities, source, out) ==
    LET made == {b \in Records(entities) : b.source = source /\ b.out = out}
    IN {b \in made : \A x \in made : x.path <= b.path}

FormulaEdges(entities) ==
    UNION {{<<FormulaNode(b), FormulaNode(to)>> :
              to \in UNION {Producers(entities, b.source, r.symbol) :
                              r \in {r \in b.reads : r.scope = "self" /\ r.symbol \in AttributeIDs(entities)}}} :
           b \in Records(entities)}

FormulaCycles(entities) ==
    Cycles({FormulaNode(b) : b \in Records(entities)}, FormulaEdges(entities))

\* ExtractRuleSafety: an edge leaves the entity and path of its trigger block and
\* enters the id of an effect, which is no such place (0 is no path).
TriggerEdges(entities) ==
    UNION {{[edge |-> <<<<e.id, t.path>>, <<effect, 0>>>>, bounded |-> t.bounded,
             id |-> e.id, path |-> t.path] : effect \in t.effects} :
           <<e, t>> \in {p \in entities \X UNION {e.triggers : e \in entities} : p[2] \in p[1].triggers}}

\* UnboundedEventLoops.
EventLoops(triggers) ==
    LET edges == {t.edge : t \in {t \in triggers : ~t.bounded}}
    IN Cycles(UNION {{e[1], e[2]} : e \in edges}, edges)

\* ValidateStackRule; -1 is a field that is not there.
StackCodes(rule) ==
    IF rule.op \notin {"Add", "Multiply", "Override", "Max", "Min"} THEN {"STACK_UNBOUNDED"}
    ELSE (IF rule.priority THEN {} ELSE {"STACK_PRIORITY_MISSING"})
         \cup (IF \/ rule.op \in {"Add", "Multiply"} /\ rule.maxStacks \in {"none", "zero"} /\ ~rule.cap
                  \/ rule.maxStacks = "zero"
               THEN {"STACK_UNBOUNDED"} ELSE {})

-------------------------------------------------------------------------------
(* Reports.                                                                *)

SeverityOf(code) == IF code = "SCHEMA_INVALID" THEN "ERROR" ELSE "BLOCK"

\* NewIssue and Fingerprint: the ordinal and the evidence are part of the identity.
Issue(code, id, path, ordinal, evidence) ==
    [severity |-> SeverityOf(code), code |-> code, id |-> id, path |-> path,
     ordinal |-> ordinal, evidence |-> evidence]

BaseIssues(entities) ==
    {Issue("SCHEMA_INVALID", e.id, 0, 0, {}) : e \in {e \in entities : ~e.schema}}

ReferenceIssues(entities, order) ==
    {Issue(ReferenceCode(entities, r), r.source, r.path, r.ordinal, {r.target}) :
        r \in {r \in References(entities, order) : ReferenceCode(entities, r) # "none"}}

FormulaIssues(entities) ==
    UNION {{Issue(code, b.source, b.path, 0, {}) : code \in b.diags} : b \in Bindings(entities)}

CycleIssues(entities) ==
    UNION {{Issue("STATIC_FORMULA_CYCLE", n[1], n[2], 0, c.edges) : n \in c.nodes} :
           c \in FormulaCycles(entities)}

LoopIssues(entities) ==
    LET triggers == TriggerEdges(entities) IN
    UNION {{Issue("EVENT_LOOP_UNBOUNDED", t.id, t.path, 0, c.edges) :
              t \in {t \in triggers : t.edge \in c.edges}} : c \in EventLoops(triggers)}

StackIssues(entities) ==
    UNION {UNION {{Issue(code, e.id, s.path, 0, {}) : code \in StackCodes(s)} : s \in e.stacks} :
           e \in entities}

\* AnalyzeV1: each scope stops where the next one goes on.
AnalyzeV1(entities, scope, order) ==
    BaseIssues(entities)
    \cup (IF scope = "BASE" THEN {} ELSE ReferenceIssues(entities, order) \cup FormulaIssues(entities))
    \cup (IF scope # "FULL" THEN {}
          ELSE CycleIssues(entities) \cup LoopIssues(entities) \cup StackIssues(entities))

\* NewCompletedRun: source, scope, versions, the counts and the result's identity.
CompletedRun(revision, hash, scope, versions, issues) ==
    [revision |-> revision, hash |-> hash, scope |-> scope, versions |-> versions,
     error |-> Cardinality({i \in issues : i.severity = "ERROR"}),
     block |-> Cardinality({i \in issues : i.severity = "BLOCK"}), result |-> issues]

\* FindMatchingFullRun: the newest stored run of exactly this input.
Matching(runs, revision, hash, versions) ==
    {i \in DOMAIN runs : /\ runs[i].revision = revision /\ runs[i].hash = hash
                         /\ runs[i].versions = versions /\ runs[i].scope = "FULL"}

\* ValidationGate.Check.
GateCheck(runs, revision, hash, versions) ==
    LET found == Matching(runs, revision, hash, versions)
        run == runs[CHOOSE i \in found : \A j \in found : j <= i]
    IN IF found = {} THEN "REQUIRES_VALIDATION"
       ELSE IF run.error > 0 \/ run.block > 0 THEN "BLOCKED" ELSE "PASS"
=============================================================================
