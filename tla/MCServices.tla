------------------------------ MODULE MCServices ------------------------------
(* The services around the Jobs and the calculations, one scene at a time:  *)
(* the settings, recovery and shutdown, shared requests, packages, status   *)
(* and log, the evaluations and the calculations, over small inputs.        *)
EXTENDS Computations

CONSTANTS SettingsClients

VARIABLES settingsFile, previousFile, replacedFile, settingsLock, temporaries,
          writer, server, requestsLeft, crashesLeft,
          jobRows, scan, changes, stages, shutdown,
          actions, callers, aiCache, observers, ai, stream,
          task,
          artifact, published, assemblers, launch, damages,
          logFiles, logged, logger, emitters, board, closer, bounds

-------------------------------------------------------------------------------
(* The calculations.                                                       *)

\* Manifests of three entities with a plain field, and one entity with an array.
Elements == [key : 1..2, val : 1..2]
Arrays == UNION {[1..n -> Elements] : n \in 0..3}
Entity(keyed, field, array) == [keyed |-> keyed, field |-> field, array |-> array]
Plain == {<<>>} \cup {Entity(TRUE, f, <<>>) : f \in 1..2}
Kinds == {<<>>} \cup {Entity(k, 1, <<>>) : k \in BOOLEAN}
MCDiffInputs ==
    [base : [1..3 -> Plain], target : [1..3 -> Plain], limit : 1..2]
    \cup [base : [1..2 -> Kinds], target : [1..2 -> Kinds], limit : 1..2]
    \cup UNION {{[base |-> <<Entity(k, 1, a)>>, target |-> <<Entity(k, 1, b)>>, limit |-> 1] :
                   a \in Arrays, b \in {b \in Arrays : Len(b) > 1}} : k \in BOOLEAN}

MCRevisionInputs == [revisions : SUBSET (1..4), limit : 1..2, created : {{5, 6}}]
MCPatchInputs ==
    [op : {"ADD", "REMOVE"}, original : Arrays, value : Elements]
    \cup [op : {"REPLACE"}, original : Arrays, value : {a \in Arrays : Len(a) < 2}]

\* Expressions of two levels.
Calls(args) == {F!Call("min", <<a, b>>) : a, b \in args} \cup {F!Call("if", <<a, b, b>>) : a, b \in args}
Grown(args, ops) ==
    args \cup {F!Un(op, a) : op \in {"-", "!"}, a \in args}
         \cup {F!Bin(op, a, b) : op \in ops, a, b \in args} \cup Calls(args)
Written == Grown({F!Dec(2), F!Qty(2, "millisecond")}, {"||", "&&", "<", "!=", "+", "-", "*"})
MCExpressions ==
    Written \cup {F!Bin(op, a, b) : op \in {"||", "&&", "<=", "!=", "+", "-", "/"}, a, b \in Written}
            \cup {F!Un(op, a) : op \in {"-", "!"}, a \in Written}
            \cup Grown({F!Sel("num"), F!Bool(TRUE)}, {">", ">=", "==", "*"})

Atoms == {F!Dec(2), F!Dec(0), F!Bool(TRUE), F!Bool(FALSE), F!Qty(3, "millisecond"), F!Qty(2, "mile"),
          F!Sel("num"), F!Sel("dur"), F!Sel("gone")}
Typed1 == Grown(Atoms, {"||", "&&", "<", "==", "+", "-", "*", "/"})
MCTypedExpressions ==
    Typed1 \cup {F!Bin(op, a, b) : op \in {"||", "*", "+"}, a \in Typed1, b \in {F!Bool(FALSE), F!Dec(2)}}
           \cup {F!Un(op, a) : op \in {"-", "!"}, a \in Typed1}
           \cup {F!Call("clamp", <<a, F!Dec(0), b>>) : a, b \in {F!Dec(2), F!Dec(4), F!Un("-", F!Dec(2))}}
           \cup {F!Call(f, <<a>>) : f \in {"abs", "clamp", "unknown"}, a \in Atoms}
           \cup {F!Call("if", <<a, b, F!Dec(2)>>) : a \in Typed1, b \in {F!Dec(0), F!Bool(TRUE)}}

\* Drafts: three attributes, and an entity whose formulas read them in every way; and
\* a few with one fault each.
Member(id, kind) == [id |-> id, kind |-> kind, status |-> "active", schema |-> TRUE,
                     refs |-> {}, formulas |-> {}, triggers |-> {}, stacks |-> {}]
Formula1(path, out, reads) ==
    [path |-> path, out |-> out, diags |-> {}, reads |-> {[scope |-> "self", symbol |-> r] : r \in reads}]
Attributes == {Member(i, "attribute") : i \in 1..3}
Reading(reads) ==
    Attributes \cup {[Member(4, "class") EXCEPT !.formulas = {Formula1(i, i, reads[i]) : i \in 1..3}]}
Reader == CHOOSE e \in Reading([i \in 1..3 |-> {}]) : e.id = 4
Drafts ==
    LET of(e) == Attributes \cup {e} IN
    {of(Reader), of([Reader EXCEPT !.schema = FALSE]),
     of([Reader EXCEPT !.formulas = {[Formula1(1, 1, {}) EXCEPT !.diags = {"FORMULA_TYPE_MISMATCH"}]}]),
     of([Reader EXCEPT !.formulas = {Formula1(1, 1, {2}), Formula1(2, 2, {1}), Formula1(3, 1, {3})}]),
     of([Reader EXCEPT !.refs = {[path |-> 1, kind |-> "attribute", target |-> t] : t \in {1, 2}}]),
     of([Reader EXCEPT !.refs = {[path |-> 1, kind |-> "attribute", target |-> 9],
                                 [path |-> 2, kind |-> "class", target |-> 1]}]),
     of([Reader EXCEPT !.triggers = {[path |-> 1, bounded |-> FALSE, effects |-> {4, 5}]}]),
     of([Reader EXCEPT !.stacks = {[path |-> 1, op |-> "Add", priority |-> TRUE, maxStacks |-> "none", cap |-> FALSE]}]),
     of([Reader EXCEPT !.stacks = {[path |-> 1, op |-> "Max", priority |-> FALSE, maxStacks |-> "some", cap |-> FALSE]}]),
     {[e EXCEPT !.status = IF e.id = 1 THEN "deleted" ELSE "active"] :
        e \in of([Reader EXCEPT !.refs = {[path |-> 1, kind |-> "attribute", target |-> 1]},
                                !.formulas = {Formula1(1, 1, {1})}])}}
MCContentPairs ==
    (Drafts \X Drafts) \cup {<<Reading(r), of>> : r \in [1..3 -> SUBSET (1..3)], of \in {Attributes}}

\* Releases: the facts of a candidate, of an older one and of another baseline.
Candidate == [revision |-> 2, config |-> 2, baseline |-> 1]
Ref == [revision |-> 2, config |-> 2]
Run(revision, reproducible, scene, metric) ==
    [revision |-> revision, config |-> revision, identity |-> TRUE, scene |-> scene, samples |-> 1,
     reproducible |-> reproducible, metrics |-> metric]
Available == [m \in {1} |-> "available"]
Runs == {Run(2, TRUE, 1, Available), Run(2, TRUE, 2, Available), Run(1, TRUE, 1, Available),
         Run(2, FALSE, 1, Available), Run(2, TRUE, 1, [m \in {1} |-> "unavailable"]), Run(2, TRUE, 1, <<>>)}
MetricItem(role, status, severity) ==
    [id |-> 1, kind |-> "metric", role |-> role, status |-> status, severity |-> severity, override |-> "eligible"]
Report(id, baseline, items) ==
    [id |-> id, kind |-> "calculation", hash |-> 7, candidate |-> Ref, baseline |-> baseline, policy |-> 1,
     threshold |-> 1, implementation |-> 1, run |-> 1, items |-> items]
Reports == {Report(1, 1, {MetricItem("required", "comparable", "INFO")}),
            Report(2, 1, {MetricItem("required", "comparable", "BLOCK")}),
            Report(3, 1, {MetricItem("required", "stale", "none")}),
            Report(4, 2, {MetricItem("required", "comparable", "INFO")}),
            Report(5, 1, {MetricItem("optional", "unavailable", "none")}),
            [kind |-> "decision", source |-> 2, hash |-> 7, candidate |-> Ref, items |-> {1}]}
Projected(revision, pipeline, hash, ready) ==
    [summary |-> <<[revision |-> revision, config |-> revision, hash |-> 1]>>, pipeline |-> pipeline,
     job |-> <<[status |-> "succeeded", revision |-> revision, config |-> revision]>>,
     snapshot |-> IF hash = 0 THEN <<>> ELSE <<[hash |-> hash, ready |-> ready]>>]
Ready == Projected(2, "ready", 1, TRUE)
Graphs == {Ready, Projected(1, "ready", 1, TRUE), Projected(2, "syncing", 1, TRUE), Projected(2, "ready", 0, TRUE),
           Projected(2, "ready", 2, TRUE), Projected(2, "ready", 1, FALSE), [Ready EXCEPT !.job = <<>>]}
Facts == [graph : Graphs, backup : BOOLEAN, registered : {{"graph", "simulation", "risk", "backup"}},
          runs : UNION {[1..n -> Runs] : n \in 0..2}, reports : UNION {[1..n -> Reports] : n \in 0..2}]
Policy(capabilities, required, role) ==
    [hash |-> 1, capabilities |-> capabilities, metrics |-> <<<<1, 1, required>>>>, samples |-> 1,
     requirements |-> {[id |-> 1, role |-> role]}]
MCReleaseInputs ==
    {[candidate |-> Candidate, policy |-> p, facts |-> f] :
       f \in {f \in Facts : (f.graph # Ready \/ ~f.backup) => (Len(f.runs) = 1 /\ Len(f.reports) = 1)},
       p \in {Policy({"graph", "simulation", "risk", "backup"}, TRUE, "required"),
              Policy({"risk"}, FALSE, "optional"), Policy({"simulation", "other"}, FALSE, "optional")}}

\* Reports of two items, with the contexts they are gated in.
Items(id) ==
    {[id |-> id, kind |-> k, role |-> r, status |-> s, severity |-> v, override |-> o] :
       k \in {"metric", "structure"}, r \in {"required", "optional"}, o \in {"eligible", "non_overridable"},
       <<s, v>> \in {<<"stale", "none">>, <<"unavailable", "none">>, <<"not_comparable", "none">>,
                     <<"comparable", "INFO">>, <<"comparable", "WARNING">>, <<"comparable", "BLOCK">>}}
Current == [candidate |-> Ref, baseline |-> 1, policy |-> 1, threshold |-> 1, thresholdEnabled |-> TRUE,
            implementation |-> 1, run |-> 1, requirements |-> {[id |-> 1, role |-> "required"]},
            confirmed |-> TRUE, factsComplete |-> TRUE, decision |-> <<>>]
Contexts == {[Current EXCEPT !.baseline = 2], [Current EXCEPT !.policy = 2], [Current EXCEPT !.threshold = 2],
             [Current EXCEPT !.thresholdEnabled = FALSE], [Current EXCEPT !.implementation = 0],
             [Current EXCEPT !.implementation = 2], [Current EXCEPT !.run = 2],
             [Current EXCEPT !.baseline = 0, !.confirmed = FALSE], [Current EXCEPT !.baseline = 0, !.factsComplete = FALSE],
             [Current EXCEPT !.candidate.config = 9], [Current EXCEPT !.requirements = {}]}
MCReportInputs ==
    {[report |-> Report(1, 1, {i, j}), current |-> Current] : i \in Items(1), j \in Items(2)}
    \cup {[report |-> Report(1, b, {i}), current |-> c] : b \in 0..1, i \in Items(1), c \in Contexts}
    \cup {[report |-> Report(1, 1, {i}), current |-> [Current EXCEPT !.decision = <<d>>]] :
            i \in Items(1), d \in {G!Decision(Report(1, 1, {}), {1}), G!Decision(Report(2, 1, {}), {1})}}

Metric(value, direction, available) ==
    [metric |-> 1, unit |-> "u", direction |-> direction, available |-> available, value |-> value,
     target |-> IF direction = "range" THEN <<2, 3>> ELSE <<>>]
MCMetricInputs ==
    {[role |-> r, candidate |-> Metric(c, d, a), baseline |-> Metric(b, d, TRUE), stale |-> s,
      threshold |-> [metric |-> 1, unit |-> "u", direction |-> d, relative |-> <<1, 2>>, absolute |-> abs]] :
       r \in {"required", "optional"}, c \in -1..5, b \in -1..4, d \in {"higher", "lower", "range"},
       a \in BOOLEAN, s \in BOOLEAN, abs \in {<<>>, <<1, 3>>}}

Judged(p, metric, effect, result, z) ==
    [proposal |-> p, acceptable |-> effect # "BLOCK",
     structural |-> {[status |-> "comparable", severity |-> IF z = 2 THEN "BLOCK" ELSE "INFO"]},
     metrics |-> {[metric |-> metric, available |-> TRUE, effect |-> effect, scene |-> 1, result |-> result]}]
Simulated(p, scene, state, result) ==
    [proposal |-> p, scenes |-> [x \in {scene} |-> [metrics |-> [m \in {1} |-> state], result |-> result]]]
MCProposalInputs ==
    {[proposal |-> 1, input |-> [scenes |-> {1}, metrics |-> {1}], searchRequired |-> q, validation |-> v,
      search |-> s, simulation |-> m, risk |-> r] :
       q \in BOOLEAN, v \in {<<>>, <<[proposal |-> 1, blocked |-> FALSE]>>, <<[proposal |-> 2, blocked |-> FALSE]>>,
                             <<[proposal |-> 1, blocked |-> TRUE]>>},
       s \in {<<>>, <<[proposal |-> 1, stop |-> "budget", records |-> {}]>>,
              <<[proposal |-> 1, stop |-> "completed", records |-> {[passed |-> TRUE, constraints |-> {TRUE}]}]>>,
              <<[proposal |-> 1, stop |-> "completed", records |-> {[passed |-> TRUE, constraints |-> BOOLEAN]}]>>},
       m \in {<<>>} \cup {<<Simulated(p, x, a, 1)>> : p \in 1..2, x \in 1..2, a \in {"available", "unavailable"}},
       r \in {<<>>} \cup {<<Judged(p, t, e, z, y)>> : y \in 1..2, p \in 1..2, t \in 1..2, e \in {"INFO", "BLOCK"}, z \in 1..2}}

-------------------------------------------------------------------------------
(* Settings.                                                               *)

Loopback == [scheme |-> "http", host |-> "loopback", user |-> FALSE, port |-> 8080]
Public == [Loopback EXCEPT !.host = "public", !.scheme = "https", !.port = -1]
NoPatch == [browser |-> <<>>, graph |-> <<>>, ai |-> <<>>, logs |-> <<>>, backup |-> <<>>]
AIOf(endpoint, cloud) == [enabled |-> TRUE, endpoint |-> <<endpoint>>, timeout |-> 60, cloud |-> cloud]
SettingsPatches ==
    {NoPatch, [NoPatch EXCEPT !.browser = <<FALSE>>],
     [NoPatch EXCEPT !.graph = <<[mode |-> "external", endpoint |-> <<>>, limit |-> 3]>>],
     [NoPatch EXCEPT !.ai = <<AIOf(Public, TRUE)>>], [NoPatch EXCEPT !.ai = <<AIOf(Public, FALSE)>>],
     [NoPatch EXCEPT !.backup = <<[daily |-> 2, useDefault |-> FALSE]>>],
     [NoPatch EXCEPT !.backup = <<[daily |-> 1001, useDefault |-> TRUE]>>, !.logs = <<7>>]}
OldDocument == [version |-> 1, browser |-> FALSE, package |-> "complete", logs |-> 4, days |-> 7,
                graph |-> [mode |-> "bundled", endpoint |-> <<>>, limit |-> 3],
                ai |-> [enabled |-> FALSE, endpoint |-> <<>>, timeout |-> 120, cloud |-> FALSE]]
SettingsLaunches ==
    {[env |-> <<>>, args |-> <<>>],
     [env |-> <<<<"browser", "false">>>>, args |-> <<<<"browser", "true">>, <<"endpoint", Loopback>>>>],
     [env |-> <<<<"browser", "true">>>>, args |-> <<<<"endpoint", Public>>>>],
     [env |-> <<<<"browser", "maybe">>>>, args |-> <<>>], [env |-> <<>>, args |-> <<<<"port", 1>>>>]}

S == INSTANCE SettingsStore WITH
       Clients <- SettingsClients, Patches <- SettingsPatches,
       Directories <- {<<"d">>, <<"p", "q">>}, Projects <- {<<>>, <<"p">>},
       FirstFiles <- {<<>>, <<OldDocument>>, <<[version |-> 0, browser |-> FALSE]>>, <<[version |-> 9]>>},
       Launches <- SettingsLaunches, MaxRequests <- 2, MaxCrashes <- 1

-------------------------------------------------------------------------------
(* Recovery.                                                               *)

Row(kind, status) == [kind |-> kind, status |-> status, generation |-> 1]
Registry ==
    [graph |-> [legal |-> {"queued", "running"}, fingerprint |-> FALSE, checkpoints |-> {}, resume |-> TRUE],
     risk |-> [legal |-> {"running", "interrupted"}, fingerprint |-> TRUE, checkpoints |-> {"sealed"}, resume |-> FALSE]]
StageList(stage, scans, works) == [stage |-> stage, scans |-> scans, works |-> works]
R == INSTANCE RecoveryRegistry WITH
       JobRows <- {<<Row("graph", s), Row("risk", t)>> : s \in {"queued", "running", "succeeded"},
                                                         t \in {"queued", "running", "interrupted"}}
                  \cup {<<Row("other", "running"), Row("graph", "running"), Row("risk", "running")>>, <<>>},
       Descriptors <- Registry, RecoveryLimit <- 2, Checkpoints <- {"sealed", "more"},
       StageLists <- {<<StageList("remaining", TRUE, TRUE), StageList("release", TRUE, TRUE), StageList("restore", TRUE, FALSE)>>,
                      <<StageList("deterministic", TRUE, TRUE), StageList("graph", FALSE, TRUE), StageList("release", TRUE, FALSE)>>,
                      <<StageList("graph", FALSE, TRUE), StageList("graph", TRUE, TRUE)>>},
       Outcomes <- {<<>>, <<"resumed", "support">>, <<"invalid", "resumed">>},
       Policies <- {"graph", "release", "risk"}, MaxMoves <- 2

-------------------------------------------------------------------------------
(* Shared requests.                                                        *)

L == INSTANCE LiveRequests WITH
       Callers <- 1..3, Keys <- {"k", "l", "m"}, CacheLimit <- 2, MaxCalls <- 4,
       Observers <- 1..2,
       AISettings <- {[readable |-> TRUE, config |-> 1, source |-> "env", secret |-> 1],
                      [readable |-> TRUE, config |-> 1, source |-> "file", secret |-> 1],
                      [readable |-> TRUE, config |-> 2, source |-> "file", secret |-> 2],
                      [readable |-> FALSE, config |-> 1, source |-> "file", secret |-> 1]},
       MaxSettings <- 3, MaxEvents <- 4, MaxConnections <- 3

-------------------------------------------------------------------------------
(* Evaluations.                                                            *)

Blank(id, kind) == [id |-> id, kind |-> kind, status |-> "active", bindings |-> <<>>, triggers |-> <<>>,
                    modifiers |-> <<>>, stack |-> <<>>]
Change(op, attribute, value) == [attribute |-> attribute, op |-> op, value |-> value]
OnHit(type, tag, effects) == [event |-> "on_hit", condition |-> "", target |-> [type |-> type, tag |-> tag], effects |-> effects]
Compiled(output, reads) == [source |-> 5, ordinal |-> 0, output |-> output, intact |-> TRUE, reads |-> reads]
Base == <<Blank(1, "attribute"), Blank(2, "tag"), Blank(3, "effect"), Blank(4, "effect")>>
Rule(triggers, modifiers, bindings, stack) ==
    [Blank(5, "item") EXCEPT !.triggers = triggers, !.modifiers = modifiers, !.bindings = bindings, !.stack = stack]
Changes == {Change(o, 1, v) : o \in {"Add", "Multiply", "Override", "Max", "Min"}, v \in {0, 3}} \cup {Change("Pow", 1, 2), Change("Add", 2, 2)}
RuleEntities ==
    {Rule(<<>>, m, <<>>, <<>>) : m \in UNION {[1..n -> Changes] : n \in 0..2}}
    \cup {Rule(<<>>, [i \in 1..12 |-> Change("Override", 1, i % n)], <<>>, <<>>) : n \in {3, 10}}   \* block 10 before block 2
    \cup {Rule(t, <<Change("Add", 1, 2)>>, <<[output |-> 1]>>, s) :
            t \in UNION {[1..n -> {OnHit("self", 0, <<3>>), OnHit("targets_with_tag", 2, <<3, 4>>), OnHit("all_targets", 0, <<4>>),
                                   OnHit("targets_with_tag", 3, <<3>>), [OnHit("self", 0, <<3>>) EXCEPT !.event = "on_end"],
                                   [OnHit("self", 0, <<3>>) EXCEPT !.condition = "x"], OnHit("source", 0, <<1>>)}] : n \in 0..2},
            s \in {<<>>, <<[op |-> "Add", refresh |-> "ignore", maxStacks |-> 2]>>, <<[op |-> "Add", refresh |-> "none", maxStacks |-> 2]>>}}
RuleInputs ==
    {[entities |-> Append(Base, e), certified |-> c,
      formulas |-> <<Compiled(1, {[scope |-> "self", symbol |-> 1]})>>] : e \in RuleEntities, c \in {TRUE}}
    \cup {[entities |-> es, certified |-> c, formulas |-> f] :
            es \in {<<Rule(<<>>, <<Change("Add", 1, 2)>>, <<[output |-> 1]>>, <<>>)>> \o Base,
                    <<[Base[1] EXCEPT !.status = "archived"]>> \o Tail(Base) \o <<Rule(<<>>, <<>>, <<[output |-> 1]>>, <<>>)>>,
                    Base \o Base},
            c \in BOOLEAN, f \in {<<>>, <<Compiled(1, {})>>, <<Compiled(2, {})>>, <<Compiled(1, {}), Compiled(1, {})>>}}
Being(values, tags) == [attributes |-> values, tags |-> tags]
Contexts1 == {[self |-> 1, source |-> 2, target |-> 2, entities |-> <<Being(<<v>>, {}), Being(<<>>, {2}), Being(<<1>>, {2})>>] : v \in {0, 7}}

Act(id, at, source) == [id |-> id, at |-> at, source |-> source, target |-> 1, kind |-> "hit", input |-> 1]
Scene(acts, duration, events, steps) ==
    [participants |-> <<1, 2>>, actions |-> acts, duration |-> duration, maxEvents |-> events, maxSteps |-> steps,
     parameters |-> {[action |-> "a", minimum |-> 1, maximum |-> 2]}]
Previews ==
    {[scene |-> Scene(a, 2, b[1], b[2]), overlays |-> <<>>, exists |-> {1, 2, 3}, samples |-> n] :
       a \in {<<Act("a", 0, 1), Act("b", 1, 2)>>, <<Act("a", 2, 2), Act("b", 0, 1)>>, <<Act("a", 1, 2), Act("b", 1, 1)>>, <<>>},
       b \in {<<3, 4>>, <<4, 3>>}, n \in {1}}
    \cup {[scene |-> Scene(<<Act("a", 0, 1)>>, 1, 2, 2), overlays |-> o, exists |-> e, samples |-> 2] :
            o \in {<<>>, <<[action |-> "a", value |-> 2]>>, <<[action |-> "a", value |-> 3]>>, <<[action |-> "b", value |-> 1]>>},
            e \in {{1}, {1, 2}}}
    \cup {[scene |-> Scene(<<Act("a", 3, 1)>>, 2, 2, 2), overlays |-> <<>>, exists |-> {1, 2}, samples |-> 1]}
Sample(ordinal, status, value) == [ordinal |-> ordinal, status |-> status, value |-> value]
Samples == {Sample(o, "succeeded", <<v>>) : o \in 0..2, v \in {-1, 2, 5}} \cup {Sample(1, "failed", <<2>>), Sample(0, "succeeded", <<>>)}

Link(from, to) == [from |-> from, to |-> to, type |-> IF from = 1 THEN "entity_has_tag" ELSE "character_has_skill"]
Links == {Link(i, j) : <<i, j>> \in {p \in (1..3) \X (1..3) : p[1] # p[2]}}
Snapshot(version, hash, edges) == [version |-> version, hash |-> hash, nodes |-> 1..3, edges |-> edges]
ImpactOf(direction, types, depth) ==
    [base |-> 1, target |-> 2, hash |-> 1, direction |-> direction, edgeTypes |-> types, maxDepth |-> depth,
     maxNodes |-> 0, maxPaths |-> 0, seeds |-> 0, results |-> 0, suspectedDepth |-> 0]
Impacts ==
    {[input |-> ImpactOf(d, t, k), graph |-> Snapshot(2, 1, edges), changes |-> {[id |-> 1, change |-> "MODIFY"], [id |-> 1, change |-> "ADD"]},
      entities |-> {[id |-> 1, kind |-> "tag", status |-> "active"]}] :
       d \in {"incoming", "both"}, t \in {{}}, k \in {1, 2}, edges \in SUBSET Links}
    \cup {[input |-> i, graph |-> Snapshot(2, 1, Links), changes |-> {[id |-> 1, change |-> "DELETE"], [id |-> 2, change |-> "MOVE"]},
           entities |-> {[id |-> 2, kind |-> "tag", status |-> s]}] :
            s \in {"active", "archived"},
            i \in {ImpactOf("", {"entity_has_tag"}, 0), ImpactOf("outgoing", {"entity_has_tag"}, 2), ImpactOf("outgoing", {"unknown"}, 2),
                   ImpactOf("outgoing", {}, 7), [ImpactOf("both", {}, 2) EXCEPT !.base = 2], [ImpactOf("both", {}, 2) EXCEPT !.seeds = 101]}}
Replacements == {Snapshot(2, 2, {Link(1, 2), Link(2, 3)}), Snapshot(3, 1, {Link(3, 1), Link(2, 1)}), Snapshot(2, 2, {})}

Thing(id, kind, status) == [id |-> id, kind |-> kind, status |-> status, text |-> 1]
Reference(source, target, kind, path) == [source |-> source, target |-> target, kind |-> kind, path |-> path, ordinal |-> 0]
References == <<Reference(1, 2, "skill", <<"payload", "skill_ids", "0">>), Reference(1, 3, "tag", <<"tag_ids", "0">>),
                Reference(2, 3, "tag", <<"tag_ids", "1">>), Reference(2, 1, "attribute", <<"payload", "x", "0", "expression">>)>>
Revisions(config) ==
    {[entities |-> <<Thing(1, "character", s[1]), Thing(2, "skill", s[2]), Thing(3, "tag", s[3])>>, config |-> config,
      references |-> SelectSeq(References, LAMBDA r : r \in chosen)] :
       s \in [1..3 -> {"active", "archived"}], chosen \in SUBSET ToSet(References)}
Pairs == {p \in Revisions(1) \X (Revisions(1) \cup Revisions(2)) :
            p[1].entities[1].status = "active" /\ (p[2].config = 2 => p[1] = [p[2] EXCEPT !.config = 1])}
         \cup {<<r, [r EXCEPT !.entities = Append(@, Thing(1, "tag", "active"))]>> : r \in {CHOOSE r \in Revisions(1) : TRUE}}

Needs == [1..3 -> {{}, {TRUE}, {FALSE}}]
Describe(id, needs, valid) ==
    [id |-> id, version |-> 1, valid |-> valid,
     prerequisites |-> UNION {{[id |-> x, required |-> r] : r \in needs[x]} : x \in DOMAIN needs}]
Descriptions ==
    {<<Describe(1, a, TRUE), Describe(2, b, TRUE), Describe(3, c, TRUE)>> : a, b, c \in Needs}
    \cup {<<Describe(1, a, v), Describe(i, [x \in {2, 9} |-> {TRUE}], TRUE)>> : a \in Needs, v \in BOOLEAN, i \in 1..2}
    \cup {<<Describe(1, a, TRUE), [Describe(1, a, TRUE) EXCEPT !.version = 2]>> : a \in Needs}
Observed == UNION {[ids -> [state : {"available", "degraded", "unavailable"}, generation : {1}]] : ids \in {1..3, {1, 3}}}

Healthy ==
    [service |-> TRUE, schema |-> TRUE, api |-> TRUE, snapshots |-> TRUE, status |-> "ok", http |-> 200, fixed |-> TRUE,
     capabilities |-> [n \in {"snapshot_lifecycle", "task_polling"} |-> "available"],
     dependencies |-> [n \in {"sqlite", "graph_migrations", "core_graph_query", "bm25", "vector", "rerank"} |-> "available"],
     duplicates |-> FALSE, rebuilds |-> 1]
AIConfigured == [enabled |-> TRUE, endpoint |-> "accepted", model |-> TRUE, credential |-> "env",
                 probe |-> <<[model |-> TRUE, structured |-> TRUE, tools |-> TRUE, streaming |-> TRUE]>>]
GateRegistry == [g \in {"validation"} |-> [contract |-> 1, implementation |-> 1]]
Situation(health) == [health |-> health, known |-> TRUE, backup |-> TRUE, ai |-> AIConfigured, registry |-> GateRegistry,
                      policy |-> {[gate |-> "validation", contract |-> 1, implementation |-> 0]}, configured |-> TRUE]
States3 == {"available", "degraded", "unavailable"}
Situations ==
    {Situation([Healthy EXCEPT !.dependencies = [n \in {"bm25", "vector", "rerank"} |-> d[n]] @@ @]) :
       d \in [{"bm25", "vector", "rerank"} -> States3 \cup {"disabled"}]}
    \cup {Situation(h) : h \in {[Healthy EXCEPT !.status = "degraded", !.http = 503], [Healthy EXCEPT !.service = FALSE],
                                [Healthy EXCEPT !.fixed = FALSE], [Healthy EXCEPT !.duplicates = TRUE],
                                [Healthy EXCEPT !.capabilities = <<>>], [Healthy EXCEPT !.dependencies["sqlite"] = "unavailable"]}}
    \cup {[Situation(Healthy) EXCEPT !.ai = a] :
            a \in {[AIConfigured EXCEPT !.enabled = FALSE], [AIConfigured EXCEPT !.credential = "failed"], [AIConfigured EXCEPT !.credential = "none"],
                   [AIConfigured EXCEPT !.endpoint = "refused"], [AIConfigured EXCEPT !.probe = <<>>],
                   [AIConfigured EXCEPT !.probe[1].streaming = FALSE], [AIConfigured EXCEPT !.probe[1].tools = FALSE]}}
    \cup {[Situation(Healthy) EXCEPT !.known = FALSE], [Situation(Healthy) EXCEPT !.backup = FALSE],
          [Situation(Healthy) EXCEPT !.registry["validation"].contract = 2],
          [Situation(Healthy) EXCEPT !.policy = {[gate |-> "graph", contract |-> 1, implementation |-> 1]}]}

T == INSTANCE Evaluations WITH
       RuleSources <- RuleInputs, RuleContexts <- Contexts1, Registrations <- {{3}, {3, 4}},
       PreviewInputs <- Previews,
       Emissions <- {<<>>, <<[delay |-> 1, priority |-> 0]>>, <<[delay |-> 0, priority |-> -1], [delay |-> 2, priority |-> 1]>>,
                     <<[delay |-> -1, priority |-> 0]>>},
       SampleLists <- {[samples |-> s, expected |-> n] : s \in UNION {[1..k -> Samples] : k \in 0..3}, n \in 0..3},
       ImpactInputs <- Impacts, OtherGraphs <- Replacements, RevisionPairs <- Pairs,
       DescriptorLists <- Descriptions, ObservationSets <- Observed, HealthInputs <- Situations, MaxValue <- 9

-------------------------------------------------------------------------------
(* Packages.                                                               *)

Rel(name, class) == [name |-> name, class |-> class]
Regular(content) == [type |-> "regular", content |-> content]
Tree(files) == [root |-> "directory", files |-> files]
Only(name, class, content) == Tree([n \in {Rel(name, class)} |-> Regular(content)])
Shipped == [r \in {Rel(1, "plain"), Rel(2, "plain")} |-> Regular(IF r.name = 1 THEN "serve" ELSE "data")]
Source(kind, entry, tree) == [kind |-> kind, formed |-> TRUE, version |-> "v1", entry |-> entry, tree |-> tree]
Sources == <<Source("local-rag", <<Rel(1, "plain")>>, Tree(Shipped)),
             Source("python-runtime", <<Rel(1, "plain")>>, Only(1, "plain", "python")),
             Source("rerank-model", <<>>, Only(1, "weights", "rerank")),
             Source("embedding-model", <<>>, Only(1, "weights", "embedding"))>>
AssetOf(name, class) == [path |-> [dir |-> "api", name |-> name, class |-> class], formed |-> TRUE]
Inventory == {AssetOf(n, "plain") : n \in {"inventory", "script", "stylesheet"}}
Contract == [content |-> "contract", commit |-> "c", openapi |-> "api"]
Pins == [formed |-> TRUE, version |-> "v1", commit |-> "c", openapi |-> [content |-> "api", version |-> "1.0.0"], health |-> "health",
         fixtures |-> <<[id |-> 1, content |-> "fixture", version |-> "1"]>>]
Pinned == [pins |-> <<Pins>>, openapi |-> Pins.openapi, health |-> [content |-> "health", versions |-> {"v1"}],
           fixtures |-> <<[content |-> "fixture", version |-> "1", files |-> [n \in {"consumer-contract"} |-> "contract"]]>>,
           parts |-> [n \in {"consumer-contract"} |-> Contract]]
Complete ==
    [mode |-> "complete", formed |-> TRUE, identity |-> "b1", assets |-> Inventory, executable |-> Regular("exe"), components |-> Sources,
     ancillary |-> [defaults |-> Only(0, "plain", "complete"), licenses |-> Only(1, "plain", "l"), notices |-> Only(1, "plain", "n")],
     repository |-> <<Pinned>>]
Lightweight == [Complete EXCEPT !.mode = "lightweight", !.components = <<>>, !.repository = <<>>,
                                !.ancillary.defaults = Only(0, "plain", "lightweight")]
PackageRequests ==
    <<Complete, Lightweight,
     [Complete EXCEPT !.components[1].version = "v2"], [Complete EXCEPT !.components[2].version = "latest", !.repository = <<>>],
     [Complete EXCEPT !.components = SubSeq(@, 1, 3)], [Complete EXCEPT !.components[2].entry = <<Rel(9, "plain")>>],
     [Complete EXCEPT !.components[3].tree.files[Rel(1, "weights")].type = "symlink"],
     [Complete EXCEPT !.components[2].tree = Only(1, "weights", "python")], [Complete EXCEPT !.assets = @ \ {AssetOf("script", "plain")}],
     [Complete EXCEPT !.ancillary.licenses = Tree(<<>>)], [Complete EXCEPT !.ancillary.defaults = Only(0, "plain", "lightweight")],
     [Lightweight EXCEPT !.executable.type = "symlink"], [Lightweight EXCEPT !.ancillary.notices = Only(1, "forbidden", "n")]>>
    \o LET repositories == <<[Pinned EXCEPT !.health.versions = {"v1", "v2"}], [Pinned EXCEPT !.openapi.content = "changed"],
                    [Pinned EXCEPT !.pins = <<>>], [Pinned EXCEPT !.parts["consumer-contract"].openapi = "changed"],
                    [Pinned EXCEPT !.pins[1].fixtures = <<@[1], @[1]>>],
                    [Pinned EXCEPT !.pins[1].version = "v2", !.health.versions = {"v2"}]>>
       IN [i \in DOMAIN repositories |-> [Complete EXCEPT !.repository = <<repositories[i]>>]]

FileOf(dir, name, class, content) == [path |-> [dir |-> dir, name |-> name, class |-> class], content |-> content, formed |-> TRUE]
FoundManifest ==
    [schema |-> 1, mode |-> "complete", platform |-> "windows/amd64", assets |-> Inventory, absent |-> FALSE,
     identity |-> [build |-> "b1", executable |-> [dir |-> "", name |-> 0, class |-> "plain"], content |-> "exe", formed |-> TRUE],
     components |-> <<[kind |-> "local-rag", formed |-> TRUE, entry |-> <<FileOf("local-rag", 1, "plain", "serve").path>>,
                       files |-> <<FileOf("local-rag", 1, "plain", "serve")>>],
                      [kind |-> "python-runtime", formed |-> TRUE, entry |-> <<FileOf("python", 1, "plain", "python").path>>,
                       files |-> <<FileOf("python", 1, "plain", "python")>>],
                      [kind |-> "embedding-model", formed |-> TRUE, entry |-> <<>>, files |-> <<FileOf("elsewhere", 1, "weights", "m")>>],
                      [kind |-> "rerank-model", formed |-> TRUE, entry |-> <<>>, files |-> <<FileOf("models/rerank", 1, "weights", "m")>>]>>]
OnDisk(m) ==
    LET named == {[path |-> m.identity.executable, content |-> m.identity.content]}
                 \cup UNION {{[path |-> f.path, content |-> f.content] : f \in ToSet(m.components[i].files)} : i \in DOMAIN m.components}
    IN [p \in {n.path : n \in named} |-> Regular((CHOOSE n \in named : n.path = p).content)]
FoundManifests ==
    {FoundManifest, [FoundManifest EXCEPT !.schema = 2], [FoundManifest EXCEPT !.mode = "other"], [FoundManifest EXCEPT !.mode = "lightweight"],
     [FoundManifest EXCEPT !.platform = "linux/amd64"], [FoundManifest EXCEPT !.identity.executable.dir = "escape"],
     [FoundManifest EXCEPT !.identity.formed = FALSE], [FoundManifest EXCEPT !.identity.build = "b2"], [FoundManifest EXCEPT !.assets = {}],
     [FoundManifest EXCEPT !.assets = {[AssetOf(n, "plain") EXCEPT !.formed = FALSE, !.path.dir = IF n = "script" THEN "escape" ELSE "api"] :
                                         n \in {"script", "inventory"}}],
     [FoundManifest EXCEPT !.assets = @ \cup {AssetOf("more", "plain")}],
     [FoundManifest EXCEPT !.components = <<>>, !.absent = TRUE], [FoundManifest EXCEPT !.components = SubSeq(@, 1, 3)],
     [FoundManifest EXCEPT !.components = SubSeq(@, 1, 3), !.identity.build = "b2"],
     [FoundManifest EXCEPT !.components = Append(@, @[1])], [FoundManifest EXCEPT !.components[2].kind = "other"],
     [FoundManifest EXCEPT !.components[2].files = <<>>], [FoundManifest EXCEPT !.components[2].entry = <<>>],
     [FoundManifest EXCEPT !.components[3].entry = <<@>>], [FoundManifest EXCEPT !.components[2].entry = FoundManifest.components[1].entry],
     [FoundManifest EXCEPT !.components[3].files = FoundManifest.components[1].files],
     [FoundManifest EXCEPT !.components[4].files[1].formed = FALSE], [FoundManifest EXCEPT !.components[4].files[1].path.dir = "escape"]}
K == INSTANCE Packages WITH
       Assemblers <- 1..2, Requests <- <<PackageRequests, <<Complete, Lightweight>>>>,
       Found <- {[manifest |-> [type |-> "regular", value |-> m], files |-> OnDisk(m)] : m \in FoundManifests}
                \cup {[manifest |-> [type |-> t, value |-> FoundManifest], files |-> OnDisk(FoundManifest)] :
                         t \in {"missing", "symlink", "directory", "unreadable"}},
       Builds <- {[mode |-> m, platform |-> "windows/amd64", identity |-> "b1", assets |-> Inventory, embedded |-> TRUE] :
                    m \in {"complete", "lightweight", "development"}}
                 \cup {[mode |-> "complete", platform |-> "windows/amd64", identity |-> "b1", assets |-> Inventory, embedded |-> FALSE]},
       Damages <- {[path |-> f.path, entry |-> [type |-> t, content |-> "x"]] :
                     f \in {FileOf("", 0, "plain", ""), FileOf("local-rag", 1, "plain", ""), FileOf("python", 1, "plain", ""),
                            FileOf("models/rerank", 1, "weights", "")},
                     t \in {"regular", "missing", "symlink", "directory"}},
       MaxDamages <- 1

-------------------------------------------------------------------------------
(* Status and log.                                                         *)

LogScene(files, sizes, events, faults, launches) ==
    [files |-> files, observers |-> {}, sizes |-> sizes, closes |-> FALSE, events |-> events,
     transitions |-> 0, faults |-> faults, launches |-> launches]
H == INSTANCE Diagnostics WITH
       MaxBytes <- 3, Capacity <- 1,
       Scenes <- {LogScene(3, {2}, 5, 2, 2), LogScene(1, {1, 2, 4}, 3, 1, 2),
                  [LogScene(2, {2}, 2, 1, 1) EXCEPT !.closes = TRUE],
                  [LogScene(2, {2}, 0, 0, 1) EXCEPT !.closes = TRUE, !.observers = {"status", "log"}, !.transitions = 1]}

-------------------------------------------------------------------------------
(* One scene at a time; the others rest.                                    *)

SettingsRest ==
    /\ settingsFile = <<>> /\ previousFile = <<>> /\ replacedFile = <<>> /\ settingsLock = "nobody"
    /\ temporaries = {} /\ writer = <<>> /\ server = <<>> /\ requestsLeft = 0 /\ crashesLeft = 0
RecoveryRests == jobRows = <<>> /\ scan = <<>> /\ changes = {} /\ stages = <<>> /\ shutdown = <<>>
LiveRests == actions = <<>> /\ callers = <<>> /\ aiCache = <<>> /\ observers = <<>> /\ ai = <<>> /\ stream = <<>>
PackagesRest == artifact = <<>> /\ published = <<>> /\ assemblers = <<>> /\ launch = <<>> /\ damages = 0
DiagnosticsRest ==
    logFiles = <<>> /\ logged = <<>> /\ logger = <<>> /\ emitters = <<>> /\ board = <<>> /\ closer = <<>> /\ bounds = <<>>
Resting == [topic |-> "none"]

settingsVars == <<settingsFile, previousFile, replacedFile, settingsLock, temporaries, writer, server, requestsLeft, crashesLeft>>
recoveryVars == <<jobRows, scan, changes, stages, shutdown>>
liveVars == <<actions, callers, aiCache, observers, ai, stream>>
packageVars == <<artifact, published, assemblers, launch, damages>>
diagnosticVars == <<logFiles, logged, logger, emitters, board, closer, bounds>>
allVars == <<settingsVars, recoveryVars, liveVars, packageVars, diagnosticVars, task, work>>

InSettings == writer # <<>>
InRecovery == scan # <<>>
InLive == stream # <<>>
InPackages == launch # <<>>
InDiagnostics == bounds # <<>>

ServicesInit ==
    \/ S!SettingsInit /\ RecoveryRests /\ LiveRests /\ PackagesRest /\ DiagnosticsRest /\ task = Resting /\ work = Resting
    \/ SettingsRest /\ R!RecoveryInit /\ LiveRests /\ PackagesRest /\ DiagnosticsRest /\ task = Resting /\ work = Resting
    \/ SettingsRest /\ RecoveryRests /\ L!LiveInit /\ PackagesRest /\ DiagnosticsRest /\ task = Resting /\ work = Resting
    \/ SettingsRest /\ RecoveryRests /\ LiveRests /\ K!PackageInit /\ DiagnosticsRest /\ task = Resting /\ work = Resting
    \/ SettingsRest /\ RecoveryRests /\ LiveRests /\ PackagesRest /\ H!DiagnosticInit /\ task = Resting /\ work = Resting
    \/ SettingsRest /\ RecoveryRests /\ LiveRests /\ PackagesRest /\ DiagnosticsRest /\ T!EvaluationInit /\ work = Resting
    \/ SettingsRest /\ RecoveryRests /\ LiveRests /\ PackagesRest /\ DiagnosticsRest /\ task = Resting /\ Init

ServicesNext ==
    \/ InSettings /\ S!SettingsNext /\ UNCHANGED <<recoveryVars, liveVars, packageVars, diagnosticVars, task, work>>
    \/ InRecovery /\ R!RecoveryNext /\ UNCHANGED <<settingsVars, liveVars, packageVars, diagnosticVars, task, work>>
    \/ InLive /\ L!LiveNext /\ UNCHANGED <<settingsVars, recoveryVars, packageVars, diagnosticVars, task, work>>
    \/ InPackages /\ K!PackageNext /\ UNCHANGED <<settingsVars, recoveryVars, liveVars, diagnosticVars, task, work>>
    \/ InDiagnostics /\ H!DiagnosticNext /\ UNCHANGED <<settingsVars, recoveryVars, liveVars, packageVars, task, work>>
    \/ T!EvaluationNext /\ UNCHANGED <<settingsVars, recoveryVars, liveVars, packageVars, diagnosticVars, work>>
    \/ Next /\ UNCHANGED <<settingsVars, recoveryVars, liveVars, packageVars, diagnosticVars, task>>

ServicesSpec == ServicesInit /\ [][ServicesNext]_allVars

\* The settings document survives failures, crashes, refused requests and launches
\* (Save, Update, ApplyLaunchOverrides).
SettingsAreKept == InSettings => S!SettingsAreKept

\* Recovery and shutdown keep to what they were told of the Jobs and to their order
\* (Recover, Prepare).
RecoveryIsOrdered == InRecovery => R!RecoveryIsOrdered

\* Requests that share state are served as if each had come alone (execute, Observe,
\* streamJobEvents), and what the process reports of itself is its latest state, the
\* log whole up to what is counted as lost (publishLatest, Emit, rotate, Close).
SharedRequestsAgree == (InLive => L!SharedRequestsAgree) /\ (InDiagnostics => H!DiagnosticsAreSound)

\* Rules, engine, metrics, impact, projection and capabilities say of their inputs
\* what holds (Build, RunWithCheckpoint, ReduceExpected, Traverse, PlanDelta, Evaluate),
\* and a package is accepted and run exactly as far as it is whole (LoadAndVerify).
EvaluationsAreExact == T!EvaluationsAreExact /\ (InPackages => K!PackagesAreSound)
=============================================================================
