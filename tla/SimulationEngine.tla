--------------------------- MODULE SimulationEngine ---------------------------
(***************************************************************************)
(* The pure parts of a simulation: the rule set built from a certified     *)
(* revision, the modifiers and triggers of its rules, the discrete event   *)
(* engine, the scenario and the reduction of samples to metrics.           *)
(***************************************************************************)
EXTENDS Integers, Sequences, FiniteSets, SequencesExt

CONSTANT MaxValue   \* bound: the largest decimal, beyond which arithmetic is out of range

Diagnostic(code) == [ok |-> FALSE, code |-> code]

-------------------------------------------------------------------------------
(* Rules.  An entity is [id, kind, status, bindings, triggers, modifiers,  *)
(* stack]; the blocks are sequences, and stack is << >> or <<rule>>.       *)

activeKind(all, id, kind) == \E e \in all : e.id = id /\ e.kind = kind /\ e.status = "active"

validEvent(event) == event \in {"on_use", "on_hit", "on_damage", "on_heal", "on_interval", "on_effect_applied"}
validOperation(op) == op \in {"Add", "Multiply", "Override", "Max", "Min"}
validRefresh(policy) == policy \in {"refresh", "replace", "ignore"}
validTarget(target, all) ==
    CASE target.type \in {"self", "source", "primary_target", "all_targets"} -> target.tag = 0
      [] target.type = "targets_with_tag" -> activeKind(all, target.tag, "tag")
      [] OTHER -> FALSE

\* The place of a rule: entity, field and the number of the block in the field.
Provenance(e, field, ordinal) == [entity |-> e.id, field |-> field, ordinal |-> ordinal]
FieldRank == [attribute_values |-> 1, modifiers |-> 2, rule_blocks |-> 3, stack_rule |-> 4]

\* The compiled formula of a block: none, another output or changed bytes refuse it.
Binding(e, i, all, formulas) ==
    LET block == e.bindings[i]
        records == {f \in ToSet(formulas) : f.source = e.id /\ f.ordinal = i - 1}
    IN IF ~activeKind(all, block.output, "attribute") THEN Diagnostic("REFERENCE_INVALID")
       ELSE IF records = {} THEN Diagnostic("ARTIFACT_MISSING")
       ELSE LET f == CHOOSE f \in records : TRUE IN
            IF f.output \notin {0, block.output} \/ ~f.intact THEN Diagnostic("ARTIFACT_INVALID")
            ELSE [ok |-> TRUE, at |-> Provenance(e, "attribute_values", i - 1),
                  output |-> block.output, reads |-> f.reads]
Trigger(e, i, all) ==
    LET block == e.triggers[i] IN
    IF ~(validEvent(block.event) /\ validTarget(block.target, all)) THEN Diagnostic("PAYLOAD_INVALID")
    ELSE IF ~(\A x \in ToSet(block.effects) : activeKind(all, x, "effect")) THEN Diagnostic("REFERENCE_INVALID")
    ELSE [ok |-> TRUE, at |-> Provenance(e, "rule_blocks", i - 1), event |-> block.event,
          condition |-> block.condition, target |-> block.target, effects |-> block.effects]
Modifier(e, i, all) ==
    LET block == e.modifiers[i] IN
    IF ~activeKind(all, block.attribute, "attribute") THEN Diagnostic("REFERENCE_INVALID")
    ELSE IF ~validOperation(block.op) THEN Diagnostic("PAYLOAD_INVALID")
    ELSE [ok |-> TRUE, at |-> Provenance(e, "modifiers", i - 1), attribute |-> block.attribute,
          op |-> block.op, value |-> block.value]
Stack(e) ==
    LET rule == e.stack[1] IN
    IF validOperation(rule.op) /\ validRefresh(rule.refresh) /\ rule.maxStacks >= 0
    THEN [ok |-> TRUE, at |-> Provenance(e, "stack_rule", 0), op |-> rule.op, maxStacks |-> rule.maxStacks]
    ELSE Diagnostic("PAYLOAD_INVALID")

\* less compares the field paths as text, so the number of a block by its digits.
Digits(n) == IF n < 10 THEN <<n>> ELSE <<n \div 10, n % 10>>
TextLess(s, t) ==
    \/ Len(s) < Len(t) /\ SubSeq(t, 1, Len(s)) = s
    \/ \E i \in 1..(IF Len(s) < Len(t) THEN Len(s) ELSE Len(t)) :
         s[i] < t[i] /\ SubSeq(s, 1, i - 1) = SubSeq(t, 1, i - 1)
less(a, b) ==
    IF a.entity # b.entity THEN a.entity < b.entity
    ELSE IF a.field # b.field THEN FieldRank[a.field] < FieldRank[b.field]
    ELSE TextLess(Digits(a.ordinal), Digits(b.ordinal))
sortRules(rules) ==
    [i \in 1..Cardinality(rules) |->
       CHOOSE r \in rules : Cardinality({s \in rules : less(s.at, r.at)}) = i - 1]

\* Build: any block that is not right refuses the whole set.
Build(source) ==
    LET all == ToSet(source.entities)
        bindings == UNION {{Binding(e, i, all, source.formulas) : i \in DOMAIN e.bindings} : e \in all}
        triggers == UNION {{Trigger(e, i, all) : i \in DOMAIN e.triggers} : e \in all}
        modifiers == UNION {{Modifier(e, i, all) : i \in DOMAIN e.modifiers} : e \in all}
        stacks == {Stack(e) : e \in {e \in all : e.stack # <<>>}}
        blocks == bindings \cup triggers \cup modifiers \cup stacks
    IN IF ~source.certified THEN Diagnostic("VALIDATION_REQUIRED")
       ELSE IF Cardinality({e.id : e \in all}) # Len(source.entities) THEN Diagnostic("PAYLOAD_INVALID")
       ELSE IF \E i, j \in DOMAIN source.formulas :
                 i # j /\ source.formulas[i].source = source.formulas[j].source
                       /\ source.formulas[i].ordinal = source.formulas[j].ordinal
            THEN Diagnostic("ARTIFACT_INVALID")
       ELSE IF \E b \in blocks : ~b.ok THEN CHOOSE b \in blocks : ~b.ok
       ELSE [ok |-> TRUE, bindings |-> sortRules(bindings), triggers |-> sortRules(triggers),
             modifiers |-> sortRules(modifiers), stacks |-> sortRules(stacks)]

-------------------------------------------------------------------------------
(* The typed adapter.  A context is [self, source, target, entities], with *)
(* entities a function from ids to [attributes, tags].                     *)

NewTypedRuleAdapter(rules, registrations) ==
    \A t \in ToSet(rules.triggers) : t.condition = "" /\ ToSet(t.effects) \subseteq registrations

runtimeSymbols(reads, context) ==
    \A r \in reads :
        LET id == CASE r.scope = "self" -> context.self [] r.scope = "source" -> context.source
                    [] r.scope = "target" -> context.target [] OTHER -> 0
        IN id \in DOMAIN context.entities /\ r.symbol \in DOMAIN context.entities[id].attributes

selectTargets(target, context) ==
    LET ids == DOMAIN context.entities
        inOrder(s) == SetToSortSeq(s, LAMBDA a, b : a < b)
    IN CASE target.type = "self" -> <<context.self>>
         [] target.type = "source" -> <<context.source>>
         [] target.type = "primary_target" -> <<context.target>>
         [] target.type = "all_targets" -> inOrder(ids)
         [] target.type = "targets_with_tag" -> inOrder({i \in ids : target.tag \in context.entities[i].tags})

TriggeredEffects(rules, context, event) ==
    LET invocations(t) ==
          LET targets == selectTargets(t.target, context)
          IN FlattenSeq([i \in DOMAIN targets |->
                           [j \in DOMAIN t.effects |-> [target |-> targets[i], effect |-> t.effects[j]]]])
        matching == SelectSeq(rules.triggers, LAMBDA t : t.event = event /\ t.condition = "")
    IN FlattenSeq([i \in DOMAIN matching |-> invocations(matching[i])])

applyModifier(op, current, value) ==
    CASE op = "Override" -> value
      [] op = "Add" -> current + value
      [] op = "Multiply" -> current * value
      [] op = "Max" -> IF value > current THEN value ELSE current
      [] op = "Min" -> IF value < current THEN value ELSE current
InRange(v) == v \in (0 - MaxValue)..MaxValue

\* ApplyModifiers works on the attributes as the modifiers before have left them.
ModifierStep(s, m) ==
    IF ~s.ok THEN s
    ELSE IF m.attribute \notin DOMAIN s.attributes THEN [s EXCEPT !.ok = FALSE]
    ELSE LET next == applyModifier(m.op, s.attributes[m.attribute], m.value)
         IN IF m.op \in {"Add", "Multiply"} /\ ~InRange(next) THEN [s EXCEPT !.ok = FALSE]
            ELSE [s EXCEPT !.attributes[m.attribute] = next]
ApplyModifiers(rules, attributes) ==
    FoldLeft(ModifierStep, [ok |-> TRUE, attributes |-> attributes], rules.modifiers)

-------------------------------------------------------------------------------
(* Scenarios.  A definition is [participants, actions, duration, budgets,  *)
(* parameters]; an action is [id, at, source, target, kind, input].        *)

ValidDefinition(d) ==
    /\ d.duration > 0 /\ d.participants # <<>> /\ d.maxEvents > 0 /\ d.maxSteps > 0
    /\ \A i, j \in DOMAIN d.participants : d.participants[i] = d.participants[j] => i = j
    /\ \A i, j \in DOMAIN d.actions : d.actions[i].id = d.actions[j].id => i = j
    /\ \A i \in DOMAIN d.actions :
         /\ d.actions[i].at \in 0..d.duration
         /\ {d.actions[i].source, d.actions[i].target} \subseteq ToSet(d.participants)

\* Clone: each overlay sets the input of one action through a declared parameter.
Overlay(d, o) ==
    LET declared == {p \in d.parameters : p.action = o.action} IN
    IF declared = {} \/ ~(\E i \in DOMAIN d.actions : d.actions[i].id = o.action) THEN <<>>
    ELSE LET p == CHOOSE p \in declared : TRUE IN
         IF o.value \notin p.minimum..p.maximum THEN <<>>
         ELSE <<[d EXCEPT !.actions =
                   [i \in DOMAIN @ |-> IF @[i].id = o.action THEN [@[i] EXCEPT !.input = o.value] ELSE @[i]]]>>
Clone(d, overlays, exists) ==
    LET set == FoldLeft(LAMBDA c, o : IF c = <<>> THEN c ELSE Overlay(c[1], o),
                        IF ValidDefinition(d) THEN <<d>> ELSE <<>>, overlays)
    IN IF \/ set = <<>> \/ \E i, j \in DOMAIN overlays : i # j /\ overlays[i].action = overlays[j].action
          \/ ~(ToSet(d.participants) \subseteq exists)
       THEN <<>> ELSE IF ValidDefinition(set[1]) THEN set ELSE <<>>

-------------------------------------------------------------------------------
(* The engine: a queue is a set of events [time, priority, source, ordinal,*)
(* kind].                                                                  *)

Key(e) == <<e.time, e.priority, e.source, e.ordinal>>
compare(a, b) == TextLess(Key(a), Key(b))

InitialEvents(d) ==
    {[time |-> d.actions[i].at, priority |-> 0, source |-> d.actions[i].source, ordinal |-> i - 1,
      kind |-> d.actions[i].kind] : i \in DOMAIN d.actions}

Enqueue(queue, e) ==
    IF \E q \in queue : Key(q) = Key(e) THEN [ok |-> FALSE, queue |-> queue]
    ELSE [ok |-> TRUE, queue |-> queue \cup {e}]
Least(queue) == CHOOSE e \in queue : \A q \in queue \ {e} : compare(e, q)

\* Schedule: the emitter numbers the events that an evaluator derives, and refuses
\* one that lies before the event that is evaluated.
Schedule(s, derived) ==
    IF ~s.ok \/ derived.time < s.now THEN [s EXCEPT !.ok = FALSE]
    ELSE LET q == Enqueue(s.queue, [derived EXCEPT !.ordinal = s.next])
         IN [s EXCEPT !.ok = q.ok, !.queue = q.queue, !.next = @ + 1]

\* One turn of RunWithCheckpoint; emits gives the events that the evaluator derives
\* from each queued one.
Turn(s, limits, emits) ==
    LET stop(error) == [s EXCEPT !.pc = "stopped", !.error = error] IN
    IF s.queue = {} THEN [s EXCEPT !.pc = "done"]
    ELSE LET e == Least(s.queue)
             rest == [s EXCEPT !.queue = @ \ {e}] IN
      IF e.time > limits.duration THEN [rest EXCEPT !.pc = "done", !.sceneEnd = TRUE]
      ELSE IF e.time < s.now THEN stop("PAST_EVENT")
      ELSE IF Len(s.executed) >= limits.maxEvents THEN stop("EVENT_BUDGET")
      ELSE IF Len(s.executed) >= limits.maxSteps THEN stop("STEP_BUDGET")
      ELSE LET derived == emits[e]
               after == FoldLeft(Schedule, [rest EXCEPT !.now = e.time], derived)
           IN IF ~after.ok THEN [stop("EVALUATOR") EXCEPT !.now = e.time]
              ELSE [after EXCEPT !.executed = Append(@, e)]

NewRun(d) ==
    [pc |-> "run", queue |-> InitialEvents(d), next |-> Len(d.actions), now |-> 0, executed |-> <<>>,
     ok |-> TRUE, sceneEnd |-> FALSE, error |-> "none"]

-------------------------------------------------------------------------------
(* Metrics.  A sample is [ordinal, status, value], value << >> when an     *)
(* observation that the metric requires is missing.                        *)

OrderedSamples(samples) == SortSeq(samples, LAMBDA a, b : a.ordinal < b.ordinal)
Accepted(samples, expected) ==
    LET ordered == OrderedSamples(samples) IN
    /\ expected > 0 /\ Len(samples) = expected
    /\ \A i \in DOMAIN ordered : ordered[i].status = "succeeded" /\ ordered[i].ordinal = i - 1
\* reduceModule: one missing value makes the metric unavailable.
ReduceStep(a, s) ==
    IF s.value = <<>> THEN [a EXCEPT !.missing = TRUE]
    ELSE [a EXCEPT !.total = @ + s.value[1], !.some = TRUE,
                   !.low = IF a.some /\ @ <= s.value[1] THEN @ ELSE s.value[1],
                   !.high = IF a.some /\ @ >= s.value[1] THEN @ ELSE s.value[1]]
ReduceExpected(samples, expected) ==
    LET start == [total |-> 0, some |-> FALSE, missing |-> FALSE, low |-> 0, high |-> 0]
        all == FoldLeft(ReduceStep, start, OrderedSamples(samples))
    IN IF ~Accepted(samples, expected) THEN [status |-> "refused"]
       ELSE IF all.missing \/ ~all.some THEN [status |-> "unavailable", count |-> Len(samples)]
       ELSE [status |-> "available", count |-> Len(samples), total |-> all.total, low |-> all.low, high |-> all.high]
=============================================================================
