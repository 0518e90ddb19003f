---------------------------- MODULE CandidateSearch ----------------------------
(***************************************************************************)
(* The grid search of the AI proposal preview (internal/ai/preview/search): *)
(* the dimensions of a request are normalized, their values are combined   *)
(* by an odometer, and every candidate is evaluated until the grid, the    *)
(* candidate budget, the time budget or the caller's patience ends.  The   *)
(* evaluator is external.  Entities, paths and values are numbers in the   *)
(* order that the code gives their texts; the hashes that seal records are  *)
(* the values they are computed from.                                      *)
(***************************************************************************)
EXTENDS Integers, Sequences, FiniteSets, SequencesExt, FiniteSetsExt

CONSTANTS
    SearchRequests,        \* [targets, dimensions, budget] of a Search
    Answers,               \* what the evaluator may return
    MaxSearchCandidates,   \* contract.V1MaxSearchCandidates
    MaxDimensions,         \* MaxDimensionsV1
    LargestValue           \* the largest decimal and the largest duration

VARIABLE search            \* one call of Search

-------------------------------------------------------------------------------
(* The request.                                                            *)

Refused == [ok |-> FALSE]

\* A target is [entity, valid, paths]; a path is [path, operations].
normalizeAllowedTargets(targets) ==
    LET sorted == SortSeq(targets, LAMBDA a, b : a.entity < b.entity) IN
    IF targets = <<>> \/ (\E i \in DOMAIN targets : ~targets[i].valid)
       \/ \E i \in 2..Len(sorted) : sorted[i].entity = sorted[i - 1].entity
    THEN Refused ELSE [ok |-> TRUE, targets |-> sorted]
allowedPath(targets, d) ==
    \E t \in ToSet(targets) : t.entity = d.entity /\
        \E p \in t.paths : p.path = d.path /\ "replace" \in p.operations

\* rangeValues: one value more than any budget allows is enough.  A sum of decimals
\* that is too large refuses the range, one of durations ends it.
Reaches(r, k) == r.min + k * r.step <= r.max
rangeValues(kind, r) ==
    LET last == CHOOSE k \in 0..MaxSearchCandidates :
                  /\ Reaches(r, k)
                  /\ k = MaxSearchCandidates \/ ~Reaches(r, k + 1)
    IN IF ~r.canonical \/ r.step <= 0 \/ r.min > r.max THEN Refused
       ELSE IF kind = "decimal" /\ r.min + (last + 1) * r.step > LargestValue THEN Refused
       ELSE [ok |-> TRUE, values |-> [i \in 1..(last + 1) |-> r.min + (i - 1) * r.step]]

\* dimensionValues: ascending, each once.
Ascending(values) == SetToSortSeq(ToSet(values), <)
dimensionValues(d) ==
    LET given == IF d.range = <<>> THEN [ok |-> d.canonical, values |-> d.values] ELSE rangeValues(d.kind, d.range[1])
    IN IF ~given.ok THEN Refused
       ELSE IF Cardinality(ToSet(given.values)) \notin 1..(MaxSearchCandidates + 1) THEN Refused
       ELSE [ok |-> TRUE, values |-> Ascending(given.values)]

ByEntityAndPath(a, b) == a.entity < b.entity \/ (a.entity = b.entity /\ a.path < b.path)
normalizeDimensions(dimensions, targets) ==
    LET sorted == SortSeq(dimensions, ByEntityAndPath)
        values == [i \in DOMAIN sorted |-> dimensionValues(sorted[i])]
    IN IF \/ Len(dimensions) \notin 1..MaxDimensions
          \/ \E i \in DOMAIN sorted :
                ~allowedPath(targets, sorted[i]) \/ ((sorted[i].values = <<>>) = (sorted[i].range = <<>>)) \/ ~values[i].ok
          \/ \E i \in 2..Len(sorted) : sorted[i].entity = sorted[i - 1].entity /\ sorted[i].path = sorted[i - 1].path
       THEN Refused
       ELSE [ok |-> TRUE, dimensions |-> [i \in DOMAIN sorted |->
                [entity |-> sorted[i].entity, path |-> sorted[i].path, kind |-> sorted[i].kind, values |-> values[i].values]]]

Normalized(request) ==
    LET targets == normalizeAllowedTargets(request.targets) IN
    IF request.budget \notin 1..MaxSearchCandidates \/ ~targets.ok THEN Refused
    ELSE normalizeDimensions(request.dimensions, targets.targets)

-------------------------------------------------------------------------------
(* The odometer and the evaluation.                                        *)

newIterator(dimensions) == [indexes |-> [i \in DOMAIN dimensions |-> 1], started |-> FALSE, done |-> FALSE]
\* Next: the last index that can still grow grows, those after it start again.
NextCandidate(it, dimensions) ==
    LET growing == {i \in DOMAIN dimensions : it.indexes[i] < Len(dimensions[i].values)} IN
    IF ~it.started THEN [it EXCEPT !.started = TRUE]
    ELSE IF growing = {} THEN [it EXCEPT !.indexes = [i \in DOMAIN dimensions |-> 1], !.done = TRUE]
    ELSE [it EXCEPT !.indexes = [i \in DOMAIN dimensions |->
             IF i < Max(growing) THEN it.indexes[i] ELSE IF i = Max(growing) THEN it.indexes[i] + 1 ELSE 1]]
Assignments(it, dimensions) == [i \in DOMAIN dimensions |-> dimensions[i].values[it.indexes[i]]]

\* normalizeEvaluation: an evaluation is [status, validation, simulation, objectives,
\* constraints], its objectives and constraints sequences of [id, formed].
Distinct(items) == \A i, j \in DOMAIN items : items[i].id = items[j].id => i = j
normalizeEvaluation(e) ==
    LET formed(items) == Distinct(items) /\ \A i \in DOMAIN items : items[i].formed
        sorted(items) == SortSeq(items, LAMBDA a, b : a.id < b.id)
    IN IF /\ e.validation /\ e.simulation = (e.status = "passed")
          /\ formed(e.objectives) /\ formed(e.constraints)
       THEN [ok |-> TRUE, value |-> [e EXCEPT !.objectives = sorted(@), !.constraints = sorted(@)]]
       ELSE Refused

failedRecord(ordinal, assignments, code) ==
    [ordinal |-> ordinal, assignments |-> assignments, evaluation |-> <<>>, error |-> code]
validStop(stop) ==
    stop \in {"completed", "candidate_budget_exhausted", "time_budget_exhausted", "canceled", "evaluator_error"}

\* ResultV1.Valid, for the parts that are not hashes.
Valid(result) ==
    /\ validStop(result.stop)
    /\ \A i \in DOMAIN result.records :
         LET r == result.records[i] IN
         /\ r.ordinal = i - 1
         /\ (r.evaluation = <<>>) = (r.error # "")
         /\ IF r.evaluation # <<>> THEN normalizeEvaluation(r.evaluation[1]) = [ok |-> TRUE, value |-> r.evaluation[1]]
            ELSE r.error \in {"SEARCH_TIME_BUDGET_EXHAUSTED", "SEARCH_CANCELED", "SEARCH_EVALUATOR_FAILED"}

-------------------------------------------------------------------------------
(* Search.                                                                 *)

SearchInit ==
    \E request \in SearchRequests :
        search = [pc |-> "begin", request |-> request, canceled |-> FALSE, expired |-> FALSE]

Begin ==
    /\ search.pc = "begin"
    /\ LET n == Normalized(search.request) IN
       search' = IF ~n.ok THEN [pc |-> "refused", request |-> search.request]
                 ELSE [pc |-> "next", request |-> search.request, canceled |-> search.canceled, expired |-> search.expired,
                       dimensions |-> n.dimensions, iterator |-> newIterator(n.dimensions), records |-> <<>>, stop |-> ""]

Running == search.pc \in {"begin", "next", "evaluate"}
\* The caller gives up; the time of the search is over.
Cancel == Running /\ ~search.canceled /\ search' = [search EXCEPT !.canceled = TRUE]
Expire == Running /\ search.pc # "begin" /\ ~search.expired /\ search' = [search EXCEPT !.expired = TRUE]
Over == search.canceled \/ search.expired
stopForContext == IF search.canceled THEN "canceled" ELSE "time_budget_exhausted"

Sealed(stop, records) == [search EXCEPT !.pc = "sealed", !.stop = stop, !.records = records]

\* The head of the loop: the next candidate, then the two budgets.
TakeCandidate ==
    /\ search.pc = "next"
    /\ LET it == NextCandidate(search.iterator, search.dimensions) IN
       search' = IF it.done THEN Sealed("completed", search.records)
                 ELSE IF Len(search.records) = search.request.budget THEN Sealed("candidate_budget_exhausted", search.records)
                 ELSE IF Over THEN Sealed(stopForContext, search.records)
                 ELSE [search EXCEPT !.pc = "evaluate", !.iterator = it]

\* EvaluateCandidate fails, or returns something that may be malformed; it may also
\* succeed although its context has ended.
EvaluateCandidate ==
    LET ordinal == Len(search.records)
        assignments == Assignments(search.iterator, search.dimensions)
        failed(code) == Append(search.records, failedRecord(ordinal, assignments, code))
    IN
    /\ search.pc = "evaluate"
    /\ \/ search' = IF ~Over THEN Sealed("evaluator_error", failed("SEARCH_EVALUATOR_FAILED"))
                    ELSE Sealed(stopForContext, failed(IF search.canceled THEN "SEARCH_CANCELED" ELSE "SEARCH_TIME_BUDGET_EXHAUSTED"))
       \/ \E e \in Answers :
            LET n == normalizeEvaluation(e) IN
            search' = IF ~n.ok THEN Sealed("evaluator_error", failed("SEARCH_EVALUATOR_FAILED"))
                      ELSE [search EXCEPT !.pc = "next", !.records = Append(@,
                              [ordinal |-> ordinal, assignments |-> assignments, evaluation |-> <<n.value>>, error |-> ""])]

SearchNext == Begin \/ Cancel \/ Expire \/ TakeCandidate \/ EvaluateCandidate

-------------------------------------------------------------------------------
(* Properties.                                                             *)

\* The values that a dimension names, and the grid of them all in the order of the
\* entities and paths.
Named(d) == IF d.range = <<>> THEN ToSet(d.values)
            ELSE {v \in d.range[1].min..d.range[1].max : (v - d.range[1].min) % d.range[1].step = 0}
InOrder(dimensions) == SortSeq(dimensions, ByEntityAndPath)
Grid(dimensions) ==
    LET d == InOrder(dimensions)
    IN {g \in [DOMAIN d -> UNION {Named(x) : x \in ToSet(d)}] : \A i \in DOMAIN d : g[i] \in Named(d[i])}
Before(a, b) == \E i \in DOMAIN a : a[i] < b[i] /\ \A j \in 1..(i - 1) : a[j] = b[j]

\* Search: the records are the first candidates of the grid in their order, each
\* once, whatever the order of the request; a search is "completed" exactly when the
\* whole grid was evaluated, also when a range was cut off, and stops for its budget
\* exactly when there is more of the grid; only the last record is without an
\* evaluation, and the sealed result is valid.
SearchIsExact ==
    search.pc = "sealed" =>
        LET grid == Grid(search.request.dimensions)
            records == search.records
            failures == {i \in DOMAIN records : records[i].error # ""}
        IN /\ \A i \in DOMAIN records :
                /\ records[i].assignments \in grid
                /\ Cardinality({g \in grid : Before(g, records[i].assignments)}) = i - 1
           /\ Valid(search)
           /\ (search.stop = "completed") = (failures = {} /\ Len(records) = Cardinality(grid))
           /\ search.stop = "candidate_budget_exhausted" =>
                Len(records) = search.request.budget /\ Cardinality(grid) > search.request.budget
           /\ failures \subseteq {Len(records)}
           /\ failures # {} => search.stop \in {"evaluator_error", "canceled", "time_budget_exhausted"}
           /\ search.stop = "canceled" => search.canceled
           /\ search.stop = "time_budget_exhausted" => search.expired /\ ~search.canceled
           /\ Normalized([search.request EXCEPT !.dimensions = Reverse(@), !.targets = Reverse(@)])
                = Normalized(search.request)
================================================================================
