------------------------------ MODULE VersionDiff ------------------------------
(***************************************************************************)
(* The comparison of two immutable revision manifests (versioning/diff)    *)
(* and the paged readers over them.  A manifest maps entity ids to         *)
(* entities; an entity is a kind, one plain field and one array of         *)
(* elements [key, val], which stands for an array under a path of          *)
(* declaredArrayIdentity or, when keyed is FALSE, for any other array.     *)
(* A change is a record of what a FieldChange says; the order in which     *)
(* changes are listed is presentation.                                     *)
(***************************************************************************)
EXTENDS Naturals, Sequences, FiniteSets, SequencesExt

\* arrayTokens: the declared key when every element has its own, otherwise the
\* content and its occurrence among the elements before it.
KeysUnique(a) == \A i, j \in DOMAIN a : a[i].key = a[j].key => i = j

ArrayTokens(keyed, a) ==
    IF keyed /\ KeysUnique(a)
    THEN [i \in DOMAIN a |-> <<"key", a[i].key>>]
    ELSE [i \in DOMAIN a |->
            <<"hash", a[i], Cardinality({j \in 1..(i - 1) : a[j] = a[i]})>>]

\* The table of lcsPairs: length of the longest common subsequence of the tails.
LCSTable(s, t) ==
    LET dp[p \in (1..(Len(s) + 1)) \X (1..(Len(t) + 1))] ==
          LET i == p[1]  j == p[2] IN
          IF i > Len(s) \/ j > Len(t) THEN 0
          ELSE IF s[i] = t[j] THEN dp[<<i + 1, j + 1>>] + 1
          ELSE IF dp[<<i + 1, j>>] >= dp[<<i, j + 1>>] THEN dp[<<i + 1, j>>]
          ELSE dp[<<i, j + 1>>]
    IN dp

\* The walk of lcsPairs through the table.
LCSPairs(s, t) ==
    LET dp == LCSTable(s, t)
        walk[p \in (1..(Len(s) + 1)) \X (1..(Len(t) + 1))] ==
          LET i == p[1]  j == p[2] IN
          IF i > Len(s) \/ j > Len(t) THEN {}
          ELSE IF s[i] = t[j] THEN {p} \cup walk[<<i + 1, j + 1>>]
          ELSE IF dp[<<i + 1, j>>] >= dp[<<i, j + 1>>] THEN walk[<<i + 1, j>>]
          ELSE walk[<<i, j + 1>>]
    IN walk[<<1, 1>>]

Unmoved(s, t) == {p[1] : p \in LCSPairs(s, t)}

\* compareArray; the value of a keyed element is compared like any other value.
CompareArray(keyed, old, new) ==
    LET s == ArrayTokens(keyed, old)
        t == ArrayTokens(keyed, new)
        both == {p \in (DOMAIN s) \X (DOMAIN t) : s[p[1]] = t[p[2]]}
        kept == Unmoved(s, t)
    IN {[op |-> "DELETE", at |-> i, was |-> old[i]] :
          i \in {i \in DOMAIN s : \A j \in DOMAIN t : s[i] # t[j]}}
       \cup {[op |-> "ADD", at |-> j, new |-> new[j]] :
          j \in {j \in DOMAIN t : \A i \in DOMAIN s : s[i] # t[j]}}
       \cup {[op |-> "MOVE", at |-> p[2], from |-> p[1]] :
          p \in {p \in both : p[1] \notin kept}}
       \cup {[op |-> "MODIFY", at |-> p[2], was |-> old[p[1]].val, new |-> new[p[2]].val] :
          p \in {p \in both : old[p[1]].val # new[p[2]].val}}

\* compareEntityIDs and compareValue for one stable identity; <<>> is no entity.
CompareEntity(id, base, target) ==
    IF base = target THEN {}
    ELSE IF base = <<>> THEN {[id |-> id, op |-> "ADD", new |-> target]}
    ELSE IF target = <<>> THEN {[id |-> id, op |-> "DELETE", was |-> base]}
    ELSE (IF base.field # target.field
          THEN {[id |-> id, op |-> "MODIFY", was |-> base.field, new |-> target.field]}
          ELSE {})
         \cup {[id |-> id, op |-> "ARRAY", change |-> c] :
                 c \in CompareArray(base.keyed, base.array, target.array)}

IdsOf(m) == {id \in DOMAIN m : m[id] # <<>>}

\* An entity that changes its kind is refused: its array would be another one.
SameKind(base, target, ids) ==
    \A id \in ids : base[id] # <<>> /\ target[id] # <<>> => base[id].keyed = target[id].keyed

Compare(base, target) ==
    UNION {CompareEntity(id, base[id], target[id]) :
             id \in IdsOf(base) \cup IdsOf(target)}

\* Store.MaterializeSegment: the first n entities after the cursor, in id order.
Segment(ids, after, n) ==
    LET rest == SetToSortSeq({id \in ids : id > after}, <)
    IN {rest[i] : i \in {i \in DOMAIN rest : i <= n}}

\* CompareRevisionSegment reads one entity more than it compares, to know whether
\* another segment follows.
ReadLimitOf(limit) == limit
ReadLimit(limit) == limit + 1

CompareRevisionSegment(base, target, after, limit) ==
    LET read == Segment(IdsOf(base), after, ReadLimit(limit))
                \cup Segment(IdsOf(target), after, ReadLimit(limit))
        ids  == Segment(read, after, limit)
        more == Cardinality(read) > limit
    IN IF ~SameKind(base, target, ids) THEN [refused |-> TRUE, changes |-> {}, cursor |-> 0]
       ELSE
       [refused |-> FALSE,
        changes |-> UNION {CompareEntity(id, base[id], target[id]) : id \in ids},
        cursor |-> IF more THEN CHOOSE id \in ids : \A x \in ids : x <= id ELSE 0]

\* ListRevisionRecords: newest first, the cursor is the last item that was kept.
ListRevisionRecords(revisions, after, limit) ==
    LET rest == SetToSortSeq({r \in revisions : after = 0 \/ r < after}, >)
        page == SubSeq(rest, 1, IF Len(rest) > limit THEN limit ELSE Len(rest))
    IN [items |-> page, cursor |-> IF Len(rest) > limit THEN page[limit] ELSE 0]

\* patch.BuildDiff, canonicalChange: REMOVE takes out the one element it names.
CanonicalChange(op, original, value) ==
    LET at == {i \in DOMAIN original : original[i] = value} IN
    CASE op = "ADD" -> [ok |-> TRUE, value |-> Append(original, value)]
      [] op = "REMOVE" /\ Cardinality(at) = 1 ->
           [ok |-> TRUE, value |-> RemoveAt(original, CHOOSE i \in at : TRUE)]
      [] op = "REMOVE" /\ Cardinality(at) # 1 -> [ok |-> FALSE, code |-> "ARRAY_AMBIGUOUS"]
      [] op = "REPLACE" -> IF value = original THEN [ok |-> FALSE, code |-> "NO_CHANGE"]
                           ELSE [ok |-> TRUE, value |-> value]

-------------------------------------------------------------------------------
(***************************************************************************)
(* The reference: a change list is applied to the old array.  The added    *)
(* and the moved elements stand where their change says, the others keep   *)
(* their order in the places that are left.                                *)
(***************************************************************************)
ApplyArray(old, changes) ==
    LET of(op)  == {c \in changes : c.op = op}
        gone    == {c.at : c \in of("DELETE")} \cup {c.from : c \in of("MOVE")}
        stay    == SetToSortSeq((DOMAIN old) \ gone, <)
        size    == Len(stay) + Cardinality(of("ADD")) + Cardinality(of("MOVE"))
        fixed   == {c.at : c \in of("ADD") \cup of("MOVE")}
        free    == SetToSortSeq((1..size) \ fixed, <)
        source(j) == IF \E c \in of("ADD") : c.at = j
                     THEN (CHOOSE c \in of("ADD") : c.at = j).new
                     ELSE IF \E c \in of("MOVE") : c.at = j
                     THEN old[(CHOOSE c \in of("MOVE") : c.at = j).from]
                     ELSE old[stay[CHOOSE k \in DOMAIN free : free[k] = j]]
        value(j) == IF \E c \in of("MODIFY") : c.at = j
                    THEN [source(j) EXCEPT !.val = (CHOOSE c \in of("MODIFY") : c.at = j).new]
                    ELSE source(j)
    IN [j \in 1..size |-> value(j)]

ApplyEntity(base, changes) ==
    IF \E c \in changes : c.op = "ADD" THEN (CHOOSE c \in changes : c.op = "ADD").new
    ELSE IF \E c \in changes : c.op = "DELETE" THEN <<>>
    ELSE IF base = <<>> THEN base
    ELSE [base EXCEPT !.field = IF \E c \in changes : c.op = "MODIFY"
                                THEN (CHOOSE c \in changes : c.op = "MODIFY").new ELSE @,
                      !.array = ApplyArray(@, {c.change : c \in {c \in changes : c.op = "ARRAY"}})]

Apply(base, changes) ==
    [id \in DOMAIN base |-> ApplyEntity(base[id], {c \in changes : c.id = id})]
=============================================================================
