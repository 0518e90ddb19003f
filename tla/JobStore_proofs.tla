--------------------------- MODULE JobStore_proofs ---------------------------
(***************************************************************************)
(* Proofs about the shared Job repository, for every set of Jobs, callers, *)
(* keys, hashes and kinds; and, in the sections after it, about what the   *)
(* runtime does with Jobs at a restart and at a shutdown, and about the    *)
(* machine settings.                                                       *)
(***************************************************************************)
EXTENDS JobStore, RecoveryRegistry, SettingsStore, FiniteSetTheorems, FunctionTheorems, TLAPS

(* RequestCancellation consults the publication boundary of backups only,  *)
(* so PublicationNotCanceled needs this: only backups cross it.            *)
PublishingIsBackup == \A j \in publishing : Exists(j) /\ request[j].kind = "backup"

(* Append compares a new event with the newest one, so EventsOrdered needs *)
(* that there is a newest one as soon as there is any.                     *)
NewestExists ==
    \A j \in Jobs : events[j] # {} => \E f \in events[j] : \A g \in events[j] : g.ordinal <= f.ordinal

(* The inductive invariant.                                                *)
IInv ==
    /\ TypeOK
    /\ SuccessExcludesCancel
    /\ OneJobPerKey
    /\ PublishingIsBackup
    /\ PublicationNotCanceled
    /\ NewestExists
    /\ EventsOrdered

USE DEF Exists, jobVars

(* The bounds of an event's fields.                                        *)
LEMMA EventTypes ==
    \A e \in Events : e.ordinal \in 0 .. MaxOrdinal /\ e.progress \in 0 .. 100
<1> TAKE e \in Events
<1>1. e.ordinal \in 1 .. MaxOrdinal /\ e.progress \in ProgressSteps
  BY DEF Events
<1>2. \A n \in 1 .. MaxOrdinal : n \in 0 .. MaxOrdinal
  BY JobStoreAssumption
<1>3. \A n \in ProgressSteps : n \in 0 .. 100
  BY JobStoreAssumption
<1> QED BY <1>1, <1>2, <1>3

(* The repository's variables keep their types in every step.              *)
LEMMA TypeInductive == TypeOK /\ [Next]_vars => TypeOK'
<1> SUFFICES ASSUME TypeOK, [Next]_vars PROVE TypeOK'
  OBVIOUS
<1> USE JobStoreAssumption DEF TypeOK
<1>1. CASE UNCHANGED vars
  BY <1>1 DEF vars
<1>2. ASSUME NEW c \in Callers, NEW r \in Requests, CreateOrGet(c, r) PROVE TypeOK'
  <2>1. ASSUME NEW j \in ByKey(r.key), Observe(c, j, cancelGen[j]),
               UNCHANGED <<jobVars, publishing, events, pos>>
        PROVE  TypeOK'
    BY <2>1 DEF Observe, ByKey
  <2>2. ASSUME NEW j \in Jobs, Observe(c, j, 0),
               status' = [status EXCEPT ![j] = "queued"],
               request' = [request EXCEPT ![j] = r],
               UNCHANGED <<result, cancelGen, publishing, events, pos>>
        PROVE  TypeOK'
    <3>1. status' \in [Jobs -> Status \cup {"absent"}]
      BY <2>2 DEF Status
    <3>2. request' \in [Jobs -> Requests \cup {NoRequest}]
      BY <2>2
    <3>3. seen' \in [Callers -> [jobs : SUBSET Jobs, gen : Nat]]
      BY <2>2 DEF Observe
    <3>4. \A k \in Jobs : Exists(k)' => request'[k] \in Requests
      BY <2>2
    <3>5. \A d \in Callers : \A k \in seen'[d].jobs : Exists(k)'
      BY <2>2 DEF Observe
    <3> QED BY <2>2, <3>1, <3>2, <3>3, <3>4, <3>5
  <2> QED BY <1>2, <2>1, <2>2 DEF CreateOrGet
<1>3. ASSUME NEW c \in Callers, NEW j \in Jobs, GetJob(c, j) PROVE TypeOK'
  BY <1>3 DEF GetJob, Observe
<1>4. ASSUME NEW c \in Callers, NEW expected \in Status, NEW next \in Status,
             NEW res \in Results \cup {NoResult}, Transition(c, expected, next, res)
      PROVE TypeOK'
  BY <1>4 DEF Transition, Status
<1>5. ASSUME NEW c \in Callers, NEW j \in Jobs, RequestCancellation(c, j) PROVE TypeOK'
  BY <1>5 DEF RequestCancellation, Observe
<1>6. ASSUME NEW c \in Callers, BeginBackupPublication(c) PROVE TypeOK'
  BY <1>6 DEF BeginBackupPublication
<1>7. ASSUME NEW c \in Callers, ListEvents(c) PROVE TypeOK'
  <2>1. PICK j \in seen[c].jobs :
          /\ \/ pos' = [pos EXCEPT ![c] = [ordinal |-> 0, progress |-> 0]]
             \/ \E e \in events[j] :
                   pos' = [pos EXCEPT ![c] = [ordinal |-> e.ordinal, progress |-> e.progress]]
          /\ UNCHANGED <<jobVars, publishing, events, seen>>
    BY <1>7 DEF ListEvents
  <2>2. \A e \in events[j] : e.ordinal \in 0 .. MaxOrdinal /\ e.progress \in 0 .. 100
    BY <2>1, EventTypes
  <2>3. pos' \in [Callers -> [ordinal : 0 .. MaxOrdinal, progress : 0 .. 100]]
    <3>1. CASE pos' = [pos EXCEPT ![c] = [ordinal |-> 0, progress |-> 0]]
      BY <3>1
    <3>2. ASSUME NEW e \in events[j],
                 pos' = [pos EXCEPT ![c] = [ordinal |-> e.ordinal, progress |-> e.progress]]
          PROVE  pos' \in [Callers -> [ordinal : 0 .. MaxOrdinal, progress : 0 .. 100]]
      BY <2>2, <3>2
    <3> QED BY <2>1, <3>1, <3>2
  <2> QED BY <2>1, <2>3
<1>8. ASSUME NEW c \in Callers, NEW p \in ProgressSteps, AppendEvent(c, p) PROVE TypeOK'
  <2> DEFINE e == [ordinal |-> pos[c].ordinal + 1, progress |-> p, by |-> c]
  <2>1. PICK j \in seen[c].jobs :
          /\ pos[c].ordinal < MaxOrdinal
          /\ events' = [events EXCEPT ![j] = @ \cup {e}]
          /\ pos' = [pos EXCEPT ![c] = [ordinal |-> pos[c].ordinal + 1, progress |-> p]]
          /\ UNCHANGED <<jobVars, publishing, seen>>
    BY <1>8 DEF AppendEvent
  <2>2. pos[c].ordinal + 1 \in 1 .. MaxOrdinal /\ p \in 0 .. 100
    BY <2>1
  <2>3. e \in Events
    BY <2>2 DEF Events
  <2>4. events' \in [Jobs -> SUBSET Events]
    BY <2>1, <2>3
  <2>5. pos' \in [Callers -> [ordinal : 0 .. MaxOrdinal, progress : 0 .. 100]]
    BY <2>1, <2>2
  <2> QED BY <2>1, <2>4, <2>5
<1> QED BY <1>1, <1>2, <1>3, <1>4, <1>5, <1>6, <1>7, <1>8 DEF Next

(* Only Append writes events, and what it appends lies past all the others *)
(* because it lies past the newest one.                                    *)
LEMMA EventsInductive ==
    TypeOK /\ NewestExists /\ EventsOrdered /\ [Next]_vars => NewestExists' /\ EventsOrdered'
<1> SUFFICES ASSUME TypeOK, NewestExists, EventsOrdered, [Next]_vars PROVE NewestExists' /\ EventsOrdered'
  OBVIOUS
<1>1. CASE UNCHANGED events
  BY <1>1 DEF NewestExists, EventsOrdered
<1>2. ASSUME NEW c \in Callers, NEW p \in ProgressSteps, AppendEvent(c, p) PROVE NewestExists' /\ EventsOrdered'
  <2>1. PICK j \in Jobs, e \in Events :
          /\ Appendable(j, e)
          /\ events' = [events EXCEPT ![j] = @ \cup {e}]
    <3> DEFINE e == [ordinal |-> pos[c].ordinal + 1, progress |-> p, by |-> c]
    <3>1. PICK j \in seen[c].jobs :
            /\ pos[c].ordinal < MaxOrdinal
            /\ Appendable(j, e)
            /\ events' = [events EXCEPT ![j] = @ \cup {e}]
      BY <1>2 DEF AppendEvent
    <3>2. pos[c].ordinal + 1 \in 1 .. MaxOrdinal
      BY <3>1, JobStoreAssumption DEF TypeOK
    <3>3. e \in Events
      BY <3>2 DEF Events
    <3> QED
      BY <3>1, <3>3 DEF TypeOK
  <2>2. \A k \in Jobs : events'[k] = IF k = j THEN events[j] \cup {e} ELSE events[k]
    BY <2>1 DEF TypeOK
  <2>4. \A f \in Events : f.ordinal \in Nat /\ f.progress \in Nat
    BY EventTypes, JobStoreAssumption
  <2>3. \A k \in Jobs : \A f \in events[k] : f.ordinal \in Nat /\ f.progress \in Nat
    <3>1. \A k \in Jobs : events[k] \subseteq Events
      BY DEF TypeOK
    <3> QED
      BY <2>4, <3>1
  <2>5. \A g \in events[j] : g.ordinal < e.ordinal /\ g.progress <= e.progress
    <3> SUFFICES ASSUME NEW g \in events[j] PROVE g.ordinal < e.ordinal /\ g.progress <= e.progress
      OBVIOUS
    <3>1. PICK f \in events[j] : \A h \in events[j] : h.ordinal <= f.ordinal
      BY DEF NewestExists
    <3>2. e.ordinal > f.ordinal /\ e.progress >= f.progress
      BY <2>1, <3>1 DEF Appendable
    <3>3. g.ordinal <= f.ordinal /\ (g.ordinal = f.ordinal => g = f)
          /\ (g.ordinal < f.ordinal => g.progress <= f.progress)
      BY <3>1 DEF EventsOrdered
    <3>4. g.progress <= f.progress
      BY <2>3, <3>3
    <3> QED
      BY <2>3, <2>4, <3>2, <3>3, <3>4
  <2>6. NewestExists'
    <3> SUFFICES ASSUME NEW k \in Jobs, events'[k] # {}
                 PROVE  \E f \in events'[k] : \A g \in events'[k] : g.ordinal <= f.ordinal
      BY DEF NewestExists
    <3>1. CASE k = j
      BY <2>2, <2>3, <2>4, <2>5, <3>1
    <3>2. CASE k # j
      BY <2>2, <3>2 DEF NewestExists
    <3> QED
      BY <3>1, <3>2
  <2>7. EventsOrdered'
    <3> SUFFICES ASSUME NEW k \in Jobs, NEW f \in events'[k], NEW g \in events'[k]
                 PROVE  /\ f.ordinal = g.ordinal => f = g
                        /\ f.ordinal < g.ordinal => f.progress <= g.progress
      BY DEF EventsOrdered
    <3>1. CASE f \in events[k] /\ g \in events[k]
      BY <3>1 DEF EventsOrdered
    <3>2. CASE k = j /\ f = e /\ g = e
      BY <2>4, <3>2
    <3>3. CASE k = j /\ f = e /\ g \in events[j]
      BY <2>3, <2>4, <2>5, <3>3
    <3>4. CASE k = j /\ f \in events[j] /\ g = e
      BY <2>3, <2>4, <2>5, <3>4
    <3> QED
      BY <2>2, <3>1, <3>2, <3>3, <3>4
  <2> QED
    BY <2>6, <2>7
<1> QED
  BY <1>1, <1>2 DEF Next, vars, CreateOrGet, GetJob, Transition, RequestCancellation,
                    BeginBackupPublication, ListEvents

(* Each step keeps the safety part of the invariant.                       *)
LEMMA SafetyInductive == IInv /\ [Next]_vars => IInv'
<1> SUFFICES ASSUME IInv, [Next]_vars PROVE IInv'
  OBVIOUS
<1>0. TypeOK' /\ NewestExists' /\ EventsOrdered'
  BY TypeInductive, EventsInductive DEF IInv
<1> USE DEF IInv, TypeOK, Requests, SuccessExcludesCancel, OneJobPerKey,
            PublishingIsBackup, PublicationNotCanceled
<1>1. CASE UNCHANGED vars
  BY <1>0, <1>1 DEF vars
<1>2. ASSUME NEW c \in Callers, NEW r \in Requests, CreateOrGet(c, r) PROVE IInv'
  <2>1. CASE UNCHANGED jobVars /\ UNCHANGED publishing
    BY <1>0, <2>1
  <2>2. ASSUME ByKey(r.key) = {}, NEW j \in Jobs, ~Exists(j),
               status' = [status EXCEPT ![j] = "queued"],
               request' = [request EXCEPT ![j] = r],
               UNCHANGED <<result, cancelGen, publishing, events, pos>>
        PROVE  IInv'
    <3>1. \A k \in Jobs : Exists(k) => k # j /\ request[k].key # r.key
      BY <2>2 DEF ByKey
    <3>2. OneJobPerKey'
      BY <2>2, <3>1
    <3>3. SuccessExcludesCancel' /\ PublishingIsBackup' /\ PublicationNotCanceled'
      BY <2>2, <3>1
    <3> QED BY <1>0, <3>2, <3>3
  <2> QED BY <1>2, <2>1, <2>2 DEF CreateOrGet
<1>3. ASSUME NEW c \in Callers, NEW j \in Jobs, GetJob(c, j) PROVE IInv'
  BY <1>0, <1>3 DEF GetJob, Observe
<1>4. ASSUME NEW c \in Callers, NEW expected \in Status, NEW next \in Status,
             NEW res \in Results \cup {NoResult}, Transition(c, expected, next, res)
      PROVE IInv'
  BY <1>0, <1>4 DEF Transition, CanTransitionTo
<1>5. ASSUME NEW c \in Callers, NEW j \in Jobs, RequestCancellation(c, j) PROVE IInv'
  BY <1>0, <1>5 DEF RequestCancellation, Observe, Terminal
<1>6. ASSUME NEW c \in Callers, BeginBackupPublication(c) PROVE IInv'
  BY <1>0, <1>6 DEF BeginBackupPublication
<1>7. ASSUME NEW c \in Callers, ListEvents(c) PROVE IInv'
  BY <1>0, <1>7 DEF ListEvents
<1>8. ASSUME NEW c \in Callers, NEW p \in ProgressSteps, AppendEvent(c, p) PROVE IInv'
  BY <1>0, <1>8 DEF AppendEvent
<1> QED BY <1>1, <1>2, <1>3, <1>4, <1>5, <1>6, <1>7, <1>8 DEF Next

LEMMA InitInvariant == Init => IInv
BY JobStoreAssumption
   DEF Init, IInv, TypeOK, Requests, Status, SuccessExcludesCancel, OneJobPerKey,
       PublishingIsBackup, PublicationNotCanceled, NewestExists, EventsOrdered

(* Every reachable state of the repository satisfies the invariant.        *)
THEOREM JobStoreInvariant == Spec => []IInv
<1>1. Init => IInv
  BY InitInvariant
<1>2. IInv /\ [Next]_vars => IInv'
  BY SafetyInductive
<1> QED BY <1>1, <1>2, PTL DEF Spec

(* The repository never lets a Job succeed after a cancellation request    *)
(* was recorded for it (Store.Transition, RequestCancellation).            *)
THEOREM SuccessExcludesCancelHolds == Spec => []SuccessExcludesCancel
<1>1. IInv => SuccessExcludesCancel
  BY DEF IInv
<1> QED BY <1>1, JobStoreInvariant, PTL

(* An idempotency key owns at most one Job (Store.CreateOrGet).            *)
THEOREM OneJobPerKeyHolds == Spec => []OneJobPerKey
<1>1. IInv => OneJobPerKey
  BY DEF IInv
<1> QED BY <1>1, JobStoreInvariant, PTL

(* A backup past BeginBackupPublication is never marked canceled.          *)
THEOREM PublicationNotCanceledHolds == Spec => []PublicationNotCanceled
<1>1. IInv => PublicationNotCanceled
  BY DEF IInv
<1> QED BY <1>1, JobStoreInvariant, PTL

(* The event history of a Job that several callers append to is one line   *)
(* of rising ordinals along which progress never falls (Append).           *)
THEOREM EventsOrderedHolds == Spec => []EventsOrdered
<1>1. IInv => EventsOrdered
  BY DEF IInv
<1> QED BY <1>1, JobStoreInvariant, PTL

(* A recorded cancellation excludes success and the publication of a       *)
(* backup, in whichever order stale callers race for them.                 *)
THEOREM CancelExcludesHolds == Spec => []CancelExcludes
<1>1. IInv => CancelExcludes
  BY DEF IInv, CancelExcludes
<1> QED BY <1>1, JobStoreInvariant, PTL

(* No operation changes the row of a terminal Job.                         *)
THEOREM TerminalRowFinalHolds == Spec => TerminalRowFinal
<1> DEFINE Final == \A j \in Jobs :
                       Terminal(status[j]) =>
                          /\ status'[j] = status[j]
                          /\ result'[j] = result[j]
                          /\ request'[j] = request[j]
                          /\ cancelGen'[j] = cancelGen[j]
<1>1. IInv /\ [Next]_vars => Final
  <2> SUFFICES ASSUME IInv, [Next]_vars, NEW j \in Jobs, Terminal(status[j])
               PROVE  /\ status'[j] = status[j]
                      /\ result'[j] = result[j]
                      /\ request'[j] = request[j]
                      /\ cancelGen'[j] = cancelGen[j]
    OBVIOUS
  <2> USE DEF IInv, TypeOK, Terminal
  <2>1. CASE UNCHANGED vars
    BY <2>1 DEF vars
  <2>2. ASSUME NEW c \in Callers, NEW r \in Requests, CreateOrGet(c, r)
        PROVE  UNCHANGED <<status[j], result[j], request[j], cancelGen[j]>>
    BY <2>2 DEF CreateOrGet
  <2>3. ASSUME NEW c \in Callers, NEW expected \in Status, NEW next \in Status,
               NEW res \in Results \cup {NoResult}, Transition(c, expected, next, res)
        PROVE  UNCHANGED <<status[j], result[j], request[j], cancelGen[j]>>
    BY <2>3 DEF Transition, CanTransitionTo
  <2>4. ASSUME NEW c \in Callers, NEW k \in Jobs, RequestCancellation(c, k)
        PROVE  UNCHANGED <<status[j], result[j], request[j], cancelGen[j]>>
    BY <2>4 DEF RequestCancellation
  <2>5. CASE UNCHANGED jobVars
    BY <2>5
  <2>6. ASSUME NEW c \in Callers,
               \/ \E k \in Jobs : GetJob(c, k)
               \/ BeginBackupPublication(c)
               \/ ListEvents(c)
               \/ \E p \in ProgressSteps : AppendEvent(c, p)
        PROVE  UNCHANGED jobVars
    BY <2>6 DEF GetJob, BeginBackupPublication, ListEvents, AppendEvent
  <2> QED BY <2>1, <2>2, <2>3, <2>4, <2>5, <2>6 DEF Next
<1> QED BY <1>1, JobStoreInvariant, PTL DEF Spec, TerminalRowFinal

(* The repository, with its stale reads and compare-and-swap, implements   *)
(* the lifecycle it promises: every operation is one lifecycle step or     *)
(* leaves the lifecycle unchanged.                                         *)
THEOREM ImplementsLifecycle == Spec => LifecycleSpec
<1> DEFINE canc == {j \in Jobs : cancelGen[j] > 0}
<1> USE DEF IInv, TypeOK
<1>1. Init => Lifecycle!LInit
  BY DEF Init, Lifecycle!LInit
<1>2. IInv /\ [Next]_vars => [Lifecycle!LNext]_(Lifecycle!lvars)
  <2> SUFFICES ASSUME IInv, [Next]_vars
               PROVE  Lifecycle!LNext \/ (status' = status /\ canc' = canc)
    BY DEF Lifecycle!lvars
  <2>1. CASE UNCHANGED vars
    BY <2>1 DEF vars
  <2>2. ASSUME NEW c \in Callers, NEW r \in Requests, CreateOrGet(c, r)
        PROVE  Lifecycle!LNext \/ (status' = status /\ canc' = canc)
    BY <2>2 DEF CreateOrGet, Lifecycle!LNext, Lifecycle!Admit
  <2>3. ASSUME NEW c \in Callers, NEW expected \in Status, NEW next \in Status,
               NEW res \in Results \cup {NoResult}, Transition(c, expected, next, res)
        PROVE  Lifecycle!LNext
    <3>1. PICK j \in seen[c].jobs :
            /\ CanTransitionTo(expected, next)
            /\ next = "succeeded" => seen[c].gen = 0
            /\ status[j] = expected
            /\ cancelGen[j] = seen[c].gen
            /\ status' = [status EXCEPT ![j] = next]
            /\ UNCHANGED cancelGen
      BY <2>3 DEF Transition
    <3>2. j \in Jobs
      BY <3>1
    <3>3. next = "succeeded" => j \notin canc
      BY <3>1
    <3>4. Lifecycle!Move(j, next)
      BY <3>1, <3>3 DEF Lifecycle!Move, Lifecycle!CanTransitionTo, CanTransitionTo
    <3> QED BY <3>2, <3>4 DEF Lifecycle!LNext, Lifecycle!Status, Status
  <2>4. ASSUME NEW c \in Callers, NEW k \in Jobs, RequestCancellation(c, k)
        PROVE  Lifecycle!LNext
    <3>1. canc' = canc \cup {k}
      BY <2>4 DEF RequestCancellation
    <3>2. Recoverable(status[k])
      BY <2>4 DEF RequestCancellation, Terminal, Recoverable, Status
    <3>3. Lifecycle!AskCancel(k)
      BY <2>4, <3>1, <3>2 DEF RequestCancellation, Lifecycle!AskCancel,
                               Lifecycle!Recoverable, Recoverable
    <3> QED BY <3>3 DEF Lifecycle!LNext
  <2>5. ASSUME NEW c \in Callers,
               \/ \E k \in Jobs : GetJob(c, k)
               \/ BeginBackupPublication(c)
               \/ ListEvents(c)
               \/ \E p \in ProgressSteps : AppendEvent(c, p)
        PROVE  status' = status /\ canc' = canc
    BY <2>5 DEF GetJob, BeginBackupPublication, ListEvents, AppendEvent
  <2> QED BY <2>1, <2>2, <2>3, <2>4, <2>5 DEF Next
<1> QED BY <1>1, <1>2, JobStoreInvariant, PTL DEF Spec, LifecycleSpec, Lifecycle!LSpec

-------------------------------------------------------------------------------
(***************************************************************************)
(* Recovery: the scan of the registry.                                     *)
(***************************************************************************)

(* While a scan plans, the facts agree with the record, which is that of   *)
(* the Job as it was inspected; the Job may have moved since, but stays of *)
(* its kind.                                                               *)
IsRecord(r) == \E i, k, s, g : r = [id |-> i, kind |-> k, status |-> s, generation |-> g]
Planned ==
    \E f : /\ scan.facts = <<f>> /\ validFacts(Record, Descriptors[Record.kind], f)
           /\ IsRecord(Record) /\ Record.id \in DOMAIN jobRows /\ jobRows[Record.id].kind = Record.kind
RowsOK ==
    /\ jobRows = [i \in DOMAIN jobRows |-> jobRows[i]]
    /\ \A i \in DOMAIN jobRows :
          \E k, s, g : jobRows[i] = [kind |-> k, status |-> s, generation |-> g]
ScanInv ==
    /\ RowsOK
    /\ \E p, l, a, f, r, m : scan = [pc |-> p, listed |-> l, at |-> a, facts |-> f, results |-> r, moves |-> m]
    /\ scan.pc = "plan" => Planned
    /\ RecoveredAsListed

LEMMA ScanStays == ASSUME ScanInv, UNCHANGED <<jobRows, scan, changes>> PROVE ScanInv'
<1>1. RowsOK' /\ RecoveredAsListed'
  BY DEF ScanInv, RowsOK, RecoveredAsListed
<1>2. ASSUME scan.pc = "plan" PROVE Planned'
  <2>1. Planned
    BY <1>2 DEF ScanInv
  <2>2. Record' = Record
    BY DEF Record
  <2> QED
    BY <2>1, <2>2 DEF Planned
<1> QED
  BY <1>1, <1>2 DEF ScanInv

LEMMA RowMoves ==
    ASSUME RowsOK, NEW i \in DOMAIN jobRows, NEW row,
           \E k, s, g : row = [kind |-> k, status |-> s, generation |-> g],
           jobRows' = [x \in DOMAIN jobRows |-> IF x = i THEN row ELSE jobRows[x]]
    PROVE  RowsOK'
<1>1. DOMAIN jobRows' = DOMAIN jobRows
  OBVIOUS
<1>2. jobRows' = [x \in DOMAIN jobRows' |-> jobRows'[x]]
  BY <1>1
<1>3. ASSUME NEW x \in DOMAIN jobRows'
      PROVE  \E k, s, g : jobRows'[x] = [kind |-> k, status |-> s, generation |-> g]
  <2>1. CASE x = i
    BY <2>1
  <2>2. CASE x # i
    BY <1>1, <2>2 DEF RowsOK
  <2> QED
    BY <2>1, <2>2
<1> QED
  BY <1>2, <1>3 DEF RowsOK

(* A step that ends the planning leaves no facts to agree with.            *)
LEMMA ScanMoves ==
    ASSUME NEW p, NEW l, NEW a, NEW f, NEW r, NEW m, p # "plan",
           scan' = [pc |-> p, listed |-> l, at |-> a, facts |-> f, results |-> r, moves |-> m],
           RowsOK', RecoveredAsListed'
    PROVE  ScanInv'
  BY DEF ScanInv

LEMMA AdvanceMoves ==
    ASSUME ScanInv, NEW answer, Advance(answer)
    PROVE  \E p, l, a, f, r, m : /\ p # "plan"
              /\ scan' = [pc |-> p, listed |-> l, at |-> a, facts |-> f, results |-> r, moves |-> m]
<1>1. PICK p, l, a, f, r, m : scan = [pc |-> p, listed |-> l, at |-> a, facts |-> f, results |-> r, moves |-> m]
  BY DEF ScanInv
<1>2. scan' = [pc |-> IF a = Len(l) THEN "done" ELSE "inspect", listed |-> l,
               at |-> IF a = Len(l) THEN 0 ELSE a + 1, facts |-> <<>>,
               results |-> Append(r, answer), moves |-> m]
  BY <1>1 DEF Advance
<1>3. (IF a = Len(l) THEN "done" ELSE "inspect") # "plan"
  OBVIOUS
<1> QED
  BY <1>2, <1>3

LEMMA StopMoves ==
    ASSUME ScanInv, Stop
    PROVE  \E p, l, a, f, r, m : /\ p # "plan"
              /\ scan' = [pc |-> p, listed |-> l, at |-> a, facts |-> f, results |-> r, moves |-> m]
<1>1. PICK p, l, a, f, r, m : scan = [pc |-> p, listed |-> l, at |-> a, facts |-> f, results |-> r, moves |-> m]
  BY DEF ScanInv
<1>2. scan' = [pc |-> "failed", listed |-> l, at |-> a, facts |-> <<>>, results |-> r, moves |-> m]
  BY <1>1 DEF Stop
<1> QED
  BY <1>2

LEMMA RecoverKeeps == ASSUME ScanInv, Recover PROVE ScanInv'
<1>1. PICK p, l, a, f, r, m : scan = [pc |-> p, listed |-> l, at |-> a, facts |-> f, results |-> r, moves |-> m]
  BY DEF ScanInv
<1>2. PICK records : scan' = [scan EXCEPT !.listed = records, !.at = IF records = <<>> THEN 0 ELSE 1,
                                          !.pc = IF records = <<>> THEN "done" ELSE "inspect"]
  BY DEF Recover
<1>3. scan' = [pc |-> IF records = <<>> THEN "done" ELSE "inspect", listed |-> records,
               at |-> IF records = <<>> THEN 0 ELSE 1, facts |-> f, results |-> r, moves |-> m]
  BY <1>1, <1>2
<1>4. (IF records = <<>> THEN "done" ELSE "inspect") # "plan"
  OBVIOUS
<1>5. RowsOK' /\ RecoveredAsListed'
  BY DEF ScanInv, RowsOK, RecoveredAsListed, Recover
<1> QED
  BY <1>3, <1>4, <1>5, ScanMoves

LEMMA InspectKeeps == ASSUME ScanInv, Inspect PROVE ScanInv'
<1>1. PICK p, l, a, f, r, m : scan = [pc |-> p, listed |-> l, at |-> a, facts |-> f, results |-> r, moves |-> m]
  BY DEF ScanInv
<1>2. RowsOK' /\ RecoveredAsListed' /\ jobRows' = jobRows
  BY DEF ScanInv, RowsOK, RecoveredAsListed, Inspect
<1>3. ASSUME NEW answer, Advance(answer) PROVE ScanInv'
  BY <1>2, <1>3, AdvanceMoves, ScanMoves
<1>4. ASSUME Record.id \in DOMAIN jobRows, NEW facts \in Facts(Current(Record.id)),
             validFacts(Record, Descriptors[Record.kind], facts),
             scan' = [scan EXCEPT !.pc = "plan", !.facts = <<facts>>]
      PROVE  ScanInv'
  <2>1. scan' = [pc |-> "plan", listed |-> l, at |-> a, facts |-> <<facts>>, results |-> r, moves |-> m]
    BY <1>1, <1>4
  <2>2. Record' = Record
    BY <1>1, <2>1 DEF Record
  <2>3. facts.job = Current(Record.id)
    BY <1>4 DEF Facts
  <2>4. Record = Current(Record.id)
    BY <1>4, <2>3 DEF validFacts, sameJob
  <2>5. IsRecord(Record) /\ jobRows[Record.id].kind = Record.kind
    <3>1. PICK i : i = Record.id
      OBVIOUS
    <3>2. Record = [id |-> i, kind |-> jobRows[i].kind, status |-> jobRows[i].status, generation |-> jobRows[i].generation]
      BY <2>4, <3>1 DEF Current, JobRecord
    <3>3. IsRecord(Record)
      BY <3>2 DEF IsRecord
    <3>4. Record.kind = jobRows[i].kind
      BY <3>2
    <3> QED
      BY <3>1, <3>3, <3>4
  <2>6. PICK j : j = Record /\ IsRecord(j) /\ j.id \in DOMAIN jobRows /\ jobRows[j.id].kind = j.kind
                 /\ validFacts(j, Descriptors[j.kind], facts)
    BY <1>4, <2>5
  <2>7. /\ scan'.facts = <<facts>> /\ Record' = j /\ IsRecord(j) /\ j.id \in DOMAIN jobRows'
        /\ jobRows'[j.id].kind = j.kind /\ validFacts(j, Descriptors[j.kind], facts)
    BY <1>2, <2>1, <2>2, <2>6
  <2>8. Planned'
    BY <2>7 DEF Planned
  <2> QED
    BY <1>2, <2>1, <2>8 DEF ScanInv
<1> QED
  BY <1>3, <1>4 DEF Inspect

(* What a plan changes was as it was listed: the status and the generation *)
(* are compared, and the identity and the kind are still the same.         *)
LEMMA PlanKeeps == ASSUME ScanInv, Plan PROVE ScanInv'
<1>1. scan.pc = "plan" /\ RowsOK /\ RecoveredAsListed
  BY DEF Plan, ScanInv
<1>2. PICK f : /\ scan.facts = <<f>> /\ validFacts(Record, Descriptors[Record.kind], f)
               /\ IsRecord(Record) /\ Record.id \in DOMAIN jobRows /\ jobRows[Record.id].kind = Record.kind
  BY <1>1 DEF ScanInv, Planned
<1>3. ASSUME Stop, UNCHANGED <<jobRows, changes>> PROVE ScanInv'
  <2>1. RowsOK' /\ RecoveredAsListed'
    BY <1>1, <1>3 DEF RowsOK, RecoveredAsListed
  <2> QED
    BY <1>3, <2>1, StopMoves, ScanMoves
<1>4. ASSUME NEW decision \in Decisions,
             LET moves == /\ decision.next # ""
                          /\ Matches(jobRows[Record.id], Record.status, scan.facts[1].job.generation)
             IN /\ jobRows' = IF moves THEN [jobRows EXCEPT ![Record.id].status = decision.next] ELSE jobRows
                /\ changes' = IF moves THEN changes \cup {[listed |-> Record, was |-> Current(Record.id),
                                                           facts |-> scan.facts[1]]}
                              ELSE changes
                /\ Advance(decision.disposition)
      PROVE  ScanInv'
  <2>1. Advance(decision.disposition)
    BY <1>4
  <2>2. PICK j, i : j = Record /\ i = j.id /\ i \in DOMAIN jobRows
    BY <1>2
  <2>3. scan.facts[1] = f
    BY <1>2
  <2>4. CASE UNCHANGED <<jobRows, changes>>
    <3>1. RowsOK' /\ RecoveredAsListed'
      BY <1>1, <2>4 DEF RowsOK, RecoveredAsListed
    <3> QED
      BY <2>1, <3>1, AdvanceMoves, ScanMoves
  <2>5. CASE /\ Matches(jobRows[i], j.status, f.job.generation)
             /\ jobRows' = [jobRows EXCEPT ![i].status = decision.next]
             /\ changes' = changes \cup {[listed |-> j, was |-> Current(i), facts |-> f]}
    <3>1. PICK k, s, g : jobRows[i] = [kind |-> k, status |-> s, generation |-> g]
      BY <1>1, <2>2 DEF RowsOK
    <3>2. PICK n, c, t, h : j = [id |-> n, kind |-> c, status |-> t, generation |-> h]
      BY <1>2, <2>2 DEF IsRecord
    <3>3. f.job = j
      BY <1>2, <2>2 DEF validFacts, sameJob
    <3>4. n = i /\ c = k /\ t = s /\ h = g
      <4>1. n = i /\ c = k
        BY <1>2, <2>2, <3>1, <3>2
      <4>2. t = s /\ h = g
        BY <2>5, <3>1, <3>2, <3>3 DEF Matches
      <4> QED
        BY <4>1, <4>2
    <3>5. Current(i) = j
      BY <3>1, <3>2, <3>4 DEF Current, JobRecord
    <3>6. RowsOK'
      <4>1. jobRows' = [x \in DOMAIN jobRows |-> IF x = i THEN [jobRows[i] EXCEPT !.status = decision.next] ELSE jobRows[x]]
        BY <1>1, <2>5 DEF RowsOK
      <4>2. [jobRows[i] EXCEPT !.status = decision.next] = [kind |-> k, status |-> decision.next, generation |-> g]
        BY <3>1
      <4> QED
        BY <1>1, <2>2, <4>1, <4>2, RowMoves
    <3>7. RecoveredAsListed'
      <4>1. Descriptors[j.kind].checkpoints \subseteq {p.id : p \in {p \in ToSet(f.checkpoints) : p.sealed}}
        <5>1. ASSUME NEW x \in Descriptors[j.kind].checkpoints
              PROVE  \E p \in ToSet(f.checkpoints) : p.sealed /\ p.id = x
          <6>1. PICK p \in ToSet(f.checkpoints) : p.id = x
            BY <1>2, <2>2, <5>1 DEF validFacts
          <6>2. PICK o \in DOMAIN f.checkpoints : p = f.checkpoints[o]
            BY <6>1 DEF ToSet
          <6>3. p.sealed
            BY <1>2, <2>2, <6>2 DEF validFacts, ValidCheckpoint
          <6> QED
            BY <6>1, <6>3
        <5> QED
          BY <5>1
      <4>2. PICK new : new = [listed |-> j, was |-> j, facts |-> f]
        OBVIOUS
      <4>3. new.listed = new.was /\ Descriptors[new.was.kind].checkpoints \subseteq
              {p.id : p \in {p \in ToSet(new.facts.checkpoints) : p.sealed}}
        BY <4>1, <4>2
      <4>4. changes' = changes \cup {new}
        BY <2>5, <3>5, <4>2
      <4> QED
        BY <1>1, <4>3, <4>4 DEF RecoveredAsListed
    <3> QED
      BY <2>1, <3>6, <3>7, AdvanceMoves, ScanMoves
  <2> QED
    BY <1>4, <2>2, <2>3, <2>4, <2>5
<1> QED
  BY <1>3, <1>4 DEF Plan

(* A Job that moves meanwhile stays of its kind.                           *)
LEMMA MovesKeeps == ASSUME ScanInv, NEW id \in DOMAIN jobRows, JobMoves(id) PROVE ScanInv'
<1>1. PICK p, l, a, f, r, m : scan = [pc |-> p, listed |-> l, at |-> a, facts |-> f, results |-> r, moves |-> m]
  BY DEF ScanInv
<1>2. scan' = [pc |-> p, listed |-> l, at |-> a, facts |-> f, results |-> r, moves |-> m + 1]
  BY <1>1 DEF JobMoves
<1>3. PICK k, s, g : jobRows[id] = [kind |-> k, status |-> s, generation |-> g]
  BY DEF ScanInv, RowsOK
<1>4. \E row : /\ jobRows' = [x \in DOMAIN jobRows |-> IF x = id THEN row ELSE jobRows[x]]
               /\ row.kind = jobRows[id].kind /\ \E n, t, h : row = [kind |-> n, status |-> t, generation |-> h]
  <2>1. CASE jobRows' = [jobRows EXCEPT ![id].generation = @ + 1]
    <3>1. [jobRows[id] EXCEPT !.generation = @ + 1] = [kind |-> k, status |-> s, generation |-> g + 1]
      BY <1>3
    <3>2. jobRows' = [x \in DOMAIN jobRows |-> IF x = id THEN [kind |-> k, status |-> s, generation |-> g + 1] ELSE jobRows[x]]
      BY <2>1, <3>1 DEF ScanInv, RowsOK
    <3> QED
      BY <1>3, <3>2
  <2>2. ASSUME NEW next \in Status, jobRows' = [jobRows EXCEPT ![id].status = next]
        PROVE  \E row : /\ jobRows' = [x \in DOMAIN jobRows |-> IF x = id THEN row ELSE jobRows[x]]
                        /\ row.kind = jobRows[id].kind /\ \E n, t, h : row = [kind |-> n, status |-> t, generation |-> h]
    <3>1. [jobRows[id] EXCEPT !.status = next] = [kind |-> k, status |-> next, generation |-> g]
      BY <1>3
    <3>2. jobRows' = [x \in DOMAIN jobRows |-> IF x = id THEN [kind |-> k, status |-> next, generation |-> g] ELSE jobRows[x]]
      BY <2>2, <3>1 DEF ScanInv, RowsOK
    <3> QED
      BY <1>3, <3>2
  <2> QED
    BY <2>1, <2>2 DEF JobMoves
<1>5. PICK row : /\ jobRows' = [x \in DOMAIN jobRows |-> IF x = id THEN row ELSE jobRows[x]]
                 /\ row.kind = jobRows[id].kind /\ \E n, t, h : row = [kind |-> n, status |-> t, generation |-> h]
  BY <1>4
<1>6. RowsOK'
  BY <1>5, RowMoves DEF ScanInv
<1>7. RecoveredAsListed'
  BY DEF JobMoves, ScanInv, RecoveredAsListed
<1>8. ASSUME p = "plan" PROVE Planned'
  <2>1. PICK j, e : /\ j = Record /\ scan.facts = <<e>> /\ validFacts(j, Descriptors[j.kind], e)
                    /\ IsRecord(j) /\ j.id \in DOMAIN jobRows /\ jobRows[j.id].kind = j.kind
    BY <1>1, <1>8 DEF ScanInv, Planned
  <2>2. Record' = j /\ scan'.facts = <<e>>
    BY <1>1, <1>2, <2>1 DEF Record
  <2>3. j.id \in DOMAIN jobRows' /\ jobRows'[j.id].kind = j.kind
    BY <1>5, <2>1
  <2> QED
    BY <2>1, <2>2, <2>3 DEF Planned
<1> QED
  BY <1>2, <1>6, <1>7, <1>8 DEF ScanInv

LEMMA ScanStart ==
    ASSUME RecoveryInit, NEW JobKinds, JobRows \subseteq Seq([kind : JobKinds, status : Status, generation : Nat])
    PROVE  ScanInv
<1>1. PICK p : p # "plan" /\ scan = [pc |-> p, listed |-> <<>>, at |-> 0, facts |-> <<>>, results |-> <<>>, moves |-> 0]
  <2>1. scan = Idle \/ scan = [Idle EXCEPT !.pc = "done"]
    BY DEF RecoveryInit, ScanInit, StagesInit, ShutdownInit
  <2>2. [Idle EXCEPT !.pc = "done"] = [pc |-> "done", listed |-> <<>>, at |-> 0, facts |-> <<>>, results |-> <<>>, moves |-> 0]
    BY DEF Idle
  <2> QED
    BY <2>1, <2>2 DEF Idle
<1>2. scan.pc # "plan" /\ \E q, l, a, f, r, m : scan = [pc |-> q, listed |-> l, at |-> a, facts |-> f, results |-> r, moves |-> m]
  BY <1>1
<1>3. changes = {} /\ (jobRows = <<>> \/ jobRows \in JobRows)
  BY DEF RecoveryInit, ScanInit, StagesInit, ShutdownInit
<1>s. PICK S : S = [kind : JobKinds, status : Status, generation : Nat]
  OBVIOUS
<1>4. jobRows \in Seq(S)
  <2>1. JobRows \subseteq Seq(S)
    BY <1>s
  <2>2. <<>> \in Seq(S)
    OBVIOUS
  <2> QED
    BY <1>3, <2>1, <2>2
<1>5. \A i \in DOMAIN jobRows : \E k, s, g : jobRows[i] = [kind |-> k, status |-> s, generation |-> g]
  <2>1. \A i \in DOMAIN jobRows : jobRows[i] \in S
    BY <1>4
  <2> QED
    BY <1>s, <2>1
<1>6. jobRows = [i \in DOMAIN jobRows |-> jobRows[i]]
  BY <1>4
<1>7. RowsOK
  BY <1>5, <1>6 DEF RowsOK
<1> QED
  BY <1>2, <1>3, <1>7 DEF ScanInv, RecoveredAsListed

(***************************************************************************)
(* Recovery: the stages of the coordinator.                                *)
(***************************************************************************)

StageNames == {"restore", "release", "graph", "deterministic", "remaining"}

(* The stages before the current one are committed, the current one is as  *)
(* soon as it may start; only stages passed have a worker, and a blocked   *)
(* one is the current one.                                                 *)
StagesInv ==
    /\ \E p, l, a, c, s, b, r :
          stages = [pc |-> p, list |-> l, at |-> a, committed |-> c, started |-> s, blocked |-> b, required |-> r]
    /\ stages.pc \in {"scan", "start", "failed", "done"}
    /\ stages.at \in Nat \ {0}
    /\ stages.list \in Seq([stage : StageNames, scans : BOOLEAN, works : BOOLEAN]) /\ InOrder(stages.list)
    /\ stages.pc \in {"scan", "start"} => stages.at <= Len(stages.list)
    /\ \A i \in DOMAIN stages.list : i < stages.at => stages.list[i].stage \in stages.committed
    /\ stages.pc = "start" => stages.list[stages.at].stage \in stages.committed
    /\ \A s \in stages.started : \E i \in DOMAIN stages.list : i < stages.at /\ stages.list[i].stage = s
    /\ stages.pc # "failed" => stages.blocked = {}
    /\ \A b \in stages.blocked : stages.at \in DOMAIN stages.list /\ stages.list[stages.at].stage = b

LEMMA RankIs == Rank("restore") = 1 /\ Rank("release") = 2 /\ Rank("graph") = 3
                /\ Rank("deterministic") = 4 /\ Rank("remaining") = 5
<1>1. DOMAIN stageOrder = 1..5 /\ stageOrder[1] = "restore" /\ stageOrder[2] = "release"
      /\ stageOrder[3] = "graph" /\ stageOrder[4] = "deterministic" /\ stageOrder[5] = "remaining"
  BY DEF stageOrder
<1>2. \A i \in 1..5 : i = 1 \/ i = 2 \/ i = 3 \/ i = 4 \/ i = 5
  OBVIOUS
<1>3. \A n \in 1..5, m \in 1..5 : stageOrder[n] = stageOrder[m] => n = m
  BY <1>1, <1>2
<1>4. ASSUME NEW n \in 1..5 PROVE Rank(stageOrder[n]) = n
  <2>1. \A m \in DOMAIN stageOrder : stageOrder[m] = stageOrder[n] <=> m = n
    BY <1>1, <1>3
  <2> QED
    BY <1>1, <2>1 DEF Rank
<1> QED
  BY <1>1, <1>4

LEMMA RankType == ASSUME NEW s \in StageNames PROVE Rank(s) \in 1..5
  BY RankIs DEF StageNames

LEMMA StagesStay == ASSUME StagesInv, UNCHANGED stages PROVE StagesInv'
  BY DEF StagesInv

LEMMA StagesAreInOrder == ASSUME StagesInv PROVE StagesInOrder
<1>1. SUFFICES ASSUME NEW s \in stages.started
               PROVE  /\ \A i \in DOMAIN stages.list :
                           Rank(stages.list[i].stage) <= Rank(s) => stages.list[i].stage \in stages.committed
                      /\ \A b \in stages.blocked : Rank(s) < Rank(b)
  BY DEF StagesInOrder
<1>2. PICK j \in DOMAIN stages.list : j < stages.at /\ stages.list[j].stage = s
  BY <1>1 DEF StagesInv
<1>3. \A i \in DOMAIN stages.list : i \in Nat /\ stages.list[i].stage \in StageNames
  <2>1. PICK S : S = [stage : StageNames, scans : BOOLEAN, works : BOOLEAN]
    OBVIOUS
  <2>2. stages.list \in Seq(S)
    BY <2>1 DEF StagesInv
  <2>3. ASSUME NEW i \in DOMAIN stages.list PROVE i \in Nat /\ stages.list[i] \in S
    BY <2>2, <2>3
  <2> QED
    BY <2>1, <2>3
<1>4. InOrder(stages.list) /\ stages.at \in Nat
  BY DEF StagesInv
<1>5. ASSUME NEW i \in DOMAIN stages.list, Rank(stages.list[i].stage) <= Rank(s)
      PROVE  stages.list[i].stage \in stages.committed
  <2>1. ~(j < i)
    <3>1. j < i => Rank(stages.list[j].stage) < Rank(stages.list[i].stage)
      BY <1>4 DEF InOrder
    <3>2. Rank(stages.list[j].stage) \in 1..5 /\ Rank(stages.list[i].stage) \in 1..5
      BY <1>3, RankType
    <3> QED
      BY <1>2, <1>5, <3>1, <3>2
  <2>2. i < stages.at
    BY <1>2, <1>3, <1>4, <2>1
  <2> QED
    BY <2>2 DEF StagesInv
<1>6. ASSUME NEW b \in stages.blocked PROVE Rank(s) < Rank(b)
  <2>1. stages.at \in DOMAIN stages.list /\ stages.list[stages.at].stage = b
    BY <1>6 DEF StagesInv
  <2> QED
    BY <1>2, <1>4, <2>1 DEF InOrder
<1> QED
  BY <1>5, <1>6

LEMMA StagesFit ==
    ASSUME StagesInv, NEW p \in {"scan", "start", "failed", "done"}, NEW a, NEW c, NEW s, NEW b, NEW r,
           stages' = [pc |-> p, list |-> stages.list, at |-> a, committed |-> c, started |-> s, blocked |-> b, required |-> r],
           a \in Nat \ {0}, p \in {"scan", "start"} => a <= Len(stages.list),
           \A i \in DOMAIN stages.list : i < a => stages.list[i].stage \in c,
           p = "start" => stages.list[a].stage \in c,
           \A x \in s : \E i \in DOMAIN stages.list : i < a /\ stages.list[i].stage = x,
           p # "failed" => b = {},
           \A x \in b : a \in DOMAIN stages.list /\ stages.list[a].stage = x
    PROVE  StagesInv'
<1>1. /\ stages'.pc = p /\ stages'.list = stages.list /\ stages'.at = a /\ stages'.committed = c
      /\ stages'.started = s /\ stages'.blocked = b
  OBVIOUS
<1>2. \E p1, l1, a1, c1, s1, b1, r1 :
          stages' = [pc |-> p1, list |-> l1, at |-> a1, committed |-> c1, started |-> s1, blocked |-> b1, required |-> r1]
  OBVIOUS
<1>3. InOrder(stages'.list)
  BY <1>1 DEF StagesInv
<1> QED
  BY <1>1, <1>2, <1>3 DEF StagesInv, InOrder

LEMMA ScanStageKeeps == ASSUME StagesInv, ScanStage PROVE StagesInv'
<1>1. PICK p, l, a, c, s, b, r :
        stages = [pc |-> p, list |-> l, at |-> a, committed |-> c, started |-> s, blocked |-> b, required |-> r]
  BY DEF StagesInv
<1>2. /\ p = "scan" /\ a \in Nat \ {0} /\ a <= Len(l) /\ b = {} /\ l = stages.list /\ Len(l) \in Nat /\ DOMAIN l = 1..Len(l)
      /\ \A i \in DOMAIN l : i < a => l[i].stage \in c
      /\ \A x \in s : \E i \in DOMAIN l : i < a /\ l[i].stage = x
  <2>1. /\ stages.pc = p /\ stages.list = l /\ stages.at = a /\ stages.committed = c /\ stages.started = s
        /\ stages.blocked = b
    BY <1>1
  <2>2. p = "scan"
    BY <2>1 DEF ScanStage
  <2>3. a \in Nat \ {0} /\ a <= Len(l) /\ b = {}
    BY <2>1, <2>2 DEF StagesInv
  <2>4. PICK S : l \in Seq(S)
    BY <2>1 DEF StagesInv
  <2>5. Len(l) \in Nat /\ DOMAIN l = 1..Len(l)
    BY <2>4
  <2>6. \A i \in DOMAIN l : i < a => l[i].stage \in c
    BY <2>1 DEF StagesInv
  <2>7. \A x \in s : \E i \in DOMAIN l : i < a /\ l[i].stage = x
    BY <2>1 DEF StagesInv
  <2> QED
    BY <2>1, <2>2, <2>3, <2>5, <2>6, <2>7
<1>3. CASE stages' = [stages EXCEPT !.pc = "failed"]
  <2>1. stages' = [pc |-> "failed", list |-> l, at |-> a, committed |-> c, started |-> s, blocked |-> b, required |-> r]
    BY <1>1, <1>3
  <2> QED
    BY <1>2, <2>1, StagesFit
<1>4. ASSUME NEW outcomes \in Outcomes,
             LET o == Scanned(Stage.stage, outcomes)
             IN stages' = IF Stage.scans /\ (~o.ok \/ o.recovered + o.required > o.scanned)
                          THEN [stages EXCEPT !.pc = "failed", !.blocked = @ \cup {Stage.stage}]
                          ELSE [stages EXCEPT !.pc = "start", !.committed = @ \cup {Stage.stage},
                                              !.required = @ + IF Stage.scans THEN o.required ELSE 0]
      PROVE  StagesInv'
  <2>1. Stage = l[a]
    BY <1>1 DEF Stage
  <2>2. CASE stages' = [stages EXCEPT !.pc = "failed", !.blocked = @ \cup {Stage.stage}]
    <3>1. stages' = [pc |-> "failed", list |-> l, at |-> a, committed |-> c, started |-> s,
                     blocked |-> {l[a].stage}, required |-> r]
      BY <1>1, <1>2, <2>1, <2>2
    <3>2. a \in DOMAIN l
      BY <1>2
    <3> QED
      BY <1>2, <3>1, <3>2, StagesFit
  <2>3. ASSUME NEW n, stages' = [stages EXCEPT !.pc = "start", !.committed = @ \cup {Stage.stage}, !.required = @ + n]
        PROVE  StagesInv'
    <3>1. stages' = [pc |-> "start", list |-> l, at |-> a, committed |-> c \cup {l[a].stage}, started |-> s,
                     blocked |-> b, required |-> r + n]
      BY <1>1, <2>1, <2>3
    <3> QED
      BY <1>2, <3>1, StagesFit
  <2> QED
    BY <1>4, <2>2, <2>3
<1> QED
  BY <1>3, <1>4 DEF ScanStage

LEMMA StartStageKeeps == ASSUME StagesInv, StartStage PROVE StagesInv'
<1>1. PICK p, l, a, c, s, b, r :
        stages = [pc |-> p, list |-> l, at |-> a, committed |-> c, started |-> s, blocked |-> b, required |-> r]
  BY DEF StagesInv
<1>2. /\ p = "start" /\ a \in Nat \ {0} /\ a <= Len(l) /\ b = {} /\ l = stages.list /\ Len(l) \in Nat /\ DOMAIN l = 1..Len(l)
      /\ \A i \in DOMAIN l : i < a => l[i].stage \in c
      /\ l[a].stage \in c
      /\ \A x \in s : \E i \in DOMAIN l : i < a /\ l[i].stage = x
  BY <1>1 DEF StagesInv, StartStage
<1>3. CASE stages' = [stages EXCEPT !.pc = "failed"]
  <2>1. stages' = [pc |-> "failed", list |-> l, at |-> a, committed |-> c, started |-> s, blocked |-> b, required |-> r]
    BY <1>1, <1>3
  <2> QED
    BY <1>2, <2>1, StagesFit
<1>4. CASE stages' = [stages EXCEPT !.started = IF Stage.works THEN @ \cup {Stage.stage} ELSE @,
                                    !.at = @ + 1,
                                    !.pc = IF @ = "start" /\ stages.at = Len(stages.list) THEN "done" ELSE "scan"]
  <2>1. PICK t, q : /\ t = IF l[a].works THEN s \cup {l[a].stage} ELSE s
                    /\ q = IF a = Len(l) THEN "done" ELSE "scan"
    OBVIOUS
  <2>2. stages' = [pc |-> q, list |-> l, at |-> a + 1, committed |-> c, started |-> t, blocked |-> b, required |-> r]
    BY <1>1, <1>2, <1>4, <2>1 DEF Stage
  <2>3. q \in {"scan", "start", "failed", "done"} /\ q # "start" /\ q # "failed"
    BY <2>1
  <2>4. a + 1 \in Nat \ {0} /\ (q = "scan" => a + 1 <= Len(l))
    BY <1>2, <2>1
  <2>5. \A i \in DOMAIN l : i < a + 1 => l[i].stage \in c
    BY <1>2
  <2>6. \A x \in t : \E i \in DOMAIN l : i < a + 1 /\ l[i].stage = x
    <3>1. ASSUME NEW x \in t PROVE \E i \in DOMAIN l : i < a + 1 /\ l[i].stage = x
      <4>1. CASE x \in s
        BY <1>2, <4>1
      <4>2. CASE x = l[a].stage
        BY <1>2, <4>2
      <4> QED
        BY <2>1, <3>1, <4>1, <4>2
    <3> QED
      BY <3>1
  <2> QED
    BY <1>2, <2>2, <2>3, <2>4, <2>5, <2>6, StagesFit
<1> QED
  BY <1>3, <1>4 DEF StartStage

LEMMA RangeFinite == ASSUME NEW S, NEW list \in Seq(S) PROVE IsFiniteSet(ToSet(list))
<1>1. Len(list) \in Nat /\ DOMAIN list = 1..Len(list)
  OBVIOUS
<1>2. list \in [1..Len(list) -> ToSet(list)]
  <2>1. list = [i \in 1..Len(list) |-> list[i]]
    BY <1>1
  <2>2. \A i \in 1..Len(list) : list[i] \in ToSet(list)
    BY <1>1 DEF ToSet
  <2> QED
    BY <2>1, <2>2
<1>3. \A t \in ToSet(list) : \E i \in 1..Len(list) : list[i] = t
  BY <1>1 DEF ToSet
<1>4. list \in Surjection(1..Len(list), ToSet(list))
  BY <1>2, <1>3, Fun_IsSurj
<1>5. IsFiniteSet(1..Len(list))
  BY <1>1, FS_Interval
<1> QED
  BY <1>4, <1>5, FS_Surjection

LEMMA OrderIsSequence ==
    ASSUME NEW T, IsFiniteSet(T), NEW order \in SetToSeqs(T)
    PROVE  order \in Seq(T)
<1>1. Cardinality(T) \in Nat
  BY FS_CardinalityType
<1>2. order \in [1..Cardinality(T) -> T]
  BY DEF SetToSeqs
<1> QED
  BY <1>1, <1>2

LEMMA StagesStart ==
    ASSUME NEW Stages, StageLists \subseteq Seq([stage : Stages, scans : BOOLEAN, works : BOOLEAN]), StagesInit
    PROVE  StagesInv
<1>d. PICK D, E : /\ D = [stage : Stages, scans : BOOLEAN, works : BOOLEAN]
                  /\ E = [stage : StageNames, scans : BOOLEAN, works : BOOLEAN]
  OBVIOUS
<1>q. StageLists \subseteq Seq(D)
  BY <1>d
<1>1. PICK list \in StageLists :
        /\ ValidStages(list)
        /\ \E order \in NewCoordinator(list) :
             stages = [NoStages EXCEPT !.pc = IF order = <<>> THEN "done" ELSE "scan", !.list = order]
  BY DEF StagesInit
<1>2. PICK order \in NewCoordinator(list) :
        stages = [NoStages EXCEPT !.pc = IF order = <<>> THEN "done" ELSE "scan", !.list = order]
  BY <1>1
<1>3. \A x \in ToSet(list) : x \in E
  <2>1. \A i \in DOMAIN list : list[i] \in D
    <3>1. list \in Seq(D)
      BY <1>1, <1>q
    <3> QED
      BY <3>1
  <2>2. \A i \in DOMAIN list : list[i].stage \in StageNames
    <3>1. ToSet(stageOrder) \subseteq StageNames
      <4>1. DOMAIN stageOrder = 1..5 /\ \A i \in 1..5 : stageOrder[i] \in StageNames
        BY DEF stageOrder, StageNames
      <4> QED
        BY <4>1 DEF ToSet
    <3> QED
      BY <1>1, <3>1 DEF ValidStages
  <2>3. \A i \in DOMAIN list : list[i] \in E
    BY <1>d, <2>1, <2>2
  <2> QED
    BY <2>3 DEF ToSet
<1>4. order \in SetToSeqs(ToSet(list)) /\ InOrder(order)
  BY DEF NewCoordinator
<1>5. order \in Seq(ToSet(list))
  <2>1. list \in Seq(D)
    BY <1>1, <1>q
  <2>2. IsFiniteSet(ToSet(list))
    BY <2>1, RangeFinite
  <2> QED
    BY <1>4, <2>2, OrderIsSequence
<1>6. order \in Seq(E)
  BY <1>3, <1>5
<1>7. stages = [pc |-> IF order = <<>> THEN "done" ELSE "scan", list |-> order, at |-> 1, committed |-> {},
                started |-> {}, blocked |-> {}, required |-> 0]
  BY <1>2 DEF NoStages
<1>8. stages.pc = (IF order = <<>> THEN "done" ELSE "scan") /\ stages.list = order /\ stages.at = 1
      /\ stages.committed = {} /\ stages.started = {} /\ stages.blocked = {}
  BY <1>7
<1>9. \E p, l, a, c, s, b, r :
        stages = [pc |-> p, list |-> l, at |-> a, committed |-> c, started |-> s, blocked |-> b, required |-> r]
  BY <1>7
<1>10. order # <<>> => 1 <= Len(order)
  BY <1>6
<1>11. \A i \in DOMAIN order : ~(i < 1)
  BY <1>6
<1>12. /\ stages.pc \in {"scan", "start", "failed", "done"} /\ stages.at \in Nat \ {0}
       /\ stages.pc # "start" /\ stages.pc # "failed"
  BY <1>8
<1>13. stages.list \in Seq([stage : StageNames, scans : BOOLEAN, works : BOOLEAN]) /\ InOrder(stages.list)
  BY <1>d, <1>4, <1>6, <1>8
<1>14. stages.pc \in {"scan", "start"} => stages.at <= Len(stages.list)
  BY <1>8, <1>10
<1>15. \A i \in DOMAIN stages.list : i < stages.at => stages.list[i].stage \in stages.committed
  BY <1>8, <1>11
<1> QED
  BY <1>8, <1>9, <1>12, <1>13, <1>14, <1>15 DEF StagesInv

LEMMA NoStagesStart == ASSUME stages = NoStages PROVE StagesInv
<1>1. stages = [pc |-> "done", list |-> <<>>, at |-> 1, committed |-> {}, started |-> {}, blocked |-> {}, required |-> 0]
  BY DEF NoStages
<1>2. /\ stages.pc = "done" /\ stages.list = <<>> /\ stages.at = 1 /\ stages.committed = {} /\ stages.started = {}
      /\ stages.blocked = {}
  BY <1>1
<1>3. stages.list \in Seq([stage : StageNames, scans : BOOLEAN, works : BOOLEAN]) /\ DOMAIN stages.list = {}
  <2>1. PICK S : S = [stage : StageNames, scans : BOOLEAN, works : BOOLEAN]
    OBVIOUS
  <2>2. stages.list \in Seq(S) /\ DOMAIN stages.list = {}
    BY <1>2
  <2> QED
    BY <2>1, <2>2
<1>4. \E p, l, a, c, s, b, r :
        stages = [pc |-> p, list |-> l, at |-> a, committed |-> c, started |-> s, blocked |-> b, required |-> r]
  BY <1>1
<1>5. /\ stages.pc \in {"scan", "start", "failed", "done"} /\ stages.at \in Nat \ {0}
      /\ stages.pc \notin {"scan", "start", "failed"}
  BY <1>2
<1>6. InOrder(stages.list)
  BY <1>3 DEF InOrder
<1> QED
  BY <1>2, <1>3, <1>4, <1>5, <1>6 DEF StagesInv

(***************************************************************************)
(* Recovery: the phases of a shutdown.                                     *)
(***************************************************************************)

PhaseNames == {"StopClaims", "PersistIntent", "WaitSafeBoundary", "ProveRecoverable"}

(* In the first phase only claims were stopped, for the policies passed;   *)
(* later they are stopped for every policy. In the last phase the policies *)
(* passed are proved recoverable.                                          *)
ShutdownInv ==
    /\ \E p, l, h, a, d : shutdown = [pc |-> p, policies |-> l, phase |-> h, at |-> a, done |-> d]
    /\ shutdown.pc \in {"prepare", "failed", "done"}
    /\ \E S : shutdown.policies \in Seq(S)
    /\ shutdown.at \in Nat \ {0} /\ shutdown.phase \in Nat
    /\ shutdown.pc = "prepare" => shutdown.phase \in 1..4 /\ shutdown.at <= Len(shutdown.policies)
    /\ shutdown.pc = "prepare" /\ shutdown.phase = 1 =>
         /\ \A d \in shutdown.done : d[1] = "StopClaims"
         /\ \A i \in DOMAIN shutdown.policies : i < shutdown.at => <<"StopClaims", shutdown.policies[i]>> \in shutdown.done
    /\ shutdown.pc = "prepare" /\ shutdown.phase = 4 =>
         \A i \in DOMAIN shutdown.policies : i < shutdown.at => <<"ProveRecoverable", shutdown.policies[i]>> \in shutdown.done
    /\ shutdown.pc = "prepare" /\ shutdown.phase > 1 =>
         \A i \in DOMAIN shutdown.policies : <<"StopClaims", shutdown.policies[i]>> \in shutdown.done
    /\ ShutdownInPhases

LEMMA ShutdownStays == ASSUME ShutdownInv, UNCHANGED shutdown PROVE ShutdownInv'
  BY DEF ShutdownInv, ShutdownInPhases

LEMMA ShutdownFails ==
    ASSUME ShutdownInv, shutdown' = [shutdown EXCEPT !.pc = "failed"]
    PROVE  ShutdownInv'
<1>1. PICK p, l, h, a, d : shutdown = [pc |-> p, policies |-> l, phase |-> h, at |-> a, done |-> d]
  BY DEF ShutdownInv
<1>2. shutdown' = [pc |-> "failed", policies |-> l, phase |-> h, at |-> a, done |-> d]
  BY <1>1
<1>3. /\ shutdown'.pc = "failed" /\ shutdown'.policies = shutdown.policies /\ shutdown'.phase = shutdown.phase
      /\ shutdown'.at = shutdown.at /\ shutdown'.done = shutdown.done
  BY <1>1, <1>2
<1>4. ShutdownInPhases'
  BY <1>3 DEF ShutdownInv, ShutdownInPhases
<1>5. \E p1, l1, h1, a1, d1 : shutdown' = [pc |-> p1, policies |-> l1, phase |-> h1, at |-> a1, done |-> d1]
  BY <1>2
<1> QED
  BY <1>3, <1>4, <1>5 DEF ShutdownInv

LEMMA PhasesAre ==
    /\ ShutdownPhases[1] = "StopClaims" /\ ShutdownPhases[2] = "PersistIntent"
    /\ ShutdownPhases[3] = "WaitSafeBoundary" /\ ShutdownPhases[4] = "ProveRecoverable" /\ Len(ShutdownPhases) = 4
  BY DEF ShutdownPhases

LEMMA PrepareKeeps == ASSUME ShutdownInv, Prepare PROVE ShutdownInv'
<1>1. PICK p, l, h, a, d : shutdown = [pc |-> p, policies |-> l, phase |-> h, at |-> a, done |-> d]
  BY DEF ShutdownInv
<1>2. /\ shutdown.pc = p /\ shutdown.policies = l /\ shutdown.phase = h /\ shutdown.at = a /\ shutdown.done = d
  BY <1>1
<1>3. p = "prepare"
  BY <1>2 DEF Prepare
<1>4. /\ a \in Nat \ {0} /\ h \in 1..4 /\ a <= Len(l)
  BY <1>2, <1>3 DEF ShutdownInv
<1>5. Len(l) \in Nat /\ DOMAIN l = 1..Len(l)
  <2>1. PICK S : l \in Seq(S)
    BY <1>2 DEF ShutdownInv
  <2> QED
    BY <2>1
<1>6. h = 1 => /\ \A x \in d : x[1] = "StopClaims"
               /\ \A i \in DOMAIN l : i < a => <<"StopClaims", l[i]>> \in d
  BY <1>2, <1>3 DEF ShutdownInv
<1>7. h = 4 => \A i \in DOMAIN l : i < a => <<"ProveRecoverable", l[i]>> \in d
  BY <1>2, <1>3 DEF ShutdownInv
<1>8. h > 1 => \A i \in DOMAIN l : <<"StopClaims", l[i]>> \in d
  BY <1>2, <1>3 DEF ShutdownInv
<1>9. CASE shutdown' = [shutdown EXCEPT !.pc = "failed"]
  BY <1>9, ShutdownFails
<1>10. ASSUME LET last == shutdown.at = Len(shutdown.policies)
              IN shutdown' = [shutdown EXCEPT
                                !.done = @ \cup {<<ShutdownPhases[shutdown.phase], shutdown.policies[shutdown.at]>>},
                                !.at = IF last THEN 1 ELSE @ + 1,
                                !.phase = IF last THEN @ + 1 ELSE @,
                                !.pc = IF last /\ shutdown.phase = Len(ShutdownPhases) THEN "done" ELSE "prepare"]
       PROVE  ShutdownInv'
  <2>1. PICK e, b, g, q : /\ e = d \cup {<<ShutdownPhases[h], l[a]>>}
                          /\ b = (IF a = Len(l) THEN 1 ELSE a + 1)
                          /\ g = (IF a = Len(l) THEN h + 1 ELSE h)
                          /\ q = (IF a = Len(l) /\ h = 4 THEN "done" ELSE "prepare")
    OBVIOUS
  <2>2. shutdown' = [pc |-> q, policies |-> l, phase |-> g, at |-> b, done |-> e]
    BY <1>1, <1>2, <1>10, <2>1, PhasesAre
  <2>3. /\ shutdown'.pc = q /\ shutdown'.policies = l /\ shutdown'.phase = g /\ shutdown'.at = b /\ shutdown'.done = e
    BY <2>2
  <2>4. \E p1, l1, h1, a1, d1 : shutdown' = [pc |-> p1, policies |-> l1, phase |-> h1, at |-> a1, done |-> d1]
    BY <2>2
  <2>5. q \in {"prepare", "failed", "done"} /\ b \in Nat \ {0} /\ g \in Nat
    BY <1>4, <2>1
  <2>6. \E S : l \in Seq(S)
    BY <1>2 DEF ShutdownInv
  <2>7. q = "prepare" => g \in 1..4 /\ b <= Len(l)
    <3>1. CASE a = Len(l) /\ h # 4
      <4>1. b = 1 /\ g = h + 1 /\ h \in 1..3 /\ 1 <= Len(l)
        BY <1>4, <1>5, <2>1, <3>1
      <4> QED
        BY <4>1
    <3>2. CASE a # Len(l)
      <4>1. b = a + 1 /\ g = h /\ q = "prepare"
        BY <2>1, <3>2
      <4>2. a + 1 <= Len(l)
        <5>1. PICK n : n = Len(l)
          OBVIOUS
        <5>2. n \in Nat /\ a \in Nat /\ a <= n /\ a # n
          BY <1>4, <1>5, <3>2, <5>1
        <5>3. a + 1 <= n
          BY <5>2
        <5> QED
          BY <5>1, <5>3
      <4> QED
        BY <1>4, <4>1, <4>2
    <3>3. CASE a = Len(l) /\ h = 4
      BY <2>1, <3>3
    <3> QED
      BY <3>1, <3>2, <3>3
  <2>8. \A i \in DOMAIN l : i \in Nat /\ i >= 1 /\ i <= Len(l)
    BY <1>5
  <2>9. h = 1 => /\ \A x \in e : x[1] = "StopClaims"
                 /\ \A i \in DOMAIN l : i <= a => <<"StopClaims", l[i]>> \in e
    <3>1. HAVE h = 1
    <3>2. e = d \cup {<<"StopClaims", l[a]>>}
      BY <2>1, <3>1, PhasesAre
    <3>3. \A x \in e : x[1] = "StopClaims"
      BY <1>6, <3>1, <3>2
    <3>4. ASSUME NEW i \in DOMAIN l, i <= a PROVE <<"StopClaims", l[i]>> \in e
      <4>1. i < a \/ i = a
        BY <1>4, <2>8, <3>4
      <4> QED
        BY <1>6, <3>1, <3>2, <4>1
    <3> QED
      BY <3>3, <3>4
  <2>10. h > 1 => \A i \in DOMAIN l : <<"StopClaims", l[i]>> \in e
    BY <1>8, <2>1
  <2>11. h = 4 => \A i \in DOMAIN l : i <= a => <<"ProveRecoverable", l[i]>> \in e
    <3>1. HAVE h = 4
    <3>2. e = d \cup {<<"ProveRecoverable", l[a]>>}
      BY <2>1, <3>1, PhasesAre
    <3>4. ASSUME NEW i \in DOMAIN l, i <= a PROVE <<"ProveRecoverable", l[i]>> \in e
      <4>1. i < a \/ i = a
        BY <1>4, <2>8, <3>4
      <4> QED
        BY <1>7, <3>1, <3>2, <4>1
    <3> QED
      BY <3>4
  <2>12. q = "prepare" /\ g = 1 => /\ \A x \in e : x[1] = "StopClaims"
                                   /\ \A i \in DOMAIN l : i < b => <<"StopClaims", l[i]>> \in e
    <3>1. HAVE q = "prepare" /\ g = 1
    <3>2. h = 1 /\ b = a + 1
      BY <1>4, <2>1, <3>1
    <3>3. \A i \in DOMAIN l : i < b => i <= a
      BY <1>4, <2>8, <3>2
    <3> QED
      BY <2>9, <3>2, <3>3
  <2>13. q = "prepare" /\ g = 4 => \A i \in DOMAIN l : i < b => <<"ProveRecoverable", l[i]>> \in e
    <3>1. HAVE q = "prepare" /\ g = 4
    <3>2. (h = 4 /\ b = a + 1) \/ b = 1
      BY <1>4, <2>1, <3>1
    <3>3. b = 1 => \A i \in DOMAIN l : ~(i < b)
      BY <2>8
    <3>4. b = a + 1 => \A i \in DOMAIN l : i < b => i <= a
      BY <1>4, <2>8
    <3> QED
      BY <2>11, <3>2, <3>3, <3>4
  <2>14. q = "prepare" /\ g > 1 => \A i \in DOMAIN l : <<"StopClaims", l[i]>> \in e
    <3>1. HAVE q = "prepare" /\ g > 1
    <3>2. h > 1 \/ (h = 1 /\ a = Len(l))
      BY <1>4, <2>1, <3>1
    <3>3. a = Len(l) => \A i \in DOMAIN l : i <= a
      BY <2>8
    <3> QED
      BY <2>9, <2>10, <3>2, <3>3
  <2>15. \A x \in e, r \in ToSet(l) : x[1] # "StopClaims" => <<"StopClaims", r>> \in e
    <3>1. CASE h = 1
      BY <2>9, <3>1
    <3>2. CASE h > 1
      BY <2>10, <3>2 DEF ToSet
    <3> QED
      BY <1>4, <3>1, <3>2
  <2>16. q = "done" => \A r \in ToSet(l) : <<"ProveRecoverable", r>> \in e
    <3>1. HAVE q = "done"
    <3>2. h = 4 /\ a = Len(l)
      BY <2>1, <3>1
    <3>3. \A i \in DOMAIN l : i <= a
      BY <2>8, <3>2
    <3> QED
      BY <2>11, <3>2, <3>3 DEF ToSet
  <2>17. ShutdownInPhases'
    BY <2>3, <2>15, <2>16 DEF ShutdownInPhases
  <2> QED
    BY <2>3, <2>4, <2>5, <2>6, <2>7, <2>12, <2>13, <2>14, <2>17 DEF ShutdownInv
<1> QED
  BY <1>9, <1>10 DEF Prepare

LEMMA ShutdownStart ==
    ASSUME IsFiniteSet(Policies), NEW order \in SetToSeqs(Policies)
    PROVE  shutdown = [NoShutdown EXCEPT !.pc = IF order = <<>> THEN "done" ELSE "prepare", !.policies = order]
             => ShutdownInv
<1>a. HAVE shutdown = [NoShutdown EXCEPT !.pc = IF order = <<>> THEN "done" ELSE "prepare", !.policies = order]
<1>1. order \in Seq(Policies)
  BY OrderIsSequence
<1>q. PICK q : q = (IF order = <<>> THEN "done" ELSE "prepare")
  OBVIOUS
<1>2. shutdown = [pc |-> q, policies |-> order, phase |-> 1, at |-> 1, done |-> {}]
  BY <1>a, <1>q DEF NoShutdown
<1>3. /\ shutdown.pc = q /\ shutdown.policies = order
      /\ shutdown.phase = 1 /\ shutdown.at = 1 /\ shutdown.done = {}
  <2>1. PICK l : l = order
    OBVIOUS
  <2>2. shutdown = [pc |-> q, policies |-> l, phase |-> 1, at |-> 1, done |-> {}]
    BY <1>2, <2>1
  <2>3. shutdown.pc = q /\ shutdown.policies = l /\ shutdown.phase = 1 /\ shutdown.at = 1
    BY <2>2
  <2>4. shutdown.done = {}
    BY <2>2
  <2> QED
    BY <2>1, <2>3, <2>4
<1>4. \E p, l, h, a, d : shutdown = [pc |-> p, policies |-> l, phase |-> h, at |-> a, done |-> d]
  BY <1>2
<1>5. order # <<>> => 1 <= Len(order)
  BY <1>1
<1>6. \A i \in DOMAIN order : ~(i < 1)
  BY <1>1
<1>7. order = <<>> => ToSet(order) = {}
  BY DEF ToSet
<1>8. ShutdownInPhases
  BY <1>q, <1>3, <1>7 DEF ShutdownInPhases
<1>9. \E S : shutdown.policies \in Seq(S)
  BY <1>1, <1>3
<1>10. /\ shutdown.pc \in {"prepare", "failed", "done"} /\ shutdown.at \in Nat \ {0} /\ shutdown.phase \in Nat
       /\ ~(shutdown.phase > 1) /\ shutdown.phase # 4
  BY <1>q, <1>3
<1>11. shutdown.pc = "prepare" => shutdown.phase \in 1..4 /\ shutdown.at <= Len(shutdown.policies)
  BY <1>q, <1>3, <1>5
<1>12. /\ \A d \in shutdown.done : d[1] = "StopClaims"
       /\ \A i \in DOMAIN shutdown.policies : i < shutdown.at => <<"StopClaims", shutdown.policies[i]>> \in shutdown.done
  BY <1>3, <1>6
<1> QED
  BY <1>4, <1>8, <1>9, <1>10, <1>11, <1>12 DEF ShutdownInv

LEMMA NoShutdownStart == ASSUME shutdown = NoShutdown PROVE ShutdownInv
<1>1. shutdown = [pc |-> "done", policies |-> <<>>, phase |-> 1, at |-> 1, done |-> {}]
  BY DEF NoShutdown
<1>2. shutdown.pc = "done" /\ shutdown.policies = <<>> /\ shutdown.phase = 1 /\ shutdown.at = 1 /\ shutdown.done = {}
  BY <1>1
<1>3. \E p, l, h, a, d : shutdown = [pc |-> p, policies |-> l, phase |-> h, at |-> a, done |-> d]
  BY <1>1
<1>4. ToSet(shutdown.policies) = {} /\ \E S : shutdown.policies \in Seq(S)
  BY <1>2 DEF ToSet
<1>5. ShutdownInPhases
  BY <1>2, <1>4 DEF ShutdownInPhases
<1>6. /\ shutdown.pc \in {"prepare", "failed", "done"} /\ shutdown.pc # "prepare"
      /\ shutdown.at \in Nat \ {0} /\ shutdown.phase \in Nat
  BY <1>2
<1> QED
  BY <1>3, <1>4, <1>5, <1>6 DEF ShutdownInv

(***************************************************************************)
(* The theorem.                                                            *)
(***************************************************************************)

RecoveryInv == ScanInv /\ StagesInv /\ ShutdownInv

(* Each action of the three coordinators leaves the state of the others.   *)
LEMMA RecoveryStep == ASSUME RecoveryInv, [RecoveryNext]_recoveryVars PROVE RecoveryInv'
<1>1. ScanInv /\ StagesInv /\ ShutdownInv
  BY DEF RecoveryInv
<1>2. CASE Recover
  <2>1. UNCHANGED stages /\ UNCHANGED shutdown
    BY <1>2 DEF Recover
  <2> QED
    BY <1>1, <1>2, <2>1, RecoverKeeps, StagesStay, ShutdownStays DEF RecoveryInv
<1>3. CASE Inspect
  <2>1. UNCHANGED stages /\ UNCHANGED shutdown
    BY <1>3 DEF Inspect
  <2> QED
    BY <1>1, <1>3, <2>1, InspectKeeps, StagesStay, ShutdownStays DEF RecoveryInv
<1>4. CASE Plan
  <2>1. UNCHANGED stages /\ UNCHANGED shutdown
    BY <1>4 DEF Plan
  <2> QED
    BY <1>1, <1>4, <2>1, PlanKeeps, StagesStay, ShutdownStays DEF RecoveryInv
<1>5. ASSUME NEW id \in DOMAIN jobRows, JobMoves(id) PROVE RecoveryInv'
  <2>1. UNCHANGED stages /\ UNCHANGED shutdown
    BY <1>5 DEF JobMoves
  <2> QED
    BY <1>1, <1>5, <2>1, MovesKeeps, StagesStay, ShutdownStays DEF RecoveryInv
<1>6. CASE ScanStage
  <2>1. UNCHANGED <<jobRows, scan, changes>> /\ UNCHANGED shutdown
    BY <1>6 DEF ScanStage
  <2> QED
    BY <1>1, <1>6, <2>1, ScanStays, ScanStageKeeps, ShutdownStays DEF RecoveryInv
<1>7. CASE StartStage
  <2>1. UNCHANGED <<jobRows, scan, changes>> /\ UNCHANGED shutdown
    BY <1>7 DEF StartStage
  <2> QED
    BY <1>1, <1>7, <2>1, ScanStays, StartStageKeeps, ShutdownStays DEF RecoveryInv
<1>8. CASE Prepare
  <2>1. UNCHANGED <<jobRows, scan, changes>> /\ UNCHANGED stages
    BY <1>8 DEF Prepare
  <2> QED
    BY <1>1, <1>8, <2>1, ScanStays, StagesStay, PrepareKeeps DEF RecoveryInv
<1>9. CASE UNCHANGED recoveryVars
  <2>1. UNCHANGED <<jobRows, scan, changes>> /\ UNCHANGED stages /\ UNCHANGED shutdown
    BY <1>9 DEF recoveryVars
  <2> QED
    BY <1>1, <2>1, ScanStays, StagesStay, ShutdownStays DEF RecoveryInv
<1> QED
  BY <1>2, <1>3, <1>4, <1>5, <1>6, <1>7, <1>8, <1>9 DEF RecoveryNext

LEMMA RecoveryStart ==
    ASSUME IsFiniteSet(Policies),
           NEW JobKinds, JobRows \subseteq Seq([kind : JobKinds, status : Status, generation : Nat]),
           NEW Stages, StageLists \subseteq Seq([stage : Stages, scans : BOOLEAN, works : BOOLEAN]),
           RecoveryInit
    PROVE  RecoveryInv
<1>1. ScanInv
  BY ScanStart
<1>2. StagesInv
  BY StagesStart, NoStagesStart DEF RecoveryInit, ScanInit, ShutdownInit
<1>3. ShutdownInv
  BY ShutdownStart, NoShutdownStart DEF RecoveryInit, ScanInit, StagesInit, ShutdownInit
<1> QED
  BY <1>1, <1>2, <1>3 DEF RecoveryInv

(* The recovery of durable Jobs changes a Job only as the scan listed it   *)
(* and only with its required effects sealed (Registry.recoverOne), starts *)
(* the worker of a stage after the scans of it and of the earlier ones     *)
(* (Coordinator.Recover), and prepares a shutdown phase by phase           *)
(* (ShutdownCoordinator.Prepare): for every set of registered kinds,       *)
(* stages, outcomes and policies, whatever else moves the Jobs meanwhile.  *)
THEOREM RecoveryIsOrderedHolds ==
    ASSUME IsFiniteSet(Policies),
           NEW CONSTANT JobKinds, JobRows \subseteq Seq([kind : JobKinds, status : Status, generation : Nat]),
           NEW CONSTANT Stages, StageLists \subseteq Seq([stage : Stages, scans : BOOLEAN, works : BOOLEAN])
    PROVE  RecoveryInit /\ [][RecoveryNext]_recoveryVars => []RecoveryIsOrdered
<1>1. RecoveryInit => RecoveryInv
  BY RecoveryStart
<1>2. RecoveryInv /\ [RecoveryNext]_recoveryVars => RecoveryInv'
  BY RecoveryStep
<1>3. RecoveryInv => RecoveryIsOrdered
  BY StagesAreInOrder DEF RecoveryInv, RecoveryIsOrdered, ScanInv, ShutdownInv
<1> QED
  BY <1>1, <1>2, <1>3, PTL

-------------------------------------------------------------------------------

(***************************************************************************)
(* The machine settings.                                                   *)
(***************************************************************************)

(* A document and a patch have their sections: what the decoder of a       *)
(* document or of a request body returns.                                  *)
IsDocument(d) ==
    \E v, b, p, g, a, l, n, m, h, y :
       d = [version |-> v, browser |-> b, package |-> p, graph |-> g, ai |-> a, logs |-> l,
            backup |-> [days |-> n, mode |-> m, path |-> h, daily |-> y]]
PatchesAreWhole ==
    \A p \in Patches : \E b, g, a, l, k : p = [browser |-> b, graph |-> g, ai |-> a, logs |-> l, backup |-> k]
FilesAreWhole == \A f \in FirstFiles : f # <<>> /\ f[1].version = SchemaVersion => IsDocument(f[1])

(* What every writer holds: documents, one that validates once it has the  *)
(* lock.                                                                   *)
Holding == {"preserve", "write", "replace"}
WriterOK(r) ==
    /\ \E p, s, q, b, n, a, o :
          r = [pc |-> p, stage |-> s, request |-> q, base |-> b, next |-> n, answer |-> a, wrote |-> o]
    /\ IsDocument(r.base) /\ IsDocument(r.next)
    /\ r.pc \in Holding => Validate(r.next)

(* A request at work has written nothing but the reset its PATCH begins    *)
(* with, or the root it reads back; what it saves, or has saved, is the    *)
(* patched document.                                                       *)
Written(r) ==
    CASE r.stage = "reset" -> r.wrote = 0 /\ UsesDefaultRoot(r.request[1])
      [] r.stage = "update" -> r.wrote = 0 \/ (r.wrote = 1 /\ UsesDefaultRoot(r.request[1]))
      [] OTHER -> r.wrote = IF r.pc = "reread" THEN 1 ELSE 0
Refused(r) ==
    /\ r.pc = "idle" /\ r.answer \notin {"OK", "none"} =>
         IF r.stage = "select" THEN r.wrote = IF r.answer = "SETTINGS_UNAVAILABLE" THEN 1 ELSE 0
         ELSE r.wrote = 0 \/ (UsesDefaultRoot(r.request[1]) /\ r.wrote = 1)
    /\ r.answer = "OK" => r.wrote > 0
ClientOK(r) ==
    /\ r.pc \in {"idle", "probe", "load", "save", "reread"} \cup Holding
    /\ r.stage \in {"none", "reset", "update", "select"}
    /\ r.pc = "reread" => r.stage = "select"
    /\ r.pc # "idle" => r.answer = "none" /\ r.stage # "none" /\ Written(r)
    /\ r.stage \in {"reset", "update"} => r.request[1] \in Patches
    /\ r.stage = "update" /\ (r.pc \in {"save"} \cup Holding \/ r.answer = "OK") =>
         r.next = Patched(r.base, r.request[1])
    /\ Refused(r)
StartupOK(r) ==
    /\ r.pc \in {"idle", "save", "launch"} \cup Holding
    /\ r.pc # "idle" => r.stage = "migrate"

WritersOK ==
    /\ writer = [w \in Writers |-> writer[w]]
    /\ \A w \in Writers : WriterOK(writer[w])
    /\ \A c \in Clients : ClientOK(writer[c])
    /\ StartupOK(writer[Startup])

(* A writer that replaces the file has the lock, and has preserved what it *)
(* replaces.                                                               *)
LockOK ==
    \A w \in Writers :
        /\ writer[w].pc \in Holding => settingsLock = w
        /\ writer[w].pc \in {"write", "replace"} => previousFile = settingsFile

FilesOK ==
    /\ settingsFile = <<>> => previousFile = <<>> /\ replacedFile = <<>>
    /\ settingsFile # <<>> /\ settingsFile[1].version = SchemaVersion => IsDocument(settingsFile[1])
    /\ FileLoads /\ PreviousIsPrior

ServerOK ==
    /\ \E u, s, l : server = [up |-> u, settings |-> s, launch |-> l]
    /\ server.up => Validate(server.settings)

SettingsInv == WritersOK /\ LockOK /\ FilesOK /\ ServerOK

WritersAreApart == Startup \notin Clients /\ Nobody \notin Clients

-----------------------------------------------------------------------------

LEMMA DefaultIsDocument == IsDocument(Default)
  BY DEF IsDocument, Default

LEMMA RootIsDocument == ASSUME NEW d, IsDocument(d), NEW m, NEW h PROVE IsDocument(WithRoot(d, m, h))
<1>1. PICK v, b, p, g, a, l, n, y, m1, h1 :
        d = [version |-> v, browser |-> b, package |-> p, graph |-> g, ai |-> a, logs |-> l,
             backup |-> [days |-> n, mode |-> m1, path |-> h1, daily |-> y]]
  BY DEF IsDocument
<1>2. PICK k, e : /\ k = [days |-> n, mode |-> m1, path |-> h1, daily |-> y]
                 /\ e = [days |-> n, mode |-> m, path |-> h, daily |-> y]
  OBVIOUS
<1>3. d = [version |-> v, browser |-> b, package |-> p, graph |-> g, ai |-> a, logs |-> l, backup |-> k]
  BY <1>1, <1>2
<1>4. [k EXCEPT !.mode = m, !.path = h] = e
  <2>1. PICK j : j = [days |-> n, mode |-> m, path |-> h1, daily |-> y]
    OBVIOUS
  <2>2. [k EXCEPT !.mode = m] = j
    BY <1>2, <2>1
  <2>3. [j EXCEPT !.path = h] = e
    BY <1>2, <2>1
  <2>4. [k EXCEPT !.mode = m, !.path = h] = [j EXCEPT !.path = h]
    BY <2>2
  <2> QED
    BY <2>3, <2>4
<1>5. WithRoot(d, m, h) = [d EXCEPT !.backup = [k EXCEPT !.mode = m, !.path = h]]
  BY <1>3 DEF WithRoot
<1>6. WithRoot(d, m, h) =
        [version |-> v, browser |-> b, package |-> p, graph |-> g, ai |-> a, logs |-> l, backup |-> e]
  BY <1>3, <1>4, <1>5
<1>7. WithRoot(d, m, h) =
        [version |-> v, browser |-> b, package |-> p, graph |-> g, ai |-> a, logs |-> l,
         backup |-> [days |-> n, mode |-> m, path |-> h, daily |-> y]]
  BY <1>2, <1>6
<1> QED
  BY <1>7 DEF IsDocument

(* A patch leaves every section it does not name (Update).                 *)
LEMMA PatchIs ==
    ASSUME NEW d, IsDocument(d), NEW p
    PROVE  /\ IsDocument(Patched(d, p))
           /\ p.browser = <<>> => Patched(d, p).browser = d.browser
           /\ p.graph = <<>> => Patched(d, p).graph = d.graph
           /\ p.ai = <<>> => Patched(d, p).ai = d.ai
           /\ p.logs = <<>> => Patched(d, p).logs = d.logs
           /\ p.backup = <<>> => Patched(d, p).backup = d.backup
<1>1. PICK v, b, k, g, a, l, n, m, h, y :
        d = [version |-> v, browser |-> b, package |-> k, graph |-> g, ai |-> a, logs |-> l,
             backup |-> [days |-> n, mode |-> m, path |-> h, daily |-> y]]
  BY DEF IsDocument
<1>2. PICK b1, g1, a1, l1, y1 :
        /\ b1 = Section(p.browser, b) /\ g1 = Section(p.graph, g) /\ a1 = Section(p.ai, a) /\ l1 = Section(p.logs, l)
        /\ y1 = IF p.backup = <<>> \/ p.backup[1].daily = 0 THEN y ELSE p.backup[1].daily
  OBVIOUS
<1>6. PICK r, e : /\ r = [days |-> n, mode |-> m, path |-> h, daily |-> y]
                 /\ e = [days |-> n, mode |-> m, path |-> h, daily |-> y1]
  OBVIOUS
<1>7. d = [version |-> v, browser |-> b, package |-> k, graph |-> g, ai |-> a, logs |-> l, backup |-> r]
  BY <1>1, <1>6
<1>8. r.daily = y /\ [r EXCEPT !.daily = y1] = e
  BY <1>6
<1>9. Patched(d, p) = [d EXCEPT !.browser = b1, !.graph = g1, !.ai = a1, !.logs = l1, !.backup = [r EXCEPT !.daily = y1]]
  BY <1>2, <1>7, <1>8 DEF Patched
<1>10. Patched(d, p) =
        [version |-> v, browser |-> b1, package |-> k, graph |-> g1, ai |-> a1, logs |-> l1, backup |-> e]
  BY <1>7, <1>8, <1>9
<1>3. Patched(d, p) =
        [version |-> v, browser |-> b1, package |-> k, graph |-> g1, ai |-> a1, logs |-> l1,
         backup |-> [days |-> n, mode |-> m, path |-> h, daily |-> y1]]
  BY <1>6, <1>10
<1>4. IsDocument(Patched(d, p))
  BY <1>3 DEF IsDocument
<1>5. /\ p.browser = <<>> => b1 = b
      /\ p.graph = <<>> => g1 = g
      /\ p.ai = <<>> => a1 = a
      /\ p.logs = <<>> => l1 = l
      /\ p.backup = <<>> => y1 = y
  BY <1>2 DEF Section
<1> QED
  BY <1>1, <1>3, <1>4, <1>5

LEMMA EffectsFollow ==
    ASSUME NEW d, IsDocument(d), NEW p, NEW field \in settingsEffects(d, Patched(d, p))
    PROVE  p[field] # <<>>
<1>1. field \in {"browser", "graph", "ai", "logs", "backup"} /\ d[field] # Patched(d, p)[field]
  BY DEF settingsEffects
<1> QED
  BY <1>1, PatchIs

LEMMA DefaultIs ==
    \E k, g, a : /\ Default = [version |-> SchemaVersion, browser |-> TRUE, package |-> "development", graph |-> g,
                               ai |-> a, logs |-> 5, backup |-> k]
                 /\ k = [days |-> 30, mode |-> "default", path |-> <<>>, daily |-> 10]
<1>1. PICK k, g, a : /\ k = [days |-> 30, mode |-> "default", path |-> <<>>, daily |-> 10]
                     /\ g = [mode |-> "disabled", endpoint |-> <<>>, limit |-> 3]
                     /\ a = [enabled |-> FALSE, endpoint |-> <<>>, timeout |-> 120, cloud |-> FALSE]
  OBVIOUS
<1> QED
  BY <1>1 DEF Default

(* What the sections of an older document are put into has all sections.   *)
LEMMA DocumentOf ==
    ASSUME NEW d, NEW v, NEW b, NEW p, NEW g, NEW a, NEW l, NEW k, NEW n, NEW m, NEW h, NEW y,
           d = [version |-> v, browser |-> b, package |-> p, graph |-> g, ai |-> a, logs |-> l, backup |-> k],
           k = [days |-> n, mode |-> m, path |-> h, daily |-> y]
    PROVE  IsDocument(d)
  BY DEF IsDocument

LEMMA LoadIsDocument ==
    ASSUME FilesOK, Loads(settingsFile)
    PROVE  IsDocument(Load(settingsFile))
<1>1. CASE settingsFile = <<>>
  BY <1>1, DefaultIsDocument DEF Load
<1>2. CASE settingsFile # <<>>
  <2>1. PICK d : d = settingsFile[1] /\ d.version \in 0..2 /\ Load(settingsFile) = decodeWithMigration(d)
    BY <1>2 DEF Loads, Load
  <2>2. PICK k, g, a : /\ Default = [version |-> SchemaVersion, browser |-> TRUE, package |-> "development",
                                     graph |-> g, ai |-> a, logs |-> 5, backup |-> k]
                       /\ k = [days |-> 30, mode |-> "default", path |-> <<>>, daily |-> 10]
    BY DefaultIs
  <2>3. CASE d.version = 0
    <3>1. decodeWithMigration(d) = [Default EXCEPT !.browser = d.browser]
      BY <2>3 DEF decodeWithMigration
    <3>2. decodeWithMigration(d) =
            [version |-> SchemaVersion, browser |-> d.browser, package |-> "development", graph |-> g, ai |-> a,
             logs |-> 5, backup |-> k]
      BY <2>2, <3>1
    <3>3. IsDocument(decodeWithMigration(d))
      BY <2>2, <3>2, DocumentOf
    <3> QED
      BY <2>1, <3>3
  <2>4. CASE d.version = 1
    <3>1. decodeWithMigration(d) =
            [Default EXCEPT !.browser = d.browser, !.package = d.package, !.graph = d.graph,
                            !.ai = d.ai, !.logs = d.logs, !.backup.days = d.days]
      BY <2>4 DEF decodeWithMigration
    <3>2. PICK e : e = [k EXCEPT !.days = d.days]
      OBVIOUS
    <3>3. e = [days |-> d.days, mode |-> "default", path |-> <<>>, daily |-> 10]
      BY <2>2, <3>2
    <3>4. decodeWithMigration(d) =
            [Default EXCEPT !.browser = d.browser, !.package = d.package, !.graph = d.graph,
                            !.ai = d.ai, !.logs = d.logs, !.backup = e]
      BY <2>2, <3>1, <3>2
    <3>5. decodeWithMigration(d) =
            [version |-> SchemaVersion, browser |-> d.browser, package |-> d.package, graph |-> d.graph,
             ai |-> d.ai, logs |-> d.logs, backup |-> e]
      BY <2>2, <3>4
    <3>6. IsDocument(decodeWithMigration(d))
      BY <3>3, <3>5, DocumentOf
    <3> QED
      BY <2>1, <3>6
  <2>5. CASE d.version = 2
    <3>1. decodeWithMigration(d) = d
      BY <2>5 DEF decodeWithMigration
    <3>2. IsDocument(d)
      BY <1>2, <2>1, <2>5 DEF FilesOK, SchemaVersion
    <3> QED
      BY <2>1, <3>1, <3>2
  <2> QED
    BY <2>1, <2>3, <2>4, <2>5
<1> QED
  BY <1>1, <1>2

(* A valid document that is written loads again.                           *)
LEMMA ValidLoads == ASSUME NEW d, Validate(d) PROVE Loads(<<d>>)
<1>1. d.version = 2
  BY DEF Validate, SchemaVersion
<1>2. decodeWithMigration(d) = d
  BY <1>1 DEF decodeWithMigration
<1>3. <<d>>[1] = d
  OBVIOUS
<1> QED
  BY <1>1, <1>2, <1>3 DEF Loads

-----------------------------------------------------------------------------

(* One writer moves.                                                       *)
Moves(w, r) == writer' = [v \in Writers |-> IF v = w THEN r ELSE writer[v]]
At(r, p, x) == [pc |-> p, stage |-> r.stage, request |-> r.request, base |-> r.base, next |-> r.next,
                answer |-> x, wrote |-> r.wrote]

LEMMA WriterMoves ==
    ASSUME WritersOK, WritersAreApart, NEW w \in Writers, NEW r, Moves(w, r), WriterOK(r),
           w \in Clients => ClientOK(r), w = Startup => StartupOK(r)
    PROVE  WritersOK'
<1>1. \A v \in Writers : writer'[v] = IF v = w THEN r ELSE writer[v]
  BY DEF Moves
<1>2. writer' = [v \in Writers |-> writer'[v]]
  BY DEF Moves
<1>3. Clients \subseteq Writers /\ Startup \in Writers
  BY DEF Writers
<1>4. \A v \in Writers : WriterOK(writer'[v])
  BY <1>1 DEF WritersOK
<1>5. \A c \in Clients : ClientOK(writer'[c])
  BY <1>1, <1>3 DEF WritersOK
<1>6. StartupOK(writer'[Startup])
  BY <1>1, <1>3 DEF WritersOK
<1> QED
  BY <1>2, <1>4, <1>5, <1>6 DEF WritersOK

LEMMA LockMoves ==
    ASSUME LockOK, NEW w \in Writers, NEW r, Moves(w, r), r.pc \notin Holding,
           UNCHANGED <<settingsLock, previousFile, settingsFile>>
    PROVE  LockOK'
<1>1. \A v \in Writers : writer'[v] = IF v = w THEN r ELSE writer[v]
  BY DEF Moves
<1> QED
  BY <1>1 DEF LockOK, Holding

LEMMA FilesStay == ASSUME FilesOK, UNCHANGED <<settingsFile, previousFile, replacedFile>> PROVE FilesOK'
  BY DEF FilesOK, FileLoads, PreviousIsPrior

LEMMA ServerStays == ASSUME ServerOK, UNCHANGED server PROVE ServerOK'
  BY DEF ServerOK

LEMMA AnswerMoves ==
    ASSUME WritersOK, NEW w \in Writers, NEW x, Answer(w, x)
    PROVE  Moves(w, At(writer[w], "idle", x))
<1>1. PICK p, s, q, b, n, a, o :
        writer[w] = [pc |-> p, stage |-> s, request |-> q, base |-> b, next |-> n, answer |-> a, wrote |-> o]
  BY DEF WritersOK, WriterOK
<1>2. writer = [v \in Writers |-> writer[v]]
  BY DEF WritersOK
<1>4. PICK r, e : r = writer[w] /\ e = [r EXCEPT !.pc = "idle"]
  OBVIOUS
<1>f. PICK f : f = [e EXCEPT !.answer = x]
  OBVIOUS
<1>5. e = [pc |-> "idle", stage |-> s, request |-> q, base |-> b, next |-> n, answer |-> a, wrote |-> o]
  BY <1>1, <1>4
<1>6. f = [pc |-> "idle", stage |-> s, request |-> q, base |-> b, next |-> n, answer |-> x, wrote |-> o]
  BY <1>f, <1>5
<1>7. f = At(r, "idle", x)
  BY <1>1, <1>4, <1>6 DEF At
<1>8. writer' = [writer EXCEPT ![w] = [r EXCEPT !.pc = "idle", !.answer = x]]
  BY <1>2, <1>4 DEF Answer
<1>9. [r EXCEPT !.pc = "idle", !.answer = x] = f
  BY <1>4, <1>f
<1>3. writer' = [writer EXCEPT ![w] = At(writer[w], "idle", x)]
  BY <1>4, <1>7, <1>8, <1>9
<1> QED
  BY <1>2, <1>3 DEF Moves

LEMMA GoesMoves ==
    ASSUME WritersOK, NEW w \in Writers, NEW x, Goes(w, x)
    PROVE  Moves(w, At(writer[w], x, writer[w].answer))
<1>1. PICK p, s, q, b, n, a, o :
        writer[w] = [pc |-> p, stage |-> s, request |-> q, base |-> b, next |-> n, answer |-> a, wrote |-> o]
  BY DEF WritersOK, WriterOK
<1>2. writer = [v \in Writers |-> writer[v]]
  BY DEF WritersOK
<1>4. PICK r, e : r = writer[w] /\ e = [r EXCEPT !.pc = x]
  OBVIOUS
<1>5. e = [pc |-> x, stage |-> s, request |-> q, base |-> b, next |-> n, answer |-> a, wrote |-> o]
  BY <1>1, <1>4
<1>6. e = At(r, x, r.answer)
  BY <1>1, <1>4, <1>5 DEF At
<1>7. writer' = [writer EXCEPT ![w] = e]
  BY <1>2, <1>4 DEF Goes
<1>3. writer' = [writer EXCEPT ![w] = At(writer[w], x, writer[w].answer)]
  BY <1>4, <1>6, <1>7
<1> QED
  BY <1>2, <1>3 DEF Moves

LEMMA AtOK ==
    ASSUME NEW r, WriterOK(r), NEW p, NEW x, p \in Holding => Validate(r.next)
    PROVE  WriterOK(At(r, p, x))
<1>1. PICK e : e = At(r, p, x)
  OBVIOUS
<1>2. e = [pc |-> p, stage |-> r.stage, request |-> r.request, base |-> r.base, next |-> r.next,
           answer |-> x, wrote |-> r.wrote]
  BY <1>1 DEF At
<1>3. e.pc = p /\ e.base = r.base /\ e.next = r.next
  BY <1>2
<1>4. \E p1, s, q, b, n, a, o :
          e = [pc |-> p1, stage |-> s, request |-> q, base |-> b, next |-> n, answer |-> a, wrote |-> o]
  BY <1>2
<1> QED
  BY <1>1, <1>3, <1>4 DEF WriterOK

LEMMA AtIs ==
    ASSUME NEW r, NEW p, NEW x
    PROVE  /\ At(r, p, x).pc = p /\ At(r, p, x).stage = r.stage /\ At(r, p, x).request = r.request
           /\ At(r, p, x).base = r.base /\ At(r, p, x).next = r.next /\ At(r, p, x).answer = x
           /\ At(r, p, x).wrote = r.wrote
  BY DEF At

(* A request at work ends with a refusal, or goes on.                      *)
LEMMA ClientRefused ==
    ASSUME NEW r, ClientOK(r), r.pc # "idle", NEW x, x \notin {"OK", "none"},
           r.stage = "select" => (x = "SETTINGS_UNAVAILABLE" <=> r.pc = "reread")
    PROVE  ClientOK(At(r, "idle", x))
<1>1. PICK e : e = At(r, "idle", x)
  OBVIOUS
<1>2. /\ e.pc = "idle" /\ e.stage = r.stage /\ e.request = r.request
      /\ e.base = r.base /\ e.next = r.next /\ e.answer = x /\ e.wrote = r.wrote
  BY <1>1, AtIs
<1>3. IF r.stage = "select" THEN r.wrote = IF r.pc = "reread" THEN 1 ELSE 0
      ELSE r.wrote = 0 \/ (UsesDefaultRoot(r.request[1]) /\ r.wrote = 1)
  BY DEF ClientOK, Written
<1>4. Refused(e)
  BY <1>2, <1>3 DEF Refused
<1>5. e.stage \in {"reset", "update"} => e.request[1] \in Patches
  BY <1>2 DEF ClientOK
<1>6. e.stage \in {"none", "reset", "update", "select"}
  BY <1>2 DEF ClientOK
<1> QED
  BY <1>1, <1>2, <1>4, <1>5, <1>6 DEF ClientOK, Holding

LEMMA ClientGoes ==
    ASSUME NEW r, ClientOK(r), r.pc # "idle", NEW p \in {"load", "save"} \cup Holding,
           p # "load" => r.pc \in {"save"} \cup Holding, r.pc # "reread"
    PROVE  ClientOK(At(r, p, r.answer))
<1>1. PICK e : e = At(r, p, r.answer)
  OBVIOUS
<1>2. /\ e.pc = p /\ e.stage = r.stage /\ e.request = r.request
      /\ e.base = r.base /\ e.next = r.next /\ e.answer = r.answer /\ e.wrote = r.wrote
  BY <1>1, AtIs
<1>3. r.answer = "none" /\ r.stage # "none" /\ Written(r)
  BY DEF ClientOK
<1>4. Written(e)
  BY <1>2, <1>3 DEF Written, Holding
<1>5. Refused(e)
  BY <1>2, <1>3 DEF Refused
<1>6. e.stage \in {"reset", "update"} => e.request[1] \in Patches
  BY <1>2 DEF ClientOK
<1>7. e.stage = "update" /\ (e.pc \in {"save"} \cup Holding \/ e.answer = "OK") => e.next = Patched(e.base, e.request[1])
  BY <1>2, <1>3 DEF ClientOK, Holding
<1>8. e.pc \in {"load", "save"} \cup Holding /\ "reread" \notin {"load", "save"} \cup Holding /\ e.stage \in {"none", "reset", "update", "select"}
  BY <1>2 DEF ClientOK, Holding
<1> QED
  BY <1>1, <1>2, <1>3, <1>4, <1>5, <1>6, <1>7, <1>8 DEF ClientOK

LEMMA AnswerKeeps ==
    ASSUME SettingsInv, WritersAreApart, NEW w \in Writers, NEW x, x \notin {"OK", "none"}, Answer(w, x),
           writer[w].pc # "idle", writer[w].stage = "select" => (x = "SETTINGS_UNAVAILABLE" <=> writer[w].pc = "reread")
    PROVE  WritersOK' /\ Moves(w, At(writer[w], "idle", x))
<1>1. WritersOK
  BY DEF SettingsInv
<1>2. Moves(w, At(writer[w], "idle", x))
  BY <1>1, AnswerMoves
<1>3. WriterOK(At(writer[w], "idle", x))
  BY <1>1, AtOK DEF WritersOK, Holding
<1>4. w \in Clients => ClientOK(At(writer[w], "idle", x))
  BY <1>1, ClientRefused DEF WritersOK
<1>5. StartupOK(At(writer[w], "idle", x))
  BY AtIs DEF StartupOK
<1> QED
  BY <1>1, <1>2, <1>3, <1>4, <1>5, WriterMoves

-----------------------------------------------------------------------------

(* The requests.                                                           *)

LEMMA ArrivalKeeps ==
    ASSUME SettingsInv, WritersAreApart, NEW c \in Clients, Arrives(c), NEW r, Moves(c, r), WriterOK(r), ClientOK(r),
           r.pc \notin Holding
    PROVE  SettingsInv'
<1>1. WritersOK /\ LockOK /\ FilesOK /\ ServerOK /\ c \in Writers
  BY DEF SettingsInv, Writers
<1>2. UNCHANGED <<settingsFile, previousFile, replacedFile, settingsLock, temporaries>> /\ UNCHANGED server
  BY DEF Arrives, files
<1>3. WritersOK'
  BY <1>1, WriterMoves DEF WritersAreApart
<1>4. LockOK'
  BY <1>1, <1>2, LockMoves
<1>5. FilesOK' /\ ServerOK'
  BY <1>1, <1>2, FilesStay, ServerStays
<1> QED
  BY <1>3, <1>4, <1>5 DEF SettingsInv

LEMMA PatchKeeps ==
    ASSUME SettingsInv, WritersAreApart, PatchesAreWhole, NEW c \in Clients, NEW p \in Patches, patch(c, p)
    PROVE  SettingsInv'
<1>1. PICK k, s, x : /\ k = (IF UsesDefaultRoot(p) THEN "probe" ELSE IF EmptyPatch(p) THEN "idle" ELSE "load")
                     /\ s = (IF UsesDefaultRoot(p) THEN "reset" ELSE "update")
                     /\ x = (IF EmptyPatch(p) THEN "SETTINGS_INVALID" ELSE "none")
  OBVIOUS
<1>2. PICK r : r = [pc |-> k, stage |-> s, request |-> <<p>>, base |-> Default, next |-> Default,
                    answer |-> x, wrote |-> 0]
  OBVIOUS
<1>3. [Resting EXCEPT !.request = <<p>>, !.pc = k, !.stage = s, !.answer = x] = r
  <2>1. PICK d, q : d = Default /\ q = <<p>>
    OBVIOUS
  <2>2. Resting = [pc |-> "idle", stage |-> "none", request |-> <<>>, base |-> d, next |-> d,
                   answer |-> "none", wrote |-> 0]
    BY <2>1 DEF Resting
  <2>3. PICK r1 : r1 = [Resting EXCEPT !.request = q]
    OBVIOUS
  <2>4. r1 = [pc |-> "idle", stage |-> "none", request |-> q, base |-> d, next |-> d, answer |-> "none", wrote |-> 0]
    BY <2>2, <2>3
  <2>5. PICK r2 : r2 = [r1 EXCEPT !.pc = k]
    OBVIOUS
  <2>6. r2 = [pc |-> k, stage |-> "none", request |-> q, base |-> d, next |-> d, answer |-> "none", wrote |-> 0]
    BY <2>4, <2>5
  <2>7. PICK r3 : r3 = [r2 EXCEPT !.stage = s]
    OBVIOUS
  <2>8. r3 = [pc |-> k, stage |-> s, request |-> q, base |-> d, next |-> d, answer |-> "none", wrote |-> 0]
    BY <2>6, <2>7
  <2>9. PICK r4 : r4 = [r3 EXCEPT !.answer = x]
    OBVIOUS
  <2>10. r4 = [pc |-> k, stage |-> s, request |-> q, base |-> d, next |-> d, answer |-> x, wrote |-> 0]
    BY <2>8, <2>9
  <2>11. [Resting EXCEPT !.request = q, !.pc = k, !.stage = s, !.answer = x] = r4
    BY <2>3, <2>5, <2>7, <2>9
  <2> QED
    BY <1>2, <2>1, <2>10, <2>11
<1>4. Moves(c, r)
  <2>1. writer' = [writer EXCEPT ![c] = r]
    BY <1>1, <1>3 DEF patch
  <2>2. writer = [v \in Writers |-> writer[v]]
    BY DEF SettingsInv, WritersOK
  <2> QED
    BY <2>1, <2>2 DEF Moves
<1>5. /\ r.pc = k /\ r.stage = s /\ r.request[1] = p /\ r.base = Default /\ r.next = Default
      /\ r.answer = x /\ r.wrote = 0
  BY <1>2
<1>6. WriterOK(r)
  <2>1. k \notin Holding
    BY <1>1 DEF Holding
  <2> QED
    BY <1>2, <1>5, <2>1, DefaultIsDocument DEF WriterOK
<1>7. ~(UsesDefaultRoot(p) /\ EmptyPatch(p))
  <2>1. PICK b, g, a, l, y : p = [browser |-> b, graph |-> g, ai |-> a, logs |-> l, backup |-> y]
    BY DEF PatchesAreWhole
  <2>2. "backup" \in DOMAIN p /\ p.backup = p["backup"]
    BY <2>1
  <2> QED
    BY <2>2 DEF UsesDefaultRoot, EmptyPatch
<1>8. ClientOK(r)
  <2>1. k \in {"idle", "probe", "load"} /\ s \in {"reset", "update"} /\ x \in {"SETTINGS_INVALID", "none"}
    BY <1>1
  <2>2. k # "idle" => x = "none"
    BY <1>1, <1>7
  <2>3. Written(r)
    BY <1>1, <1>5 DEF Written
  <2>4. Refused(r)
    BY <1>5, <2>1 DEF Refused
  <2> QED
    BY <1>5, <2>1, <2>2, <2>3, <2>4 DEF ClientOK, Holding
<1>9. Arrives(c) /\ k \notin Holding
  BY <1>1 DEF patch, Holding
<1> QED
  BY <1>4, <1>5, <1>6, <1>8, <1>9, ArrivalKeeps

LEMMA SelectKeeps ==
    ASSUME SettingsInv, WritersAreApart, NEW c \in Clients, NEW d, NEW active, selectBackupRoot(c, d, active)
    PROVE  SettingsInv'
<1>1. PICK k, x, n : /\ k = (IF active # <<>> /\ pathsOverlap(d, active) THEN "idle" ELSE "probe")
                     /\ x = (IF active # <<>> /\ pathsOverlap(d, active) THEN "BACKUP_PATH_SECURITY" ELSE "none")
                     /\ n = WithRoot(Default, "custom", d)
  OBVIOUS
<1>2. PICK r, q : /\ q = <<>>
                  /\ r = [pc |-> k, stage |-> "select", request |-> q, base |-> Default, next |-> n,
                          answer |-> x, wrote |-> 0]
  OBVIOUS
<1>3. [Resting EXCEPT !.pc = k, !.stage = "select", !.next = n, !.answer = x] = r
  <2>1. PICK e : e = Default
    OBVIOUS
  <2>2. Resting = [pc |-> "idle", stage |-> "none", request |-> q, base |-> e, next |-> e,
                   answer |-> "none", wrote |-> 0]
    BY <1>2, <2>1 DEF Resting
  <2>3. PICK r1 : r1 = [Resting EXCEPT !.pc = k]
    OBVIOUS
  <2>4. r1 = [pc |-> k, stage |-> "none", request |-> q, base |-> e, next |-> e, answer |-> "none", wrote |-> 0]
    BY <2>2, <2>3
  <2>5. PICK r2 : r2 = [r1 EXCEPT !.stage = "select"]
    OBVIOUS
  <2>6. r2 = [pc |-> k, stage |-> "select", request |-> q, base |-> e, next |-> e, answer |-> "none", wrote |-> 0]
    BY <2>4, <2>5
  <2>7. PICK r3 : r3 = [r2 EXCEPT !.next = n]
    OBVIOUS
  <2>8. r3 = [pc |-> k, stage |-> "select", request |-> q, base |-> e, next |-> n, answer |-> "none", wrote |-> 0]
    BY <2>6, <2>7
  <2>9. PICK r4 : r4 = [r3 EXCEPT !.answer = x]
    OBVIOUS
  <2>10. r4 = [pc |-> k, stage |-> "select", request |-> q, base |-> e, next |-> n, answer |-> x, wrote |-> 0]
    BY <2>8, <2>9
  <2>11. [Resting EXCEPT !.pc = k, !.stage = "select", !.next = n, !.answer = x] = r4
    BY <2>3, <2>5, <2>7, <2>9
  <2> QED
    BY <1>2, <2>1, <2>10, <2>11
<1>4. Moves(c, r)
  <2>1. writer' = [writer EXCEPT ![c] = r]
    BY <1>1, <1>3 DEF selectBackupRoot
  <2>2. writer = [v \in Writers |-> writer[v]]
    BY DEF SettingsInv, WritersOK
  <2> QED
    BY <2>1, <2>2 DEF Moves
<1>5. r.pc = k /\ r.stage = "select" /\ r.base = Default /\ r.next = n /\ r.answer = x /\ r.wrote = 0
  BY <1>2
<1>6. WriterOK(r)
  <2>1. k \notin Holding
    BY <1>1 DEF Holding
  <2>2. IsDocument(n)
    BY <1>1, DefaultIsDocument, RootIsDocument
  <2>3. \E p1, s1, q1, b1, n1, a1, o1 :
          r = [pc |-> p1, stage |-> s1, request |-> q1, base |-> b1, next |-> n1, answer |-> a1, wrote |-> o1]
    BY <1>2
  <2> QED
    BY <1>5, <2>1, <2>2, <2>3, DefaultIsDocument DEF WriterOK
<1>8. ClientOK(r)
  <2>1. k \in {"idle", "probe"} /\ x \in {"BACKUP_PATH_SECURITY", "none"} /\ (k # "idle" => x = "none")
    BY <1>1
  <2>3. Written(r)
    BY <1>5, <2>1 DEF Written
  <2>4. Refused(r)
    BY <1>5, <2>1 DEF Refused
  <2> QED
    BY <1>5, <2>1, <2>3, <2>4 DEF ClientOK, Holding
<1>9. Arrives(c) /\ k \notin Holding
  BY <1>1 DEF selectBackupRoot, Holding
<1> QED
  BY <1>4, <1>5, <1>6, <1>8, <1>9, ArrivalKeeps

(* A step of a writer that leaves the files and the lock alone.            *)
LEMMA QuietKeeps ==
    ASSUME SettingsInv, NEW w \in Writers, NEW r, Moves(w, r), r.pc \notin Holding, WritersOK',
           UNCHANGED <<files, server>>
    PROVE  SettingsInv'
<1>1. LockOK' /\ FilesOK' /\ ServerOK'
  BY LockMoves, FilesStay, ServerStays DEF SettingsInv, files
<1> QED
  BY <1>1 DEF SettingsInv

LEMMA RefusalKeeps ==
    ASSUME SettingsInv, WritersAreApart, NEW w \in Writers, NEW x, x \notin {"OK", "none"}, Answer(w, x),
           writer[w].pc # "idle", writer[w].stage = "select" => (x = "SETTINGS_UNAVAILABLE" <=> writer[w].pc = "reread"),
           UNCHANGED <<files, server>>
    PROVE  SettingsInv'
<1>1. WritersOK' /\ Moves(w, At(writer[w], "idle", x))
  BY AnswerKeeps
<1>2. At(writer[w], "idle", x).pc \notin Holding
  BY AtIs DEF Holding
<1> QED
  BY <1>1, <1>2, QuietKeeps

LEMMA ProbeKeeps ==
    ASSUME SettingsInv, WritersAreApart, NEW c \in Clients, Probe(c)
    PROVE  SettingsInv'
<1>1. c \in Writers /\ writer[c].pc = "probe" /\ UNCHANGED <<files, server>> /\ WritersOK /\ c # Startup
  BY DEF Probe, Writers, SettingsInv, WritersAreApart
<1>2. CASE Answer(c, "BACKUP_ROOT_UNWRITABLE")
  BY <1>1, <1>2, RefusalKeeps
<1>3. CASE Goes(c, "load")
  <2>1. PICK r : r = At(writer[c], "load", writer[c].answer)
    OBVIOUS
  <2>2. Moves(c, r) /\ r.pc = "load" /\ "load" \notin Holding
    BY <1>1, <1>3, <2>1, GoesMoves, AtIs DEF Holding
  <2>3. WriterOK(r)
    BY <1>1, <2>1, AtOK DEF WritersOK, Holding
  <2>4. ClientOK(r)
    BY <1>1, <2>1, ClientGoes DEF WritersOK
  <2>5. WritersOK'
    BY <1>1, <2>2, <2>3, <2>4, WriterMoves
  <2> QED
    BY <1>1, <2>2, <2>5, QuietKeeps
<1> QED
  BY <1>2, <1>3 DEF Probe

LEMMA LoadDocumentKeeps ==
    ASSUME SettingsInv, WritersAreApart, NEW c \in Clients, LoadDocument(c)
    PROVE  SettingsInv'
<1>1. c \in Writers /\ writer[c].pc = "load" /\ UNCHANGED <<files, server>> /\ WritersOK /\ c # Startup
  BY DEF LoadDocument, Writers, SettingsInv, WritersAreApart
<1>2. CASE Answer(c, Refusal(writer[c].stage, "SETTINGS_UNAVAILABLE"))
  <2>1. PICK x : x = Refusal(writer[c].stage, "SETTINGS_UNAVAILABLE")
    OBVIOUS
  <2>2. x \notin {"OK", "none"} /\ (writer[c].stage = "select" => x # "SETTINGS_UNAVAILABLE")
    BY <2>1 DEF Refusal
  <2> QED
    BY <1>1, <1>2, <2>1, <2>2, RefusalKeeps
<1>3. CASE /\ Loads(settingsFile)
           /\ writer' = [writer EXCEPT ![c] = [@ EXCEPT !.pc = "save", !.base = Load(settingsFile),
                                                        !.next = Changed(writer[c], Load(settingsFile))]]
  <2>1. PICK p, s, q, b, n, a, o :
          writer[c] = [pc |-> p, stage |-> s, request |-> q, base |-> b, next |-> n, answer |-> a, wrote |-> o]
    BY <1>1 DEF WritersOK, WriterOK
  <2>2. PICK d, e : d = Load(settingsFile) /\ e = Changed(writer[c], d)
    OBVIOUS
  <2>3. PICK r : r = [pc |-> "save", stage |-> s, request |-> q, base |-> d, next |-> e, answer |-> a, wrote |-> o]
    OBVIOUS
  <2>4. Moves(c, r)
    <3>1. writer = [v \in Writers |-> writer[v]]
      BY <1>1 DEF WritersOK
    <3>2. writer' = [writer EXCEPT ![c] = [writer[c] EXCEPT !.pc = "save", !.base = d, !.next = e]]
      BY <1>1, <1>3, <2>2, <3>1 DEF LoadDocument
    <3>3. PICK r1 : r1 = [writer[c] EXCEPT !.pc = "save"]
      OBVIOUS
    <3>4. r1 = [pc |-> "save", stage |-> s, request |-> q, base |-> b, next |-> n, answer |-> a, wrote |-> o]
      BY <2>1, <3>3
    <3>5. PICK r2 : r2 = [r1 EXCEPT !.base = d]
      OBVIOUS
    <3>6. r2 = [pc |-> "save", stage |-> s, request |-> q, base |-> d, next |-> n, answer |-> a, wrote |-> o]
      BY <3>4, <3>5
    <3>7. PICK r3 : r3 = [r2 EXCEPT !.next = e]
      OBVIOUS
    <3>8. r3 = r
      BY <2>3, <3>6, <3>7
    <3>9. [writer[c] EXCEPT !.pc = "save", !.base = d, !.next = e] = r
      BY <3>3, <3>5, <3>7, <3>8
    <3> QED
      BY <3>1, <3>2, <3>9 DEF Moves
  <2>5. IsDocument(d) /\ ClientOK(writer[c])
    BY <1>1, <1>3, <2>2, LoadIsDocument DEF SettingsInv, WritersOK
  <2>6. /\ s \in {"reset", "update", "select"} /\ a = "none" /\ Written(writer[c])
        /\ (s \in {"reset", "update"} => q[1] \in Patches)
    BY <1>1, <2>1, <2>5 DEF ClientOK
  <2>7. IsDocument(e) /\ (s = "update" => e = Patched(d, q[1]))
    <3>1. CASE s = "reset"
      BY <2>1, <2>2, <2>5, <3>1, RootIsDocument DEF Changed
    <3>2. CASE s = "select"
      BY <2>1, <2>2, <2>5, <3>2, RootIsDocument DEF Changed
    <3>3. CASE s = "update"
      BY <2>1, <2>2, <2>5, <3>3, PatchIs DEF Changed
    <3> QED
      BY <2>6, <3>1, <3>2, <3>3
  <2>8. /\ r.pc = "save" /\ r.stage = s /\ r.request = q /\ r.base = d /\ r.next = e /\ r.answer = a /\ r.wrote = o
        /\ "save" \notin Holding
    BY <2>3 DEF Holding
  <2>9. WriterOK(r)
    <3>1. \E p1, s1, q1, b1, n1, a1, o1 :
            r = [pc |-> p1, stage |-> s1, request |-> q1, base |-> b1, next |-> n1, answer |-> a1, wrote |-> o1]
      BY <2>3
    <3> QED
      BY <2>5, <2>7, <2>8, <3>1 DEF WriterOK
  <2>10. ClientOK(r)
    <3>1. Written(r)
      BY <1>1, <2>1, <2>6, <2>8 DEF Written
    <3>2. Refused(r)
      BY <2>6, <2>8 DEF Refused
    <3> QED
      BY <2>6, <2>7, <2>8, <3>1, <3>2 DEF ClientOK
  <2>11. WritersOK'
    BY <1>1, <2>4, <2>9, <2>10, WriterMoves
  <2> QED
    BY <1>1, <2>4, <2>8, <2>11, QuietKeeps
<1> QED
  BY <1>2, <1>3 DEF LoadDocument

(* A selection is answered once it has read its settings back.             *)
LEMMA ReadBackKeeps ==
    ASSUME SettingsInv, WritersAreApart, NEW c \in Clients, ReadBack(c)
    PROVE  SettingsInv'
<1>1. /\ c \in Writers /\ writer[c].pc = "reread" /\ UNCHANGED <<files, server>> /\ WritersOK /\ c # Startup
      /\ ClientOK(writer[c]) /\ WriterOK(writer[c])
  BY DEF ReadBack, Writers, SettingsInv, WritersOK, WritersAreApart
<1>2. CASE Answer(c, "SETTINGS_UNAVAILABLE")
  BY <1>1, <1>2, RefusalKeeps
<1>3. CASE Answer(c, "OK")
  <2>1. PICK r : r = At(writer[c], "idle", "OK")
    OBVIOUS
  <2>2. Moves(c, r) /\ r.pc = "idle" /\ r.stage = writer[c].stage /\ r.answer = "OK" /\ r.wrote = writer[c].wrote
        /\ "idle" \notin Holding
    BY <1>1, <1>3, <2>1, AnswerMoves, AtIs DEF Holding
  <2>3. WriterOK(r)
    BY <1>1, <2>1, AtOK DEF Holding
  <2>4. writer[c].stage = "select" /\ writer[c].wrote = 1
    BY <1>1 DEF ClientOK, Written
  <2>5. ClientOK(r)
    BY <2>2, <2>4 DEF ClientOK, Refused
  <2>6. WritersOK'
    BY <1>1, <2>2, <2>3, <2>5, WriterMoves
  <2> QED
    BY <1>1, <2>2, <2>6, QuietKeeps
<1> QED
  BY <1>2, <1>3 DEF ReadBack

-----------------------------------------------------------------------------

(* Saving.                                                                 *)

LEMMA RefuseSaveKeeps ==
    ASSUME SettingsInv, WritersAreApart, NEW w \in Writers, RefuseSave(w)
    PROVE  SettingsInv'
<1>1. PICK x : x = Refusal(writer[w].stage, "SETTINGS_INVALID")
  OBVIOUS
<1>2. Answer(w, x) /\ writer[w].pc = "save" /\ UNCHANGED <<files, server>>
  BY <1>1 DEF RefuseSave
<1>3. x \notin {"OK", "none"} /\ (writer[w].stage = "select" => x # "SETTINGS_UNAVAILABLE")
  BY <1>1 DEF Refusal
<1> QED
  BY <1>2, <1>3, RefusalKeeps

(* A writer goes on within the save.                                       *)
LEMMA SaveGoes ==
    ASSUME SettingsInv, WritersAreApart, NEW w \in Writers, NEW p \in Holding, Goes(w, p),
           writer[w].pc \in {"save"} \cup Holding, Validate(writer[w].next)
    PROVE  WritersOK' /\ \A v \in Writers : writer'[v].pc = IF v = w THEN p ELSE writer[v].pc
<1>1. WritersOK
  BY DEF SettingsInv
<1>2. PICK r : r = At(writer[w], p, writer[w].answer)
  OBVIOUS
<1>3. Moves(w, r) /\ r.pc = p
  BY <1>1, <1>2, GoesMoves, AtIs
<1>4. WriterOK(r)
  BY <1>1, <1>2, AtOK DEF WritersOK
<1>5. w \in Clients => ClientOK(r)
  BY <1>1, <1>2, ClientGoes DEF WritersOK, Holding
<1>6. w = Startup => StartupOK(r)
  <2>1. r.pc = p /\ r.stage = writer[w].stage
    BY <1>2, AtIs
  <2> QED
    BY <1>1, <2>1 DEF WritersOK, StartupOK, Holding
<1>7. WritersOK'
  BY <1>1, <1>3, <1>4, <1>5, <1>6, WriterMoves
<1> QED
  BY <1>3, <1>7 DEF Moves

LEMMA AloneInside ==
    ASSUME LockOK, NEW w \in Writers, writer[w].pc \in Holding
    PROVE  settingsLock = w /\ \A v \in Writers : v # w => writer[v].pc \notin Holding
  BY DEF LockOK

LEMMA LockKeeps ==
    ASSUME SettingsInv, WritersAreApart, NEW w \in Writers, LockSettings(w)
    PROVE  SettingsInv'
<1>1. /\ writer[w].pc = "save" /\ Validate(writer[w].next) /\ settingsLock = Nobody /\ settingsLock' = w
      /\ Goes(w, "preserve") /\ UNCHANGED <<settingsFile, previousFile, replacedFile>> /\ UNCHANGED server
  BY DEF LockSettings, Savable
<1>2. WritersOK' /\ \A v \in Writers : writer'[v].pc = IF v = w THEN "preserve" ELSE writer[v].pc
  BY <1>1, SaveGoes DEF Holding
<1>3. \A v \in Writers : writer[v].pc \notin Holding
  <2>1. Nobody \notin Writers
    BY DEF Writers, WritersAreApart, Startup, Nobody
  <2> QED
    BY <1>1, <2>1 DEF SettingsInv, LockOK
<1>4. LockOK'
  BY <1>1, <1>2, <1>3 DEF LockOK, Holding
<1>5. FilesOK' /\ ServerOK'
  BY <1>1, FilesStay, ServerStays DEF SettingsInv
<1> QED
  BY <1>2, <1>4, <1>5 DEF SettingsInv

LEMMA PreserveKeeps ==
    ASSUME SettingsInv, WritersAreApart, NEW w \in Writers, preservePriorFile(w)
    PROVE  SettingsInv'
<1>1. /\ writer[w].pc = "preserve" /\ previousFile' = (IF settingsFile = <<>> THEN previousFile ELSE settingsFile)
      /\ Goes(w, "write") /\ UNCHANGED <<settingsFile, replacedFile, settingsLock>> /\ UNCHANGED server
  BY DEF preservePriorFile
<1>2. WritersOK /\ LockOK /\ FilesOK /\ writer[w].pc \in Holding
  BY <1>1 DEF SettingsInv, Holding
<1>3. WritersOK' /\ \A v \in Writers : writer'[v].pc = IF v = w THEN "write" ELSE writer[v].pc
  BY <1>1, <1>2, SaveGoes DEF Holding, WritersOK, WriterOK
<1>4. previousFile' = settingsFile'
  BY <1>1, <1>2 DEF FilesOK
<1>5. LockOK'
  BY <1>1, <1>2, <1>3, <1>4, AloneInside DEF LockOK, Holding
<1>6. FilesOK'
  BY <1>1, <1>2, <1>4 DEF FilesOK, FileLoads, PreviousIsPrior
<1>7. ServerOK'
  BY <1>1, ServerStays DEF SettingsInv
<1> QED
  BY <1>3, <1>5, <1>6, <1>7 DEF SettingsInv

LEMMA TemporaryKeeps ==
    ASSUME SettingsInv, WritersAreApart, NEW w \in Writers, writeTemporary(w)
    PROVE  SettingsInv'
<1>1. /\ writer[w].pc = "write" /\ Goes(w, "replace")
      /\ UNCHANGED <<settingsFile, previousFile, replacedFile>> /\ UNCHANGED settingsLock /\ UNCHANGED server
  BY DEF writeTemporary
<1>2. WritersOK /\ LockOK /\ writer[w].pc \in Holding
  BY <1>1 DEF SettingsInv, Holding
<1>3. WritersOK' /\ \A v \in Writers : writer'[v].pc = IF v = w THEN "replace" ELSE writer[v].pc
  BY <1>1, <1>2, SaveGoes DEF Holding, WritersOK, WriterOK
<1>4. LockOK'
  BY <1>1, <1>2, <1>3 DEF LockOK, Holding
<1>5. FilesOK' /\ ServerOK'
  BY <1>1, FilesStay, ServerStays DEF SettingsInv
<1> QED
  BY <1>3, <1>4, <1>5 DEF SettingsInv

(* The reset is followed by the update, the migration by the launch, and   *)
(* the others by their answer.                                             *)
LEMMA ReplaceKeeps ==
    ASSUME SettingsInv, WritersAreApart, NEW w \in Writers, replace(w)
    PROVE  SettingsInv'
<1>1. WritersOK /\ LockOK /\ FilesOK /\ writer[w].pc = "replace" /\ writer[w].pc \in Holding /\ WriterOK(writer[w])
  BY DEF SettingsInv, replace, Holding, WritersOK
<1>2. PICK p, s, q, b, n, a, o :
        writer[w] = [pc |-> p, stage |-> s, request |-> q, base |-> b, next |-> n, answer |-> a, wrote |-> o]
  BY <1>1 DEF WriterOK
<1>3. PICK k, t, x : /\ k = AfterSave(s) /\ t = (IF s = "reset" THEN "update" ELSE s)
                     /\ x = (IF s = "update" THEN "OK" ELSE a)
  OBVIOUS
<1>4. PICK r : r = [pc |-> k, stage |-> t, request |-> q, base |-> b, next |-> n, answer |-> x, wrote |-> o + 1]
  OBVIOUS
<1>5. Moves(w, r)
  <2>1. writer = [v \in Writers |-> writer[v]]
    BY <1>1 DEF WritersOK
  <2>2. PICK r1 : r1 = [writer[w] EXCEPT !.pc = k]
    OBVIOUS
  <2>3. r1 = [pc |-> k, stage |-> s, request |-> q, base |-> b, next |-> n, answer |-> a, wrote |-> o]
    BY <1>2, <2>2
  <2>4. PICK r2 : r2 = [r1 EXCEPT !.wrote = o + 1]
    OBVIOUS
  <2>5. r2 = [pc |-> k, stage |-> s, request |-> q, base |-> b, next |-> n, answer |-> a, wrote |-> o + 1]
    BY <2>3, <2>4
  <2>6. PICK r3 : r3 = [r2 EXCEPT !.stage = t]
    OBVIOUS
  <2>7. r3 = [pc |-> k, stage |-> t, request |-> q, base |-> b, next |-> n, answer |-> a, wrote |-> o + 1]
    BY <2>5, <2>6
  <2>8. PICK r4 : r4 = [r3 EXCEPT !.answer = x]
    OBVIOUS
  <2>9. r4 = r
    BY <1>4, <2>7, <2>8
  <2>10. [writer[w] EXCEPT !.pc = k, !.wrote = o + 1, !.stage = t, !.answer = x] = r
    BY <2>2, <2>4, <2>6, <2>8, <2>9
  <2>11. writer[w].stage = s /\ writer[w].wrote = o /\ writer[w].answer = a
    BY <1>2
  <2>12. writer' = [writer EXCEPT ![w] = [writer[w] EXCEPT !.pc = k, !.wrote = o + 1, !.stage = t, !.answer = x]]
    BY <1>3, <2>11 DEF replace
  <2> QED
    BY <2>1, <2>10, <2>12 DEF Moves
<1>6. r.pc = k /\ r.stage = t /\ r.request = q /\ r.base = b /\ r.next = n /\ r.answer = x /\ r.wrote = o + 1
  BY <1>4
<1>7. IsDocument(b) /\ IsDocument(n) /\ Validate(n)
  BY <1>1, <1>2 DEF WriterOK
<1>8. k \in {"launch", "load", "reread", "idle"} /\ k \notin Holding
  BY <1>3 DEF AfterSave, Holding
<1>9. WriterOK(r)
  <2>1. \E p1, s1, q1, b1, n1, a1, o1 :
          r = [pc |-> p1, stage |-> s1, request |-> q1, base |-> b1, next |-> n1, answer |-> a1, wrote |-> o1]
    BY <1>4
  <2> QED
    BY <1>6, <1>7, <1>8, <2>1 DEF WriterOK
<1>10. ASSUME w \in Clients PROVE ClientOK(r)
  <2>1. ClientOK(writer[w])
    BY <1>1, <1>10 DEF WritersOK
  <2>2. /\ s \in {"reset", "update", "select"} /\ a = "none" /\ Written(writer[w])
        /\ (s \in {"reset", "update"} => q[1] \in Patches)
        /\ (s = "update" => n = Patched(b, q[1]))
    BY <1>1, <1>2, <2>1 DEF ClientOK
  <2>3. CASE s = "reset"
    <3>1. k = "load" /\ t = "update" /\ x = "none" /\ o = 0 /\ UsesDefaultRoot(q[1])
      BY <1>2, <1>3, <2>2, <2>3 DEF AfterSave, Written
    <3>2. Written(r)
      BY <1>6, <3>1 DEF Written
    <3>3. Refused(r)
      BY <1>6, <3>1 DEF Refused
    <3> QED
      BY <1>6, <2>2, <2>3, <3>1, <3>2, <3>3 DEF ClientOK, Holding
  <2>4. CASE s = "update"
    <3>1. k = "idle" /\ t = s /\ x = "OK"
      BY <1>3, <2>4 DEF AfterSave
    <3>2. o \in {0, 1}
      BY <1>2, <2>2, <2>4 DEF Written
    <3>3. Refused(r)
      BY <1>6, <3>1, <3>2 DEF Refused
    <3> QED
      BY <1>6, <2>2, <2>4, <3>1, <3>3 DEF ClientOK, Holding
  <2>5. CASE s = "select"
    <3>1. k = "reread" /\ t = s /\ x = "none"
      BY <1>3, <2>2, <2>5 DEF AfterSave
    <3>2. o = 0
      BY <1>1, <1>2, <2>2, <2>5 DEF Written
    <3>3. Written(r)
      BY <1>6, <2>5, <3>1, <3>2 DEF Written
    <3>4. Refused(r)
      BY <1>6, <3>1 DEF Refused
    <3> QED
      BY <1>6, <2>2, <2>5, <3>1, <3>3, <3>4 DEF ClientOK, Holding
  <2> QED
    BY <2>2, <2>3, <2>4, <2>5
<1>11. ASSUME w = Startup PROVE StartupOK(r)
  <2>1. s = "migrate"
    BY <1>1, <1>2, <1>11 DEF WritersOK, StartupOK
  <2>2. k = "launch" /\ t = "migrate"
    BY <1>3, <2>1 DEF AfterSave
  <2> QED
    BY <1>6, <2>2 DEF StartupOK
<1>12. WritersOK'
  BY <1>1, <1>5, <1>9, <1>10, <1>11, WriterMoves
<1>13. /\ settingsFile' = <<n>> /\ replacedFile' = settingsFile /\ previousFile' = previousFile
       /\ settingsLock' = Nobody /\ UNCHANGED server
  BY <1>2 DEF replace
<1>14. previousFile = settingsFile
  BY <1>1 DEF LockOK
<1>15. LockOK'
  <2>1. \A v \in Writers : writer'[v] = IF v = w THEN r ELSE writer[v]
    BY <1>5 DEF Moves
  <2>2. \A v \in Writers : writer'[v].pc \notin Holding
    BY <1>1, <1>6, <1>8, <2>1, AloneInside
  <2> QED
    BY <2>2 DEF LockOK, Holding
<1>16. FilesOK'
  <2>1. settingsFile' # <<>> /\ settingsFile'[1] = n
    BY <1>13
  <2>2. Loads(settingsFile')
    BY <1>7, <1>13, ValidLoads
  <2>3. previousFile' = replacedFile'
    BY <1>13, <1>14
  <2> QED
    BY <1>7, <2>1, <2>2, <2>3 DEF FilesOK, FileLoads, PreviousIsPrior
<1>17. ServerOK'
  BY <1>13, ServerStays DEF SettingsInv
<1> QED
  BY <1>12, <1>15, <1>16, <1>17 DEF SettingsInv

LEMMA SaveFailsKeeps ==
    ASSUME SettingsInv, WritersAreApart, NEW w \in Writers, SaveFails(w)
    PROVE  SettingsInv'
<1>0. PICK x : x = Refusal(writer[w].stage, "SETTINGS_UNAVAILABLE")
  OBVIOUS
<1>1. /\ writer[w].pc \in Holding /\ Answer(w, x)
      /\ UNCHANGED <<settingsFile, previousFile, replacedFile>> /\ UNCHANGED server
  BY <1>0 DEF SaveFails, Holding
<1>2. /\ writer[w].pc \notin {"idle", "reread"} /\ LockOK
      /\ x \notin {"OK", "none"} /\ (writer[w].stage = "select" => x # "SETTINGS_UNAVAILABLE")
  BY <1>0, <1>1 DEF Holding, SettingsInv, Refusal
<1>3. WritersOK' /\ Moves(w, At(writer[w], "idle", x))
  BY <1>1, <1>2, AnswerKeeps
<1>4. LockOK'
  <2>1. \A v \in Writers : writer'[v] = IF v = w THEN At(writer[w], "idle", x) ELSE writer[v]
    BY <1>3 DEF Moves
  <2>2. At(writer[w], "idle", x).pc = "idle" /\ "idle" \notin Holding
    BY AtIs DEF Holding
  <2>3. \A v \in Writers : writer'[v].pc \notin Holding
    BY <1>1, <1>2, <2>1, <2>2, AloneInside
  <2> QED
    BY <2>3 DEF LockOK, Holding
<1>5. FilesOK' /\ ServerOK'
  BY <1>1, FilesStay, ServerStays DEF SettingsInv
<1> QED
  BY <1>3, <1>4, <1>5 DEF SettingsInv

-----------------------------------------------------------------------------

(* Startup and crashes.                                                    *)

LEMMA RestingOK == WriterOK(Resting) /\ ClientOK(Resting) /\ StartupOK(Resting) /\ Resting.pc \notin Holding
<1>1. PICK d, q : d = Default /\ q = <<>>
  OBVIOUS
<1>2. PICK r : r = [pc |-> "idle", stage |-> "none", request |-> q, base |-> d, next |-> d, answer |-> "none", wrote |-> 0]
  OBVIOUS
<1>3. Resting = r
  BY <1>1, <1>2 DEF Resting
<1>4. /\ r.pc = "idle" /\ r.stage = "none" /\ r.base = d /\ r.next = d /\ r.answer = "none" /\ r.wrote = 0
  BY <1>2
<1>5. \E p1, s1, q1, b1, n1, a1, o1 :
        r = [pc |-> p1, stage |-> s1, request |-> q1, base |-> b1, next |-> n1, answer |-> a1, wrote |-> o1]
  BY <1>2
<1>6. WriterOK(r)
  BY <1>1, <1>4, <1>5, DefaultIsDocument DEF WriterOK, Holding
<1>7. ClientOK(r)
  BY <1>4 DEF ClientOK, Refused, Holding
<1> QED
  BY <1>3, <1>4, <1>6, <1>7 DEF StartupOK, Holding

LEMMA LoadSettingsKeeps ==
    ASSUME SettingsInv, WritersAreApart, NEW launch, LoadSettings(launch)
    PROVE  SettingsInv'
<1>1. /\ Loads(settingsFile) /\ server' = [Down EXCEPT !.launch = launch]
      /\ UNCHANGED files /\ WritersOK /\ LockOK /\ FilesOK /\ Startup \in Writers /\ Startup \notin Clients
  BY DEF LoadSettings, SettingsInv, Writers, WritersAreApart
<1>2. PICK k, d, e, q : /\ k = (IF Migrated(settingsFile) THEN "save" ELSE "launch") /\ d = Load(settingsFile)
                        /\ e = Default /\ q = <<>>
  OBVIOUS
<1>3. PICK r : r = [pc |-> k, stage |-> "migrate", request |-> q, base |-> d, next |-> d, answer |-> "none", wrote |-> 0]
  OBVIOUS
<1>4. [Resting EXCEPT !.pc = k, !.stage = "migrate", !.base = d, !.next = d] = r
  <2>2. Resting = [pc |-> "idle", stage |-> "none", request |-> q, base |-> e, next |-> e,
                   answer |-> "none", wrote |-> 0]
    BY <1>2 DEF Resting
  <2>3. PICK r1 : r1 = [Resting EXCEPT !.pc = k]
    OBVIOUS
  <2>4. r1 = [pc |-> k, stage |-> "none", request |-> q, base |-> e, next |-> e, answer |-> "none", wrote |-> 0]
    BY <2>2, <2>3
  <2>5. PICK r2 : r2 = [r1 EXCEPT !.stage = "migrate"]
    OBVIOUS
  <2>6. r2 = [pc |-> k, stage |-> "migrate", request |-> q, base |-> e, next |-> e, answer |-> "none", wrote |-> 0]
    BY <2>4, <2>5
  <2>7. PICK r3 : r3 = [r2 EXCEPT !.base = d]
    OBVIOUS
  <2>8. r3 = [pc |-> k, stage |-> "migrate", request |-> q, base |-> d, next |-> e, answer |-> "none", wrote |-> 0]
    BY <2>6, <2>7
  <2>9. PICK r4 : r4 = [r3 EXCEPT !.next = d]
    OBVIOUS
  <2>10. r4 = r
    BY <1>3, <2>8, <2>9
  <2>11. [Resting EXCEPT !.pc = k, !.stage = "migrate", !.base = d, !.next = d] = r4
    BY <2>3, <2>5, <2>7, <2>9
  <2> QED
    BY <2>10, <2>11
<1>5. Moves(Startup, r)
  <2>1. writer' = [writer EXCEPT ![Startup] = r]
    BY <1>2, <1>4 DEF LoadSettings
  <2>2. writer = [v \in Writers |-> writer[v]]
    BY <1>1 DEF WritersOK
  <2> QED
    BY <2>1, <2>2 DEF Moves
<1>6. r.pc = k /\ r.stage = "migrate" /\ r.base = d /\ r.next = d
  BY <1>3
<1>7. k \in {"save", "launch"} /\ k \notin Holding
  BY <1>2 DEF Holding
<1>8. WriterOK(r)
  <2>1. IsDocument(d)
    BY <1>1, <1>2, LoadIsDocument
  <2>2. \E p1, s1, q1, b1, n1, a1, o1 :
          r = [pc |-> p1, stage |-> s1, request |-> q1, base |-> b1, next |-> n1, answer |-> a1, wrote |-> o1]
    BY <1>3
  <2> QED
    BY <1>6, <1>7, <2>1, <2>2 DEF WriterOK
<1>9. StartupOK(r)
  BY <1>6, <1>7 DEF StartupOK
<1>10. WritersOK'
  BY <1>1, <1>5, <1>8, <1>9, WriterMoves
<1>11. LockOK' /\ FilesOK'
  <2>1. UNCHANGED <<settingsLock, previousFile, settingsFile>> /\ UNCHANGED <<settingsFile, previousFile, replacedFile>>
    BY <1>1 DEF files
  <2> QED
    BY <1>1, <1>5, <1>6, <1>7, <2>1, LockMoves, FilesStay
<1>12. ServerOK'
  <2>1. PICK s, l : Down = [up |-> FALSE, settings |-> s, launch |-> l]
    BY DEF Down
  <2>2. server' = [up |-> FALSE, settings |-> s, launch |-> launch]
    BY <1>1, <2>1
  <2> QED
    BY <2>2 DEF ServerOK
<1> QED
  BY <1>10, <1>11, <1>12 DEF SettingsInv

LEMMA LaunchedKeeps ==
    ASSUME SettingsInv, WritersAreApart, Launched
    PROVE  SettingsInv'
<1>1. /\ UNCHANGED files /\ WritersOK /\ LockOK /\ FilesOK /\ Startup \in Writers /\ Startup \notin Clients
      /\ Answer(Startup, "started") /\ writer[Startup].pc = "launch"
  BY DEF Launched, SettingsInv, Writers, WritersAreApart
<1>2. PICK r : r = At(writer[Startup], "idle", "started")
  OBVIOUS
<1>3. Moves(Startup, r) /\ r.pc = "idle" /\ "idle" \notin Holding
  BY <1>1, <1>2, AnswerMoves, AtIs DEF Holding
<1>4. WriterOK(r) /\ StartupOK(r)
  BY <1>1, <1>2, <1>3, AtOK DEF WritersOK, StartupOK
<1>5. WritersOK'
  BY <1>1, <1>3, <1>4, WriterMoves
<1>6. LockOK' /\ FilesOK'
  <2>1. UNCHANGED <<settingsLock, previousFile, settingsFile>> /\ UNCHANGED <<settingsFile, previousFile, replacedFile>>
    BY <1>1 DEF files
  <2> QED
    BY <1>1, <1>3, <2>1, LockMoves, FilesStay
<1>7. ServerOK'
  <2>1. PICK u, s, l : server = [up |-> u, settings |-> s, launch |-> l]
    BY DEF SettingsInv, ServerOK
  <2>2. PICK f : f = FoldLeft(Override, [ok |-> TRUE, settings |-> writer[Startup].next], server.launch.env \o server.launch.args)
    OBVIOUS
  <2>3. PICK v, d : v = (f.ok /\ Validate(f.settings)) /\ d = f.settings
    OBVIOUS
  <2>4. PICK g : g = ApplyLaunchOverrides(writer[Startup].next, server.launch)
    OBVIOUS
  <2>5. g = [ok |-> f.ok /\ Validate(f.settings), settings |-> f.settings]
    BY <2>2, <2>4 DEF ApplyLaunchOverrides
  <2>6. g.ok = (f.ok /\ Validate(f.settings)) /\ g.settings = f.settings
    BY <2>5
  <2>7. server' = [server EXCEPT !.up = g.ok, !.settings = g.settings]
    BY <2>4 DEF Launched
  <2>8. PICK s1 : s1 = [server EXCEPT !.up = g.ok]
    OBVIOUS
  <2>9. s1 = [up |-> g.ok, settings |-> s, launch |-> l]
    BY <2>1, <2>8
  <2>10. server' = [s1 EXCEPT !.settings = g.settings]
    BY <2>7, <2>8
  <2>11. server' = [up |-> g.ok, settings |-> g.settings, launch |-> l]
    BY <2>9, <2>10
  <2>12. server'.up = g.ok /\ server'.settings = g.settings
    BY <2>11
  <2>13. server'.up => Validate(server'.settings)
    BY <2>6, <2>12
  <2> QED
    BY <2>11, <2>13 DEF ServerOK
<1> QED
  BY <1>5, <1>6, <1>7 DEF SettingsInv

LEMMA CrashKeeps ==
    ASSUME SettingsInv, WritersAreApart, Crash
    PROVE  SettingsInv'
<1>1. /\ writer' = [w \in Writers |-> Resting] /\ server' = Down
      /\ UNCHANGED <<settingsFile, previousFile, replacedFile>> /\ FilesOK
      /\ Clients \subseteq Writers /\ Startup \in Writers
  BY DEF Crash, SettingsInv, Writers
<1>2. \A w \in Writers : writer'[w] = Resting
  BY <1>1
<1>3. WritersOK'
  <2>1. writer' = [w \in Writers |-> writer'[w]]
    BY <1>1
  <2>2. (\A w \in Writers : WriterOK(writer'[w])) /\ (\A c \in Clients : ClientOK(writer'[c])) /\ StartupOK(writer'[Startup])
    BY <1>1, <1>2, RestingOK
  <2> QED
    BY <2>1, <2>2 DEF WritersOK
<1>4. LockOK'
  BY <1>2, RestingOK DEF LockOK, Holding
<1>5. FilesOK'
  BY <1>1, FilesStay
<1>6. ServerOK'
  <2>1. PICK s, l : Down = [up |-> FALSE, settings |-> s, launch |-> l]
    BY DEF Down
  <2> QED
    BY <1>1, <2>1 DEF ServerOK
<1> QED
  BY <1>3, <1>4, <1>5, <1>6 DEF SettingsInv

LEMMA SettingsStart ==
    ASSUME FilesAreWhole, SettingsInit
    PROVE  SettingsInv
<1>1. /\ writer = [w \in Writers |-> Resting] /\ server = Down /\ settingsFile \in FirstFiles
      /\ previousFile = <<>> /\ replacedFile = <<>>
      /\ Clients \subseteq Writers /\ Startup \in Writers
  BY DEF SettingsInit, Writers
<1>2. \A w \in Writers : writer[w] = Resting
  BY <1>1
<1>3. WritersOK
  <2>1. writer = [w \in Writers |-> writer[w]]
    BY <1>1
  <2>2. (\A w \in Writers : WriterOK(writer[w])) /\ (\A c \in Clients : ClientOK(writer[c])) /\ StartupOK(writer[Startup])
    BY <1>1, <1>2, RestingOK
  <2> QED
    BY <2>1, <2>2 DEF WritersOK
<1>4. LockOK
  BY <1>2, RestingOK DEF LockOK, Holding
<1>5. FilesOK
  BY <1>1 DEF FilesOK, FileLoads, PreviousIsPrior, FilesAreWhole
<1>6. ServerOK
  <2>1. PICK s, l : Down = [up |-> FALSE, settings |-> s, launch |-> l]
    BY DEF Down
  <2> QED
    BY <1>1, <2>1 DEF ServerOK
<1> QED
  BY <1>3, <1>4, <1>5, <1>6 DEF SettingsInv

LEMMA SettingsStay == ASSUME SettingsInv, UNCHANGED settingsVars PROVE SettingsInv'
<1>1. WritersOK' /\ LockOK' /\ FilesOK' /\ ServerOK'
  BY DEF SettingsInv, settingsVars, WritersOK, LockOK, FilesOK, FileLoads, PreviousIsPrior, ServerOK
<1> QED
  BY <1>1 DEF SettingsInv

LEMMA SettingsStep ==
    ASSUME SettingsInv, WritersAreApart, PatchesAreWhole, SettingsNext
    PROVE  SettingsInv'
<1>1. ASSUME NEW l \in Launches, LoadSettings(l) PROVE SettingsInv'
  BY <1>1, LoadSettingsKeeps
<1>2. CASE Launched
  BY <1>2, LaunchedKeeps
<1>3. ASSUME NEW c \in Clients,
             \/ \E p \in Patches : patch(c, p)
             \/ \E d \in Directories, active \in Projects : selectBackupRoot(c, d, active)
             \/ Probe(c) \/ LoadDocument(c) \/ ReadBack(c)
      PROVE  SettingsInv'
  BY <1>3, PatchKeeps, SelectKeeps, ProbeKeeps, LoadDocumentKeeps, ReadBackKeeps
<1>4. ASSUME NEW w \in Writers,
             \/ RefuseSave(w) \/ LockSettings(w) \/ preservePriorFile(w) \/ writeTemporary(w)
             \/ replace(w) \/ SaveFails(w)
      PROVE  SettingsInv'
  BY <1>4, RefuseSaveKeeps, LockKeeps, PreserveKeeps, TemporaryKeeps, ReplaceKeeps, SaveFailsKeeps
<1>5. CASE Crash
  BY <1>5, CrashKeeps
<1> QED
  BY <1>1, <1>2, <1>3, <1>4, <1>5 DEF SettingsNext

(* The settings file holds a whole document that loads wherever a save     *)
(* fails or the process dies, and the recovery file the one before it      *)
(* (Save); a refused request has written nothing (handler.patch), what a   *)
(* PATCH announces is among what it names (Update), and the process runs   *)
(* with settings that validate (ApplyLaunchOverrides): for any number of   *)
(* clients, patches, launches and crashes.                                 *)
THEOREM SettingsAreKeptHolds ==
    ASSUME WritersAreApart, PatchesAreWhole, FilesAreWhole
    PROVE  SettingsInit /\ [][SettingsNext]_settingsVars =>
             [](FileLoads /\ PreviousIsPrior /\ RefusedIsUnchanged /\ EffectsAreNamed
                /\ (server.up => Validate(server.settings)))
<1>1. SettingsInit => SettingsInv
  BY SettingsStart
<1>2. SettingsInv /\ [SettingsNext]_settingsVars => SettingsInv'
  BY SettingsStep, SettingsStay
<1>3. SettingsInv => FileLoads /\ PreviousIsPrior /\ RefusedIsUnchanged /\ EffectsAreNamed
                     /\ (server.up => Validate(server.settings))
  <2>1. ASSUME SettingsInv
        PROVE  FileLoads /\ PreviousIsPrior /\ (server.up => Validate(server.settings))
    BY <2>1 DEF SettingsInv, FilesOK, ServerOK
  <2>2. ASSUME SettingsInv PROVE RefusedIsUnchanged
    BY <2>2 DEF SettingsInv, WritersOK, ClientOK, Refused, RefusedIsUnchanged
  <2>3. ASSUME SettingsInv PROVE EffectsAreNamed
    <3>1. ASSUME NEW c \in Clients, writer[c].answer = "OK", writer[c].stage = "update",
                 NEW field \in settingsEffects(writer[c].base, writer[c].next)
          PROVE  writer[c].request[1][field] # <<>>
      <4>1. writer[c].next = Patched(writer[c].base, writer[c].request[1])
        BY <2>3, <3>1 DEF SettingsInv, WritersOK, ClientOK
      <4>2. IsDocument(writer[c].base)
        BY <2>3 DEF SettingsInv, WritersOK, WriterOK, Writers
      <4> QED
        BY <3>1, <4>1, <4>2, EffectsFollow
    <3> QED
      BY <3>1 DEF EffectsAreNamed
  <2> QED
    BY <2>1, <2>2, <2>3
<1> QED
  BY <1>1, <1>2, <1>3, PTL
=============================================================================
