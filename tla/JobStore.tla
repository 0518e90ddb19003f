------------------------------ MODULE JobStore ------------------------------
(***************************************************************************)
(* The shared Job repository of one project.db                             *)
(* (internal/storage/sqlite/jobs.go, backup_commands.go) used by several   *)
(* callers at once: HTTP handlers, feature workers and recovery scanners.  *)
(* Every operation below runs under the Store's write lane and is one      *)
(* atomic step; what is not atomic is a caller's use of it, which reads a  *)
(* record, decides, and writes later with the cancel generation it read.   *)
(* `seen' and `pos' are those stale reads.  An operation that only returns *)
(* an error or replays a stored record changes nothing and is a stutter.   *)
(***************************************************************************)
EXTENDS Job, Naturals

CONSTANTS
    Jobs,                   \* identities domain.NewID can draw
    Callers,                \* concurrent users of the repository
    Keys,                   \* idempotency keys
    Hashes,                 \* canonical request hashes
    Kinds,                  \* Job kinds; "backup" has a publication boundary
    Results,                \* result links
    NoResult, NoRequest,    \* the absent result and the absent request
    MaxOrdinal,             \* bound on event ordinals
    ProgressSteps           \* progress values callers report

ASSUME JobStoreAssumption ==
    /\ NoResult \notin Results
    /\ MaxOrdinal \in Nat
    /\ ProgressSteps \subseteq 0 .. 100

Requests == [key : Keys, hash : Hashes, kind : Kinds]
Events == [ordinal : 1 .. MaxOrdinal, progress : ProgressSteps, by : Callers]

VARIABLES
    status,                 \* jobs.status, or "absent"
    request,                \* the immutable request columns
    result,                 \* result_type/id/url
    cancelGen,              \* jobs.cancel_generation
    publishing,             \* Jobs with publication_started_at set
    events,                 \* job_events rows of each Job
    seen,                   \* the record a caller last read: [job, gen]
    pos                     \* the event position a caller last read

jobVars == <<status, request, result, cancelGen>>
vars == <<status, request, result, cancelGen, publishing, events, seen, pos>>

Init ==
    /\ status = [j \in Jobs |-> "absent"]
    /\ request = [j \in Jobs |-> NoRequest]
    /\ result = [j \in Jobs |-> NoResult]
    /\ cancelGen = [j \in Jobs |-> 0]
    /\ publishing = {}
    /\ events = [j \in Jobs |-> {}]
    /\ seen = [c \in Callers |-> [jobs |-> {}, gen |-> 0]]
    /\ pos = [c \in Callers |-> [ordinal |-> 0, progress |-> 0]]

Exists(j) == status[j] # "absent"

(* findSharedJobByKey *)
ByKey(k) == {j \in Jobs : Exists(j) /\ request[j].key = k}

(* The caller keeps a record it was handed.                                *)
Observe(c, j, gen) == seen' = [seen EXCEPT ![c] = [jobs |-> {j}, gen |-> gen]]

(* Mutant: the lookup is done before the transaction and never repeated.   *)
CreateWithoutLookup(c, r) ==
    \E j \in Jobs :
        /\ ~Exists(j)
        /\ status' = [status EXCEPT ![j] = "queued"]
        /\ request' = [request EXCEPT ![j] = r]
        /\ Observe(c, j, 0)
        /\ UNCHANGED <<result, cancelGen, publishing, events, pos>>

(* CreateOrGet and AdmitBackup: the key is looked up inside the            *)
(* transaction; an equivalent request replays the stored Job, a different  *)
(* one is an idempotency conflict, and only an unused key inserts.         *)
CreateOrGet(c, r) ==
    \/ \E j \in ByKey(r.key) :
          /\ request[j] = r
          /\ Observe(c, j, cancelGen[j])
          /\ UNCHANGED <<jobVars, publishing, events, pos>>
    \/ /\ ByKey(r.key) = {}
       /\ \E j \in Jobs :
             /\ ~Exists(j)
             /\ status' = [status EXCEPT ![j] = "queued"]
             /\ request' = [request EXCEPT ![j] = r]
             /\ Observe(c, j, 0)
             /\ UNCHANGED <<result, cancelGen, publishing, events, pos>>

GetJob(c, j) ==
    /\ Exists(j)
    /\ Observe(c, j, cancelGen[j])
    /\ UNCHANGED <<jobVars, publishing, events, pos>>

(* Mutant: the UPDATE compares the status only.                            *)
TransitionIgnoresRowGeneration(c, expected, next, res) ==
    \E j \in seen[c].jobs :
        /\ next = "succeeded" => res # NoResult
        /\ CanTransitionTo(expected, next)
        /\ next = "succeeded" => seen[c].gen = 0
        /\ status[j] = expected
        /\ status' = [status EXCEPT ![j] = next]
        /\ result' = [result EXCEPT ![j] = res]
        /\ UNCHANGED <<request, cancelGen, publishing, events, seen, pos>>

(* Mutant: the UPDATE compares the generation only.                        *)
TransitionIgnoresRowStatus(c, expected, next, res) ==
    \E j \in seen[c].jobs :
        /\ next = "succeeded" => res # NoResult
        /\ CanTransitionTo(expected, next)
        /\ next = "succeeded" => seen[c].gen = 0
        /\ cancelGen[j] = seen[c].gen
        /\ status' = [status EXCEPT ![j] = next]
        /\ result' = [result EXCEPT ![j] = res]
        /\ UNCHANGED <<request, cancelGen, publishing, events, seen, pos>>

(* Transition: expected and next are the caller's, the cancel generation   *)
(* is the one it observed, and the UPDATE's WHERE clause compares both.    *)
Transition(c, expected, next, res) ==
    \E j \in seen[c].jobs :
        /\ next = "succeeded" => res # NoResult
        /\ CanTransitionTo(expected, next)
        /\ next = "succeeded" => seen[c].gen = 0
        /\ status[j] = expected
        /\ cancelGen[j] = seen[c].gen
        /\ status' = [status EXCEPT ![j] = next]
        /\ result' = [result EXCEPT ![j] = res]
        /\ UNCHANGED <<request, cancelGen, publishing, events, seen, pos>>

(* RequestCancellation: terminal Jobs and Jobs already being canceled are  *)
(* returned unchanged, and so is a backup past its publication boundary.   *)
RequestCancellation(c, j) ==
    /\ Exists(j)
    /\ ~Terminal(status[j])
    /\ cancelGen[j] = 0
    /\ ~(request[j].kind = "backup" /\ j \in publishing)
    /\ cancelGen' = [cancelGen EXCEPT ![j] = cancelGen[j] + 1]
    /\ Observe(c, j, cancelGen[j] + 1)
    /\ UNCHANGED <<status, request, result, publishing, events, pos>>

(* BeginBackupPublication: the durable boundary after which a backup can   *)
(* no longer be canceled.  It races RequestCancellation in the write lane. *)
BeginBackupPublication(c) ==
    \E j \in seen[c].jobs :
        /\ seen[c].gen = 0
        /\ request[j].kind = "backup"
        /\ status[j] \in {"running", "interrupted"}
        /\ cancelGen[j] = seen[c].gen
        /\ publishing' = publishing \cup {j}
        /\ UNCHANGED <<jobVars, events, seen, pos>>

(* ListEvents as eventPosition uses it: the caller keeps the position of   *)
(* the newest event.                                                       *)
ListEvents(c) ==
    \E j \in seen[c].jobs :
        /\ \/ /\ events[j] = {}
              /\ pos' = [pos EXCEPT ![c] = [ordinal |-> 0, progress |-> 0]]
           \/ \E e \in events[j] :
                 /\ \A f \in events[j] : f.ordinal <= e.ordinal
                 /\ pos' = [pos EXCEPT ![c] = [ordinal |-> e.ordinal, progress |-> e.progress]]
        /\ UNCHANGED <<jobVars, publishing, events, seen>>

(* Mutant: only the ordinal's uniqueness is tested.                        *)
AppendableByOrdinalOnly(j, e) == \A f \in events[j] : f.ordinal # e.ordinal

(* The tests of Append inside its transaction: a stored ordinal admits     *)
(* only its own replay, and a new event lies past the newest one.          *)
Appendable(j, e) ==
    /\ \A f \in events[j] : f.ordinal # e.ordinal
    /\ \A f \in events[j] :
          (\A g \in events[j] : g.ordinal <= f.ordinal)
             => e.ordinal > f.ordinal /\ e.progress >= f.progress

(* Append by a caller that numbers its events from the position it read;   *)
(* a rejected event changes nothing.                                       *)
AppendEvent(c, p) ==
    \E j \in seen[c].jobs :
        /\ pos[c].ordinal < MaxOrdinal
        /\ LET e == [ordinal |-> pos[c].ordinal + 1, progress |-> p, by |-> c]
           IN  /\ Appendable(j, e)
               /\ events' = [events EXCEPT ![j] = @ \cup {e}]
        /\ pos' = [pos EXCEPT ![c] = [ordinal |-> pos[c].ordinal + 1, progress |-> p]]
        /\ UNCHANGED <<jobVars, publishing, seen>>

Next ==
    \E c \in Callers :
        \/ \E r \in Requests : CreateOrGet(c, r)
        \/ \E j \in Jobs : GetJob(c, j)
        \/ \E expected, next \in Status, res \in Results \cup {NoResult} :
              Transition(c, expected, next, res)
        \/ \E j \in Jobs : RequestCancellation(c, j)
        \/ BeginBackupPublication(c)
        \/ ListEvents(c)
        \/ \E p \in ProgressSteps : AppendEvent(c, p)

Spec == Init /\ [][Next]_vars

-----------------------------------------------------------------------------
(* Every variable has its type: a caller holds only copies of stored rows, *)
(* and every stored row has its request.                                   *)
TypeOK ==
    /\ status \in [Jobs -> Status \cup {"absent"}]
    /\ request \in [Jobs -> Requests \cup {NoRequest}]
    /\ \A j \in Jobs : Exists(j) => request[j] \in Requests
    /\ result \in [Jobs -> Results \cup {NoResult}]
    /\ cancelGen \in [Jobs -> Nat]
    /\ publishing \subseteq Jobs
    /\ events \in [Jobs -> SUBSET Events]
    /\ seen \in [Callers -> [jobs : SUBSET Jobs, gen : Nat]]
    /\ \A c \in Callers : \A j \in seen[c].jobs : Exists(j)
    /\ pos \in [Callers -> [ordinal : 0 .. MaxOrdinal, progress : 0 .. 100]]

(* A succeeded Job was never asked to cancel and links a result, although  *)
(* the worker that sealed it decided on a record read earlier              *)
(* (Transition's compare-and-swap on status and cancel_generation).        *)
SuccessExcludesCancel ==
    \A j \in Jobs : status[j] = "succeeded" => cancelGen[j] = 0 /\ result[j] # NoResult

(* One idempotency key never owns two Jobs, whatever the order of          *)
(* concurrent admissions (CreateOrGet's lookup inside the transaction).    *)
OneJobPerKey ==
    \A i, j \in Jobs :
        Exists(i) /\ Exists(j) /\ request[i].key = request[j].key => i = j

(* A backup whose publication has begun has no cancellation recorded, in   *)
(* whichever order the two raced (BeginBackupPublication against           *)
(* RequestCancellation).                                                   *)
PublicationNotCanceled == \A j \in publishing : cancelGen[j] = 0

(* A cancellation and the two boundaries it races, success and the         *)
(* publication of a backup, exclude each other (Transition,                *)
(* BeginBackupPublication and RequestCancellation).                        *)
CancelExcludes == SuccessExcludesCancel /\ PublicationNotCanceled

(* The event history two callers write concurrently is a single line: an   *)
(* ordinal names one event and progress never falls along it (Append).     *)
EventsOrdered ==
    \A j \in Jobs : \A e, f \in events[j] :
        /\ e.ordinal = f.ordinal => e = f
        /\ e.ordinal < f.ordinal => e.progress <= f.progress

(* A terminal Job's row is final: no later transition, replay or           *)
(* cancellation request changes its status, result, request or generation. *)
TerminalRowFinal ==
    [][\A j \in Jobs :
          Terminal(status[j]) =>
             /\ status'[j] = status[j]
             /\ result'[j] = result[j]
             /\ request'[j] = request[j]
             /\ cancelGen'[j] = cancelGen[j]]_vars

(* The repository implements the lifecycle it promises: a Job is canceling *)
(* when its generation is not zero.                                        *)
Lifecycle == INSTANCE JobLifecycle WITH
                state <- status, canceling <- {j \in Jobs : cancelGen[j] > 0}
LifecycleSpec == Lifecycle!LSpec
=============================================================================
