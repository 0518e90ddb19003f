------------------------------ MODULE AIDesign ------------------------------
(***************************************************************************)
(* AI design Jobs: admission over a frozen base, the durable Job row and   *)
(* its run row, the append-only attempt ledger, provider calls under a     *)
(* cancellation lease, format repair, explicit retry, recovery after a     *)
(* restart.  The program has no worker loop yet; the worker below makes    *)
(* the calls in the order the Job phases and the tests of the package      *)
(* prescribe, and every call has the guards of its implementation.         *)
(* Sources: internal/ai/orchestration, internal/storage/sqlite/ai_*.go,    *)
(* internal/ai/application, internal/httpapi/ai_resources.go.              *)
(***************************************************************************)
EXTENDS Naturals, FiniteSets, FiniteSetsExt, Job

CONSTANTS
    Jobs,        \* Jobs, each under an idempotency key of its own
    Requested,   \* the Jobs clients ask for; the others come from retries
    Attempts,    \* attempt identities, numbers in UUIDv7 order
    Workers,     \* owners that may claim a Job
    MaxRounds,   \* format repairs the budget allows
    RunCapacity, \* AIRunCapacity, in stored facts
    Bases,       \* what admission can resolve, 0 while evidence is missing
    MaxTrouble,  \* bound on restarts and on moves of a resolved snapshot
    None         \* no owner, no attempt, no result

AIDesignAssumption ==
    /\ MaxRounds \in Nat /\ RunCapacity \in Nat /\ MaxTrouble \in Nat
    /\ Bases \subseteq Nat /\ 0 \in Bases /\ Attempts \subseteq Nat
    /\ Requested \subseteq Jobs
    /\ None \notin Workers \cup Attempts \cup Jobs

VARIABLES
    run,         \* jobs joined with ai_design_runs
    attempt,     \* ai_attempts with responses, outcomes and seals
    patches,     \* attempts whose draft patch is stored
    evidence,    \* Jobs whose evidence manifest is stored
    checkpoint,  \* the checkpointed phase of each run, 0 for none
    events,      \* ai_job_event_details
    worker,      \* what each worker holds
    signaled,    \* InvocationCancellationRegistry.canceledGeneration
    canceling,   \* coordinator cancellations not signaled yet
    base,        \* the snapshot admission resolves now
    pending,     \* Jobs startup recovery has not looked at
    trouble

vars == <<run, attempt, patches, evidence, checkpoint, events, worker, signaled,
          canceling, base, pending, trouble>>
facts == <<attempt, patches, evidence, checkpoint, events>>
memory == <<signaled, canceling>>
others == <<base, pending, trouble>>

-----------------------------------------------------------------------------
(* Phases, Jobs and attempts *)

Phase == 1..5
InputPinned == 1
EvidencePinned == 2
ProviderToolLoop == 3
DeterministicPreview == 4
PatchSealed == 5

DeterministicRecoveryPhase == Phase \ {ProviderToolLoop}

NoRun == [status |-> "none", row |-> FALSE, phase |-> InputPinned, owner |-> None,
          gen |-> 0, result |-> None, input |-> 0]

QueuedRun(b) == [NoRun EXCEPT !.status = "queued", !.row = TRUE, !.input = b]

(* AIJobState.Valid: what loadAIJobState accepts. *)
ValidState(r) ==
    /\ r.row
    /\ r.status = "queued" => r.phase = InputPinned /\ r.owner = None
    /\ r.status = "running" => r.owner # None
    /\ r.status = "succeeded" => r.phase = PatchSealed /\ r.owner = None /\ r.result # None

NoAttempt == [job |-> None, kind |-> "none", ordinal |-> 0, round |-> 0, parent |-> None,
              gen |-> 0, response |-> "none", outcome |-> "none", seal |-> FALSE, calls |-> 0]

NewAttempt(j, k, n, r, p, g) ==
    [NoAttempt EXCEPT !.job = j, !.kind = k, !.ordinal = n, !.round = r, !.parent = p, !.gen = g]

(* The next identity: UUIDv7 values are made in increasing order. *)
Fresh(a) ==
    attempt[a] = NoAttempt /\ \A b \in Attempts : b < a => attempt[b] # NoAttempt

AttemptsOf(j) == {a \in Attempts : attempt[a].job = j}

LastAttempt(j) ==
    IF AttemptsOf(j) = {} THEN None
    ELSE CHOOSE a \in AttemptsOf(j) : \A b \in AttemptsOf(j) : attempt[b].ordinal <= attempt[a].ordinal

(* ensureAIRunCapacity: what the run stores already, in facts. *)
Stored(j) ==
    Cardinality(AttemptsOf(j))
      + Cardinality({a \in AttemptsOf(j) : attempt[a].response # "none"})
      + Cardinality(AttemptsOf(j) \cap patches)
      + (IF j \in evidence THEN 1 ELSE 0)
      + Cardinality({e \in events : e.job = j})

HasCapacity(j) == Stored(j) < RunCapacity

Idle == [pc |-> "idle", job |-> None, view |-> NoRun, attempt |-> None, lease |-> "none", answer |-> "none"]

Init ==
    /\ run = [j \in Jobs |-> NoRun]
    /\ attempt = [a \in Attempts |-> NoAttempt]
    /\ patches = {} /\ evidence = {} /\ events = {}
    /\ checkpoint = [j \in Jobs |-> 0]
    /\ worker = [w \in Workers |-> Idle]
    /\ signaled = [j \in Jobs |-> 0] /\ canceling = {}
    /\ base = 0 /\ pending = {} /\ trouble = 0

-----------------------------------------------------------------------------
(* Admission *)

(* Validation evidence, the graph or the active release moves. *)
MoveBase ==
    /\ base + 1 \in Bases
    /\ base # 0 => trouble < MaxTrouble
    /\ base' = base + 1
    /\ trouble' = IF base = 0 THEN trouble ELSE trouble + 1
    /\ UNCHANGED <<run, facts, worker, memory, pending>>

(* ResolveAIAdmissionSnapshot: FULL validation, materialization, a ready   *)
(* graph, the active release and the targets, read in one transaction.     *)
Admissible == base # 0

(* POST /ai-design-jobs: Submit stores the shared Job row only.            *)
Submit(j) ==
    /\ Admissible /\ j \in Requested
    /\ run[j].status = "none"
    /\ run' = [run EXCEPT ![j] = [QueuedRun(base) EXCEPT !.row = FALSE]]
    /\ UNCHANGED <<facts, worker, memory, others>>

(* AIJobController.Admit: the Job row and the run row in one transaction.  *)
(* A known key is replayed when the input is the same and refused if not.  *)
AdmitAIJob(j) ==
    /\ Admissible /\ j \in Requested
    /\ run[j].status = "none"
    /\ run' = [run EXCEPT ![j] = QueuedRun(base)]
    /\ UNCHANGED <<facts, worker, memory, others>>

-----------------------------------------------------------------------------
(* Transitions of a Job by the worker that holds a view of it *)

Get(j) == ValidState(run[j])

StoreMatchesIgnoringCancel(j, v) ==
    Get(j) /\ run[j].status = v.status /\ run[j].phase = v.phase /\ run[j].owner = v.owner

(* TransitionAIJob compares every expected field and the generation. *)
StoreMatches(j, v) ==
    /\ Get(j)
    /\ run[j].status = v.status /\ run[j].phase = v.phase
    /\ run[j].owner = v.owner /\ run[j].gen = v.gen

ValidStoredTransition(s, next) == (s = "running" /\ next = "running") \/ CanTransitionTo(s, next)

CommitsTransition(j, v, next) ==
    /\ StoreMatches(j, v)
    /\ ValidStoredTransition(v.status, next.status)
    /\ next.status = "succeeded" => v.gen = 0

(* Worker w moves its Job to next and to pc p, or learns of a conflict. *)
TransitionAIJob(w, next, p) ==
    LET j == worker[w].job
        v == worker[w].view IN
    \/ /\ CommitsTransition(j, v, next)
       /\ run' = [run EXCEPT ![j] = [next EXCEPT !.gen = run[j].gen]]
       /\ worker' = [worker EXCEPT ![w].view = run'[j], ![w].pc = p]
    \/ /\ ~CommitsTransition(j, v, next)
       /\ worker' = [worker EXCEPT ![w].pc = "lost"]
       /\ UNCHANGED run

Load(w, j) ==
    /\ worker[w].pc = "idle"
    /\ Get(j) /\ run[j].status = "queued"
    /\ worker' = [worker EXCEPT ![w] = [Idle EXCEPT !.pc = "loaded", !.job = j, !.view = run[j]]]
    /\ UNCHANGED <<run, facts, memory, others>>

Claim(w) ==
    /\ worker[w].pc = "loaded"
    /\ TransitionAIJob(w, [worker[w].view EXCEPT !.status = "running", !.owner = w], "working")
    /\ UNCHANGED <<facts, memory, others>>

(* InsertEvidenceBatch: one manifest per run, identical ones replay. *)
InsertEvidenceBatch(w) ==
    LET j == worker[w].job IN
    /\ worker[w].pc = "working" /\ worker[w].view.phase = InputPinned
    /\ j \notin evidence /\ run[j].row /\ HasCapacity(j)
    /\ evidence' = evidence \cup {j}
    /\ UNCHANGED <<run, attempt, patches, checkpoint, events, worker, memory, others>>

SaveDeterministicCheckpoint(w) ==
    LET j == worker[w].job
        p == worker[w].view.phase IN
    /\ worker[w].pc \in {"working", "responded", "sealed"}
    /\ p \in DeterministicRecoveryPhase
    /\ Get(j) /\ run[j].status = "running" /\ run[j].gen = worker[w].view.gen
    /\ p <= run[j].phase /\ checkpoint[j] < p
    /\ checkpoint' = [checkpoint EXCEPT ![j] = p]
    /\ UNCHANGED <<run, attempt, patches, evidence, events, worker, memory, others>>

(* The work of a phase is done before the Job advances to the next one. *)
PhaseDone(w) ==
    LET j == worker[w].job
        p == worker[w].view.phase IN
    \/ p = InputPinned /\ worker[w].pc = "working" /\ j \in evidence
    \/ p = EvidencePinned /\ worker[w].pc = "working"
    \/ p = ProviderToolLoop /\ worker[w].pc = "responded" /\ worker[w].answer = "valid"
    \/ p = DeterministicPreview /\ worker[w].pc = "sealed"

Advance(w) ==
    /\ PhaseDone(w)
    /\ TransitionAIJob(w, [worker[w].view EXCEPT !.phase = @ + 1], worker[w].pc)
    /\ UNCHANGED <<facts, memory, others>>

-----------------------------------------------------------------------------
(* The attempt ledger *)

(* validateAIAttemptLineage, and the unique ordinal of an attempt in its Job. *)
ValidLineage(r) ==
    /\ run[r.job].row
    /\ CASE r.kind = "initial" -> AttemptsOf(r.job) = {}
         [] r.kind = "repair" -> /\ r.parent \in AttemptsOf(r.job)
                                 /\ attempt[r.parent].ordinal + 1 = r.ordinal
         [] r.kind = "explicit_retry" -> attempt[r.parent].job # None
    /\ \A a \in AttemptsOf(r.job) : attempt[a].ordinal # r.ordinal

InsertAttempt(w, a) ==
    LET j == worker[w].job
        r == NewAttempt(j, "initial", 1, 0, None, worker[w].view.gen) IN
    /\ worker[w].pc = "working" /\ worker[w].view.phase = ProviderToolLoop
    /\ Fresh(a) /\ ValidLineage(r) /\ HasCapacity(j)
    /\ attempt' = [attempt EXCEPT ![a] = r]
    /\ worker' = [worker EXCEPT ![w].attempt = a]
    /\ UNCHANGED <<run, patches, evidence, checkpoint, events, memory, others>>

(* The attempt of an explicit retry was created with its Job. *)
AdoptAttempt(w) ==
    LET j == worker[w].job IN
    /\ worker[w].pc = "working" /\ worker[w].view.phase = ProviderToolLoop
    /\ worker[w].attempt = None /\ AttemptsOf(j) # {}
    /\ worker' = [worker EXCEPT ![w].attempt = LastAttempt(j)]
    /\ UNCHANGED <<run, facts, memory, others>>

-----------------------------------------------------------------------------
(* Provider calls under a cancellation lease *)

SameCallIdentity(r, v) ==
    /\ ValidState(r) /\ r.status = v.status /\ r.phase = v.phase /\ r.owner = v.owner
    /\ r.gen = 0 /\ v.gen = 0

(* BeginCalls reads the Job, registers the lease, reads the Job again. *)
BeginCallsCheck(w) ==
    /\ worker[w].pc = "working" /\ worker[w].attempt # None
    /\ worker' = [worker EXCEPT ![w].pc =
         IF worker[w].view.gen = 0 /\ SameCallIdentity(run[worker[w].job], worker[w].view)
         THEN "checked" ELSE "lost"]
    /\ UNCHANGED <<run, facts, memory, others>>

BeginCallsRegister(w) ==
    /\ worker[w].pc = "checked"
    /\ worker' = IF signaled[worker[w].job] > worker[w].view.gen
                 THEN [worker EXCEPT ![w].pc = "lost"]
                 ELSE [worker EXCEPT ![w].pc = "registered", ![w].lease = "live"]
    /\ UNCHANGED <<run, facts, memory, others>>

Confirmed(w) == SameCallIdentity(run[worker[w].job], worker[w].view)

BeginCallsConfirm(w) ==
    /\ worker[w].pc = "registered"
    /\ worker' = IF Confirmed(w)
                 THEN [worker EXCEPT ![w].pc = "leased"]
                 ELSE [worker EXCEPT ![w].pc = "lost", ![w].lease = "none"]
    /\ UNCHANGED <<run, facts, memory, others>>

(* ResolveAndInvoke: the manifest is stored before the provider is called. *)
Invoke(w) ==
    /\ worker[w].pc = "leased"
    /\ attempt' = [attempt EXCEPT ![worker[w].attempt].calls = @ + 1]
    /\ worker' = [worker EXCEPT ![w].pc = "calling"]
    /\ UNCHANGED <<run, patches, evidence, checkpoint, events, memory, others>>

(* The provider answers, fails, or stops because the lease was canceled. *)
ProviderAnswers(w, x) ==
    /\ worker[w].pc = "calling"
    /\ x = "stopped" => worker[w].lease = "canceled"
    /\ worker' = [worker EXCEPT ![w].pc = "answered", ![w].answer = x]
    /\ UNCHANGED <<run, facts, memory, others>>

LateEvent(j, a) == [job |-> j, kind |-> "ignored_late_result", attempt |-> a, gen |-> run[j].gen]

(* CommitAIJobEvent: a key is stored once. *)
Publishes(e) == events' = events \cup {e}

Acceptable(w) ==
    LET r == run[worker[w].job] IN
    /\ r.status = "running" /\ r.owner = w /\ r.gen = worker[w].view.gen
    /\ worker[w].lease = "live"

(* AcceptResult: the last check before a response may be stored. *)
AcceptResult(w) ==
    LET j == worker[w].job IN
    /\ worker[w].pc = "answered" /\ worker[w].answer \in {"valid", "malformed"}
    /\ Get(j)
    /\ \/ /\ Acceptable(w)
          /\ worker' = [worker EXCEPT ![w].pc = "accepted"]
          /\ UNCHANGED events
       \/ /\ ~Acceptable(w) /\ run[j].gen > worker[w].view.gen
          /\ HasCapacity(j) /\ Publishes(LateEvent(j, worker[w].attempt))
          /\ worker' = [worker EXCEPT ![w].pc = "late"]
       \/ /\ ~Acceptable(w)
          /\ run[j].gen > worker[w].view.gen => ~HasCapacity(j)
          /\ worker' = [worker EXCEPT ![w].pc = "lost"]
          /\ UNCHANGED events
    /\ UNCHANGED <<run, attempt, patches, evidence, checkpoint, memory, others>>

(* Receipts are unique per attempt and checked against its Job only. *)
InsertTerminalResponse(w) ==
    LET a == worker[w].attempt IN
    /\ worker[w].pc = "accepted"
    /\ attempt[a].response = "none" /\ HasCapacity(worker[w].job)
    /\ attempt' = [attempt EXCEPT ![a].response = worker[w].answer]
    /\ worker' = [worker EXCEPT ![w].pc = "responded"]
    /\ UNCHANGED <<run, patches, evidence, checkpoint, events, memory, others>>

(* A call that failed or was stopped: its attempt gets a terminal outcome. *)
InsertFailedOutcome(w) ==
    LET a == worker[w].attempt IN
    /\ worker[w].pc = "answered" /\ worker[w].answer \in {"failed", "stopped"}
    /\ attempt[a].outcome = "none"
    /\ attempt' = [attempt EXCEPT ![a].outcome = IF worker[w].answer = "stopped" THEN "canceled" ELSE "failed"]
    /\ worker' = [worker EXCEPT ![w].pc = IF worker[w].answer = "stopped" THEN "stopped" ELSE "lost"]
    /\ UNCHANGED <<run, patches, evidence, checkpoint, events, memory, others>>

RoundsUnbounded(a) == TRUE

RoundsLeft(a) == attempt[a].round < MaxRounds

(* RepairController.HandleFailure: the terminal outcome of the attempt and *)
(* its one linked successor, committed together.                           *)
Repair(w, b) ==
    LET a == worker[w].attempt
        r == NewAttempt(worker[w].job, "repair", attempt[a].ordinal + 1, attempt[a].round + 1, a, attempt[a].gen) IN
    /\ worker[w].pc = "responded" /\ worker[w].answer = "malformed"
    /\ RoundsLeft(a)
    /\ Fresh(b) /\ ValidLineage(r)
    /\ attempt' = [attempt EXCEPT ![a].outcome = "failed", ![b] = r]
    /\ worker' = [worker EXCEPT ![w].pc = "leased", ![w].attempt = b, ![w].answer = "none"]
    /\ UNCHANGED <<run, patches, evidence, checkpoint, events, memory, others>>

RepairExhausted(w) ==
    LET a == worker[w].attempt IN
    /\ worker[w].pc = "responded" /\ worker[w].answer = "malformed"
    /\ ~RoundsLeft(a)
    /\ attempt' = [attempt EXCEPT ![a].outcome = "failed"]
    /\ worker' = [worker EXCEPT ![w].pc = "lost"]
    /\ UNCHANGED <<run, patches, evidence, checkpoint, events, memory, others>>

-----------------------------------------------------------------------------
(* The draft patch and the end of the Job *)

InsertDraftPatch(w) ==
    LET j == worker[w].job IN
    /\ worker[w].pc = "responded" /\ worker[w].view.phase = DeterministicPreview
    /\ AttemptsOf(j) \cap patches = {} /\ HasCapacity(j)
    /\ patches' = patches \cup {worker[w].attempt}
    /\ worker' = [worker EXCEPT ![w].pc = "patched"]
    /\ UNCHANGED <<run, attempt, evidence, checkpoint, events, memory, others>>

InsertAttemptOutcome(w) ==
    LET a == worker[w].attempt IN
    /\ worker[w].pc = "patched" /\ attempt[a].outcome = "none"
    /\ attempt' = [attempt EXCEPT ![a].outcome = "succeeded"]
    /\ UNCHANGED <<run, patches, evidence, checkpoint, events, worker, memory, others>>

InsertAttemptPatchSeal(w) ==
    LET a == worker[w].attempt IN
    /\ worker[w].pc = "patched" /\ attempt[a].outcome = "succeeded" /\ a \in patches
    /\ attempt' = [attempt EXCEPT ![a].seal = TRUE]
    /\ worker' = [worker EXCEPT ![w].pc = "sealed"]
    /\ UNCHANGED <<run, patches, evidence, checkpoint, events, memory, others>>

(* AIJobController.SealPatch; the worker returns the lease when it is done. *)
SealPatch(w) ==
    /\ worker[w].pc = "sealed" /\ worker[w].view.phase = PatchSealed
    /\ TransitionAIJob(w, [worker[w].view EXCEPT !.status = "succeeded", !.owner = None,
                                                 !.result = worker[w].attempt], "done")
    /\ UNCHANGED <<facts, memory, others>>

Release(w) ==
    /\ worker[w].pc = "done"
    /\ worker' = [worker EXCEPT ![w] = Idle]
    /\ UNCHANGED <<run, facts, memory, others>>

-----------------------------------------------------------------------------
(* Cancellation *)

Cancelable(r) == r.gen = 0 /\ r.status \notin {"succeeded", "failed", "canceled"}

CanceledRun(r) ==
    IF r.status \in {"queued", "interrupted"}
    THEN [r EXCEPT !.status = "canceled", !.owner = None, !.gen = 1]
    ELSE [r EXCEPT !.gen = 1]

(* POST /jobs/{id}/cancel: the durable request, which signals nobody. *)
RequestCancellation(j) ==
    /\ Get(j) /\ Cancelable(run[j])
    /\ run' = [run EXCEPT ![j] = CanceledRun(@)]
    /\ UNCHANGED <<facts, worker, memory, others>>

(* CancellationCoordinator.Cancel: the durable request or its replay, then *)
(* the signal to every lease of an earlier generation.                     *)
CoordinatorCancel(j) ==
    /\ Get(j) /\ j \notin canceling
    /\ Cancelable(run[j]) \/ run[j].gen > signaled[j]
    /\ run' = IF Cancelable(run[j]) THEN [run EXCEPT ![j] = CanceledRun(@)] ELSE run
    /\ canceling' = canceling \cup {j}
    /\ UNCHANGED <<facts, worker, signaled, others>>

SignalNewCallsOnly(j) ==
    /\ j \in canceling
    /\ canceling' = canceling \ {j}
    /\ signaled' = [signaled EXCEPT ![j] = run[j].gen]
    /\ UNCHANGED <<run, facts, worker, others>>

Signal(j) ==
    /\ j \in canceling
    /\ canceling' = canceling \ {j}
    /\ signaled' = [signaled EXCEPT ![j] = run[j].gen]
    /\ worker' = [w \in Workers |->
         IF worker[w].job = j /\ worker[w].lease = "live"
         THEN [worker[w] EXCEPT !.lease = "canceled"] ELSE worker[w]]
    /\ UNCHANGED <<run, facts, others>>

(* SettleCancellation: canceled when the remote call is known to have      *)
(* stopped, interrupted when it may have completed.                        *)
SettleCancellation(w) ==
    LET j == worker[w].job
        next == IF worker[w].pc = "stopped" THEN "canceled" ELSE "interrupted" IN
    /\ worker[w].pc \in {"late", "lost", "stopped"} /\ worker[w].lease # "none"
    /\ Get(j) /\ run[j].owner \in {None, w} /\ run[j].gen > worker[w].view.gen
    /\ run[j].status \in {"running", next}
    /\ run' = [run EXCEPT ![j] = [@ EXCEPT !.status = next, !.owner = None]]
    /\ worker' = [worker EXCEPT ![w] = Idle]
    /\ UNCHANGED <<facts, memory, others>>

(* A worker that lost its Job for another reason gives up. *)
GiveUp(w) ==
    /\ worker[w].pc \in {"late", "lost", "stopped"}
    /\ worker[w].lease = "none" \/ run[worker[w].job].gen = worker[w].view.gen
    /\ worker' = [worker EXCEPT ![w] = Idle]
    /\ UNCHANGED <<run, facts, memory, others>>

-----------------------------------------------------------------------------
(* Restart, recovery and explicit retry *)

Crash ==
    /\ trouble < MaxTrouble
    /\ trouble' = trouble + 1
    /\ worker' = [w \in Workers |-> Idle]
    /\ signaled' = [j \in Jobs |-> 0] /\ canceling' = {}
    /\ pending' = {j \in Jobs : Get(j) /\ run[j].status = "running"}
    /\ UNCHANGED <<run, facts, base>>

(* AIRecoverySnapshot.Valid: the attempt was made in the Job's generation. *)
ValidSnapshot(j) ==
    LET a == LastAttempt(j) IN
    /\ Get(j)
    /\ a # None => attempt[a].gen = run[j].gen
    /\ a # None /\ attempt[a].outcome = "succeeded" => attempt[a].response # "none"
    /\ checkpoint[j] <= run[j].phase

(* The provider was or may have been invoked and left no receipt. *)
Unreceipted(j) ==
    LET a == LastAttempt(j) IN
    /\ a # None \/ run[j].phase >= ProviderToolLoop
    /\ a # None => attempt[a].response = "none" /\ attempt[a].outcome = "none"

InterruptEvent(j) == [job |-> j, kind |-> "interrupted", attempt |-> LastAttempt(j), gen |-> run[j].gen]

(* AIRecoveryService.Recover.  Nothing but an interruption changes a row:  *)
(* a terminal outcome is observed, a checkpoint reused, a deterministic    *)
(* phase rerun, and an invalid snapshot is left for the operator.          *)
Recover(j) ==
    LET a == LastAttempt(j) IN
    /\ j \in pending
    /\ pending' = pending \ {j}
    /\ \/ /\ ValidSnapshot(j) /\ run[j].status = "running" /\ Unreceipted(j)
          /\ run' = [run EXCEPT ![j].status = "interrupted", ![j].owner = None]
          /\ attempt' = IF a = None THEN attempt ELSE [attempt EXCEPT ![a].outcome = "interrupted"]
          /\ Publishes(InterruptEvent(j))
       \/ /\ ~(ValidSnapshot(j) /\ run[j].status = "running" /\ Unreceipted(j))
          /\ UNCHANGED <<run, attempt, events>>
    /\ UNCHANGED <<patches, evidence, checkpoint, worker, memory, base, trouble>>

(* ExplicitRetryBasis.Valid and the failure classes Retry accepts. *)
Retryable(j) ==
    LET a == LastAttempt(j) IN
    /\ run[j].status \in {"failed", "interrupted"}
    /\ a # None /\ attempt[a].outcome \in {"interrupted", "failed"}

(* ExplicitRetryService.Retry: the input is admitted again and must hash   *)
(* as it did; a new Job and its first attempt are created together.        *)
Retry(j, k, b) ==
    /\ Get(j) /\ Retryable(j)
    /\ Admissible /\ base = run[j].input
    /\ run[k].status = "none" /\ Fresh(b)
    /\ run' = [run EXCEPT ![k] = QueuedRun(base)]
    /\ attempt' = [attempt EXCEPT ![b] = NewAttempt(k, "explicit_retry", 1, 0, LastAttempt(j), 0)]
    /\ UNCHANGED <<patches, evidence, checkpoint, events, worker, memory, others>>

-----------------------------------------------------------------------------
JobStep(j) ==
    \/ Submit(j) \/ AdmitAIJob(j)
    \/ RequestCancellation(j) \/ CoordinatorCancel(j) \/ Signal(j)
    \/ Recover(j)
    \/ \E k \in Jobs, b \in Attempts : Retry(j, k, b)

CallStep(w) ==
    \/ BeginCallsCheck(w) \/ BeginCallsRegister(w) \/ BeginCallsConfirm(w)
    \/ Invoke(w) \/ AcceptResult(w)
    \/ \E x \in {"valid", "malformed", "failed", "stopped"} : ProviderAnswers(w, x)

LedgerStep(w) ==
    \/ InsertEvidenceBatch(w) \/ SaveDeterministicCheckpoint(w) \/ AdoptAttempt(w)
    \/ InsertTerminalResponse(w) \/ InsertFailedOutcome(w) \/ RepairExhausted(w)
    \/ InsertDraftPatch(w) \/ InsertAttemptOutcome(w) \/ InsertAttemptPatchSeal(w)
    \/ \E a \in Attempts : InsertAttempt(w, a) \/ Repair(w, a)

WorkerStep(w) ==
    \/ \E j \in Jobs : Load(w, j)
    \/ Claim(w) \/ Advance(w) \/ SealPatch(w) \/ Release(w)
    \/ SettleCancellation(w) \/ GiveUp(w)
    \/ CallStep(w) \/ LedgerStep(w)

Next ==
    \/ MoveBase \/ Crash
    \/ \E j \in Jobs : JobStep(j)
    \/ \E w \in Workers : WorkerStep(w)

Spec == Init /\ [][Next]_vars

-----------------------------------------------------------------------------
(* A Job succeeds only uncanceled, with the sealed patch of the last       *)
(* attempt of its lineage: answered once, with a stored valid response, a  *)
(* successful outcome and pinned evidence.  Cancellation, a second worker  *)
(* and a restart may come between any two of these facts                   *)
(* (TransitionAIJob compares the generation the worker saw).               *)
SealedIsWhole ==
    \A j \in Jobs : run[j].status = "succeeded" =>
        LET a == run[j].result IN
        /\ run[j].gen = 0 /\ j \in evidence
        /\ a = LastAttempt(j) /\ a \in patches
        /\ attempt[a].seal /\ attempt[a].calls = 1
        /\ attempt[a].response = "valid" /\ attempt[a].outcome = "succeeded"

(* The ledger of a Job is one chain: every attempt after the first repairs *)
(* the failed attempt before it, within the repair budget; an attempt that *)
(* recovery interrupted has no response; the provider was asked at most    *)
(* once per attempt, however many workers and restarts there were.         *)
LineageIsChain ==
    \A a \in Attempts : LET r == attempt[a] IN
        /\ r.calls <= 1
        /\ r.round <= MaxRounds
        /\ r.outcome = "interrupted" => r.response = "none"
        /\ r.kind = "repair" => /\ attempt[r.parent].job = r.job
                                /\ attempt[r.parent].ordinal + 1 = r.ordinal
                                /\ attempt[r.parent].outcome = "failed"
        /\ r.kind = "explicit_retry" => attempt[r.parent].outcome \in {"failed", "interrupted"}
        /\ \A b \in Attempts : r.job # None /\ attempt[b].job = r.job /\ attempt[b].ordinal = r.ordinal => a = b

(* No call runs on deaf: once a cancellation of the coordinator has        *)
(* returned, every confirmed lease of the Job has its context canceled     *)
(* (BeginCalls reads the Job on both sides of the registration).           *)
CancelReachesCalls ==
    \A w \in Workers :
        LET j == worker[w].job IN
        worker[w].pc \in {"leased", "calling", "answered", "accepted"} /\ signaled[j] > 0
          => worker[w].lease = "canceled"
=============================================================================
